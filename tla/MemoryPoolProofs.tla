-------------------------- MODULE MemoryPoolProofs --------------------------
(***************************************************************************)
(* The pool tracks exactly the addresses the runtime has handed out, for   *)
(* every set of addresses, every request size and every interleaving of    *)
(* the pool's operations; its running totals are the sums of the entries   *)
(* of its tables.                                                          *)
(***************************************************************************)
EXTENDS MemoryPool, SumLemmas

\* Adding an entry keeps a size map a size map and adds one address.
LEMMA WithEntryMap ==
    ASSUME NEW m \in SizeMap, NEW p \in Ptrs, NEW s \in RequestSizes
    PROVE  /\ WithEntry(m, p, s) \in SizeMap
           /\ DOMAIN WithEntry(m, p, s) = DOMAIN m \cup {p}
<1>1. PICK S \in SUBSET Ptrs : m \in [S -> RequestSizes]
  BY DEF SizeMap
<1>2. WithEntry(m, p, s) \in [S \cup {p} -> RequestSizes]
  BY <1>1 DEF WithEntry
<1>3. S \cup {p} \in SUBSET Ptrs
  BY <1>1
<1>4. QED
  BY <1>1, <1>2, <1>3 DEF SizeMap, WithEntry

\* Restricting a size map to part of its domain keeps it a size map.
LEMMA RestrictMap ==
    ASSUME NEW m \in SizeMap, NEW T \in SUBSET DOMAIN m
    PROVE  /\ Restrict(m, T) \in SizeMap
           /\ DOMAIN Restrict(m, T) = T
<1>1. PICK S \in SUBSET Ptrs : m \in [S -> RequestSizes]
  BY DEF SizeMap
<1>2. Restrict(m, T) \in [T -> RequestSizes]
  BY <1>1 DEF Restrict
<1>3. T \in SUBSET Ptrs
  BY <1>1
<1>4. QED
  BY <1>1, <1>2, <1>3 DEF SizeMap, Restrict

\* The empty map is a size map.
LEMMA EmptyMap == <<>> \in SizeMap /\ DOMAIN <<>> = {}
<1>1. <<>> \in [{} -> RequestSizes]
  OBVIOUS
<1>2. QED
  BY <1>1 DEF SizeMap

\* The domain of a size map is a finite set of addresses.
LEMMA MapDomain ==
    ASSUME NEW m \in SizeMap
    PROVE  DOMAIN m \subseteq Ptrs /\ Cardinality(DOMAIN m) \in Nat
<1>1. DOMAIN m \subseteq Ptrs
  BY DEF SizeMap
<1>2. IsFiniteSet(DOMAIN m)
  BY <1>1, PoolAssumption, FS_Subset
<1>3. QED
  BY <1>1, <1>2, FS_CardinalityType

\* The entries of a size map are sizes.
LEMMA MapValue ==
    ASSUME NEW m \in SizeMap, NEW p \in DOMAIN m
    PROVE  m[p] \in RequestSizes
<1>1. PICK S \in SUBSET Ptrs : m \in [S -> RequestSizes]
  BY DEF SizeMap
<1>2. QED
  BY <1>1

\* size_t arithmetic stays in range.
LEMMA ModInRange ==
    ASSUME NEW i \in Int
    PROVE  i % Modulus \in SizeT
  BY PoolAssumption, SMT DEF SizeT

LEMMA TypeInit == PoolInit => TypeOK
<1> SUFFICES ASSUME PoolInit PROVE TypeOK
  OBVIOUS
<1>1. allocations \in SizeMap /\ graphAllocations \in SizeMap
  BY EmptyMap DEF PoolInit
<1>2. /\ deviceBytes \in SizeT /\ pinnedBytes \in SizeT /\ current \in SizeT
      /\ poolSize \in Nat
  BY PoolAssumption DEF PoolInit, SizeT, GetPoolSize
<1>3. QED
  BY <1>1, <1>2 DEF PoolInit, TypeOK

LEMMA TypeNext == TypeOK /\ [PoolNext]_poolVars => TypeOK'
<1> SUFFICES ASSUME TypeOK, [PoolNext]_poolVars PROVE TypeOK'
  OBVIOUS
<1> USE DEF TypeOK
<1>0. SizeT \subseteq Int /\ RequestSizes \subseteq Int
  BY PoolAssumption DEF SizeT, RequestSizes
<1>1. ASSUME NEW p \in Ptrs, NEW size \in RequestSizes, NEW persistent \in BOOLEAN,
             Allocate(p, size, persistent)
      PROVE  TypeOK'
  <2>1. allocations' \in SizeMap /\ graphAllocations' \in SizeMap
    <3>1. CASE persistent
      <4>1. graphAllocations' = WithEntry(graphAllocations, p, size)
            /\ allocations' = allocations
        BY <1>1, <3>1, Zenon DEF Allocate
      <4>2. QED
        BY <4>1, WithEntryMap, Zenon
    <3>2. CASE ~persistent
      <4>1. allocations' = WithEntry(allocations, p, size)
            /\ graphAllocations' = graphAllocations
        BY <1>1, <3>2, Zenon DEF Allocate
      <4>2. QED
        BY <4>1, WithEntryMap, Zenon
    <3>3. QED
      BY <3>1, <3>2
  <2>2. current' \in SizeT
    BY <1>0, <1>1, ModInRange DEF Allocate
  <2>3. overflowWarned' \in BOOLEAN /\ totalAllocations' \in Nat
    BY <1>1 DEF Allocate, NoteOverflow
  <2>4. QED
    BY <1>1, <2>1, <2>2, <2>3 DEF Allocate, persistentVars
<1>2. ASSUME NEW p \in Ptrs, Free(p)
      PROVE  TypeOK'
  <2>1. CASE FreeStream(p)
    <3>1. allocations[p] \in RequestSizes
      BY <2>1, MapValue DEF FreeStream, StreamTracked
    <3>2. current' \in SizeT
      <4>1. current - allocations[p] \in Int
        <5>1. current \in Int /\ allocations[p] \in Int
          BY <1>0, <3>1, Zenon
        <5>2. QED
          BY <5>1, SMT
      <4>2. QED
        BY <2>1, <4>1, ModInRange, Zenon DEF FreeStream
    <3>3. allocations' \in SizeMap
      BY <2>1, RestrictMap DEF FreeStream, StreamTracked
    <3>4. QED
      BY <1>2, <2>1, <3>2, <3>3 DEF Free, FreeStream, persistentVars
  <2>2. CASE FreeGraph(p)
    <3>1. graphAllocations[p] \in RequestSizes
      BY <2>2, MapValue DEF FreeGraph, GraphTracked
    <3>2. current' \in SizeT
      <4>1. current - graphAllocations[p] \in Int
        <5>1. current \in Int /\ graphAllocations[p] \in Int
          BY <1>0, <3>1, Zenon
        <5>2. QED
          BY <5>1, SMT
      <4>2. QED
        BY <2>2, <4>1, ModInRange, Zenon DEF FreeGraph
    <3>3. graphAllocations' \in SizeMap
      BY <2>2, RestrictMap DEF FreeGraph, GraphTracked
    <3>4. QED
      BY <1>2, <2>2, <3>2, <3>3 DEF Free, FreeGraph, persistentVars
  <2>3. QED
    BY <1>2, <2>1, <2>2 DEF Free
<1>3. ASSUME NEW p \in Ptrs, NEW bytes \in RequestSizes, NEW pinned \in BOOLEAN,
             AllocatePersistent(p, bytes, pinned)
      PROVE  TypeOK'
  <2>1. persistentAllocs' \subseteq PersistentAllocInfo
    BY <1>3 DEF AllocatePersistent, PersistentAllocInfo
  <2>2. deviceBytes' \in SizeT /\ pinnedBytes' \in SizeT
    BY <1>0, <1>3, ModInRange DEF AllocatePersistent
  <2>3. QED
    BY <1>3, <2>1, <2>2 DEF AllocatePersistent
<1>4. ASSUME NEW p \in Ptrs, NEW pinned \in BOOLEAN, FreePersistent(p, pinned)
      PROVE  TypeOK'
  <2>1. PICK a \in persistentAllocs :
          /\ persistentAllocs' = persistentAllocs \ {a}
          /\ deviceBytes' = (deviceBytes - IF pinned THEN 0 ELSE a.bytes) % Modulus
          /\ pinnedBytes' = (pinnedBytes - IF pinned THEN a.bytes ELSE 0) % Modulus
          /\ held' = held \ {p}
          /\ UNCHANGED <<allocations, graphAllocations, current,
                         totalAllocations, totalFrees, poolSize, overflowWarned,
                         alive, resetOverGraph>>
    BY <1>4 DEF FreePersistent
  <2>2. a.bytes \in Int
    BY <1>0, <2>1 DEF PersistentAllocInfo
  <2>3. deviceBytes' \in SizeT /\ pinnedBytes' \in SizeT
    BY <1>0, <2>1, <2>2, ModInRange
  <2>4. QED
    BY <2>1, <2>3
<1>5. CASE ResetPool
  <2>1. Cardinality(StreamTracked) \in Nat
    BY MapDomain DEF StreamTracked
  <2>2. 0 \in SizeT
    BY PoolAssumption DEF SizeT
  <2>3. resetOverGraph' \in BOOLEAN
    BY <1>5, Zenon DEF ResetPool
  <2>4. allocations' \in SizeMap /\ current' \in SizeT /\ totalFrees' \in Nat
    BY <1>5, <2>1, <2>2, EmptyMap DEF ResetPool
  <2>5. overflowWarned' \in BOOLEAN /\ held' \subseteq Ptrs
    BY <1>5 DEF ResetPool
  <2>6. QED
    BY <1>5, <2>3, <2>4, <2>5, Zenon DEF ResetPool, persistentVars
<1>6. ASSUME NEW bytes \in Thresholds, SetReleaseThreshold(bytes)
      PROVE  TypeOK'
  BY <1>6, PoolAssumption DEF SetReleaseThreshold, persistentVars, GetPoolSize
<1>7. CASE Destroy
  BY <1>7, EmptyMap DEF Destroy
<1>8. CASE UNCHANGED poolVars
  BY <1>8 DEF poolVars
<1>9. QED
  BY <1>1, <1>2, <1>3, <1>4, <1>5, <1>6, <1>7, <1>8 DEF PoolNext

\* Every variable keeps its type under every operation of the pool.
THEOREM TypeCorrect == PoolSpec => []TypeOK
  BY TypeInit, TypeNext, PTL DEF PoolSpec

-----------------------------------------------------------------------------
LEMMA TrackedInit == PoolInit => TrackedExactly
  BY EmptyMap DEF PoolInit, TrackedExactly, Tracked, StreamTracked, GraphTracked,
                  PersistentTracked

LEMMA TrackedNext == TypeOK /\ TrackedExactly /\ [PoolNext]_poolVars => TrackedExactly'
<1> SUFFICES ASSUME TypeOK, TrackedExactly, [PoolNext]_poolVars PROVE TrackedExactly'
  OBVIOUS
<1> USE DEF TypeOK, TrackedExactly, Tracked, StreamTracked, GraphTracked,
            PersistentTracked
<1>1. ASSUME NEW p \in Ptrs, NEW size \in RequestSizes, NEW persistent \in BOOLEAN,
             Allocate(p, size, persistent)
      PROVE  TrackedExactly'
  <2>1. CASE persistent
    <3>1. DOMAIN graphAllocations' = DOMAIN graphAllocations \cup {p}
      BY <1>1, <2>1, WithEntryMap DEF Allocate
    <3>2. QED
      BY <1>1, <2>1, <3>1 DEF Allocate, Fresh, persistentVars
  <2>2. CASE ~persistent
    <3>1. DOMAIN allocations' = DOMAIN allocations \cup {p}
      BY <1>1, <2>2, WithEntryMap DEF Allocate
    <3>2. QED
      BY <1>1, <2>2, <3>1 DEF Allocate, Fresh, persistentVars
  <2>3. QED
    BY <2>1, <2>2
<1>2. ASSUME NEW p \in Ptrs, Free(p)
      PROVE  TrackedExactly'
  <2>1. CASE FreeStream(p)
    <3>1. DOMAIN allocations' = DOMAIN allocations \ {p}
      BY <2>1, RestrictMap DEF FreeStream
    <3>2. QED
      BY <1>2, <2>1, <3>1 DEF Free, FreeStream, persistentVars
  <2>2. CASE FreeGraph(p)
    <3>1. DOMAIN graphAllocations' = DOMAIN graphAllocations \ {p}
      BY <2>2, RestrictMap DEF FreeGraph
    <3>2. QED
      BY <1>2, <2>2, <3>1 DEF Free, FreeGraph, persistentVars
  <2>3. QED
    BY <1>2, <2>1, <2>2 DEF Free
<1>3. ASSUME NEW p \in Ptrs, NEW bytes \in RequestSizes, NEW pinned \in BOOLEAN,
             AllocatePersistent(p, bytes, pinned)
      PROVE  TrackedExactly'
  <2> DEFINE a == [ptr |-> p, bytes |-> bytes, pinned |-> pinned]
  <2>1. /\ p \notin held
        /\ held' = held \cup {p}
        /\ persistentAllocs' = persistentAllocs \cup {a}
        /\ UNCHANGED <<allocations, graphAllocations>>
    BY <1>3 DEF AllocatePersistent, Fresh
  <2>2. a.ptr = p
    OBVIOUS
  <2> HIDE DEF a
  <2>3. PersistentTracked' = PersistentTracked \cup {p}
    BY <2>1, <2>2
  <2>4. QED
    BY <2>1, <2>2, <2>3
<1>4. ASSUME NEW p \in Ptrs, NEW pinned \in BOOLEAN, FreePersistent(p, pinned)
      PROVE  TrackedExactly'
  <2>1. PICK a \in persistentAllocs :
          /\ a.ptr = p
          /\ persistentAllocs' = persistentAllocs \ {a}
          /\ held' = held \ {p}
          /\ UNCHANGED <<allocations, graphAllocations>>
    BY <1>4 DEF FreePersistent
  <2>2. PersistentTracked' = PersistentTracked \ {p}
    BY <2>1
  <2>3. QED
    BY <2>1, <2>2
<1>5. CASE ResetPool
  BY <1>5, EmptyMap DEF ResetPool, persistentVars
<1>6. ASSUME NEW bytes \in Thresholds, SetReleaseThreshold(bytes)
      PROVE  TrackedExactly'
  BY <1>6 DEF SetReleaseThreshold, persistentVars
<1>7. CASE Destroy
  BY <1>7, EmptyMap DEF Destroy
<1>8. CASE UNCHANGED poolVars
  BY <1>8 DEF poolVars
<1>9. QED
  BY <1>1, <1>2, <1>3, <1>4, <1>5, <1>6, <1>7, <1>8 DEF PoolNext

\* No allocation is leaked and none is returned to the runtime twice: what the
\* runtime holds for the pool is what the three tables record, each address in
\* exactly one of them.
THEOREM TrackingCorrect == PoolSpec => []TrackedExactly
<1>1. PoolInit => TypeOK /\ TrackedExactly
  BY TypeInit, TrackedInit
<1>2. (TypeOK /\ TrackedExactly) /\ [PoolNext]_poolVars => (TypeOK /\ TrackedExactly)'
  BY TypeNext, TrackedNext
<1>3. QED
  BY <1>1, <1>2, PTL DEF PoolSpec

-----------------------------------------------------------------------------
(***************************************************************************)
(* The running totals.  Each is shown to be the sum of the entries of its  *)
(* table: an allocation adds one entry and its size, a free removes one    *)
(* entry and subtracts what was recorded for it.                           *)
(***************************************************************************)

\* A quotient and a remainder in range determine the remainder.
LEMMA ModUnique ==
    ASSUME NEW M \in Nat, M > 0, NEW q \in Int, NEW r \in 0..M-1
    PROVE  ((M * q) + r) % M = r
<1> DEFINE y == (M * q) + r
           k == y \div M
           m == y % M
<1>1. y \in Int
  OBVIOUS
<1>2. y = (M * k) + m /\ k \in Int /\ m \in 0..M-1
  BY <1>1
<1> HIDE DEF k, m
<1>3. (M * q) + r = (M * k) + m
  BY <1>2
<1>4. M * (q - k) = m - r
  BY <1>2, <1>3
<1>5. q - k < 1
  <2>1. SUFFICES ASSUME q - k >= 1 PROVE FALSE
    BY <1>2
  <2>2. M * (q - k) >= M
    BY <2>1, <1>2
  <2> QED
    BY <2>2, <1>4, <1>2
<1>6. q - k > -1
  <2>1. SUFFICES ASSUME q - k <= -1 PROVE FALSE
    BY <1>2
  <2>2. M * (q - k) <= -M
    BY <2>1, <1>2
  <2> QED
    BY <2>2, <1>4, <1>2
<1>7. q = k
  BY <1>5, <1>6, <1>2
<1>8. m = r
  BY <1>3, <1>7, <1>2
<1> QED
  BY <1>8 DEF m

\* Adding and subtracting commute with the wrap of a size_t.
LEMMA ModAdd ==
    ASSUME NEW M \in Nat, M > 0, NEW a \in Int, NEW d \in Int
    PROVE  ((a % M) + d) % M = (a + d) % M
<1> DEFINE q == a \div M
           r == a % M
           k == (r + d) \div M
           m == (r + d) % M
<1>1. a = (M * q) + r /\ q \in Int /\ r \in 0..M-1
  OBVIOUS
<1>2. (r + d) = (M * k) + m /\ k \in Int /\ m \in 0..M-1
  BY <1>1
<1> HIDE DEF q, r, k, m
<1>3. a + d = (M * (q + k)) + m
  BY <1>1, <1>2
<1>4. ((M * (q + k)) + m) % M = m
  BY <1>1, <1>2, ModUnique
<1> QED
  BY <1>3, <1>4 DEF r, m

\* Bytes(m) is the sum of m over its domain.
LEMMA BytesTotal == ASSUME NEW m PROVE Bytes(m) = Total(m, DOMAIN m)
  BY Zenon DEF Bytes, Total

\* An empty table holds nothing.
LEMMA BytesEmpty == ASSUME NEW m, DOMAIN m = {} PROVE Bytes(m) = 0
  BY BytesTotal, TotalEmpty

\* Total bytes of a finite table of sizes, and what one entry contributes.
LEMMA BytesInt ==
    ASSUME NEW m, IsFiniteSet(DOMAIN m), \A p \in DOMAIN m : m[p] \in Int
    PROVE  Bytes(m) \in Int
  BY BytesTotal, TotalInt

LEMMA BytesMore ==
    ASSUME NEW m, NEW n, NEW p, p \notin DOMAIN m, IsFiniteSet(DOMAIN m),
           \A q \in DOMAIN m : m[q] \in Int,
           DOMAIN n = DOMAIN m \cup {p}, n[p] \in Int,
           \A q \in DOMAIN m : n[q] = m[q]
    PROVE  Bytes(n) = Bytes(m) + n[p]
<1>1. Bytes(n) = Total(n, DOMAIN m \cup {p})
  BY BytesTotal
<1>2. \A q \in DOMAIN m \cup {p} : n[q] \in Int
  OBVIOUS
<1>3. Total(n, DOMAIN m \cup {p}) = n[p] + Total(n, DOMAIN m)
  BY <1>2, TotalAdd
<1>4. Total(n, DOMAIN m) = Total(m, DOMAIN m)
  BY TotalSame
<1>5. Bytes(m) = Total(m, DOMAIN m) /\ Bytes(m) \in Int
  BY BytesTotal, BytesInt
<1> QED
  BY <1>1, <1>3, <1>4, <1>5

\* One step of a running total that is in step with its table: an entry more.
LEMMA TotalGrows ==
    ASSUME NEW t \in Int, NEW b \in Int, NEW c \in Int, t = b % Modulus,
           NEW d \in Int, c = b + d
    PROVE  (t + d) % Modulus = c % Modulus
<1>1. Modulus \in Nat /\ Modulus > 0
  BY PoolAssumption
<1>2. ((b % Modulus) + d) % Modulus = (b + d) % Modulus
  BY <1>1, ModAdd
<1> QED
  BY <1>2

\* A size map is finite and holds integers.
LEMMA SizeMapFinite ==
    ASSUME NEW m \in SizeMap
    PROVE  /\ IsFiniteSet(DOMAIN m)
           /\ \A p \in DOMAIN m : m[p] \in Int
           /\ Bytes(m) \in Int
<1>1. IsFiniteSet(DOMAIN m)
  BY PoolAssumption, MapDomain, FS_Subset
<1>2. \A p \in DOMAIN m : m[p] \in Int
  BY MapValue, PoolAssumption DEF RequestSizes
<1> QED
  BY <1>1, <1>2, BytesInt

LEMMA WithEntryBytes ==
    ASSUME NEW m \in SizeMap, NEW p \in Ptrs, p \notin DOMAIN m, NEW s \in RequestSizes
    PROVE  Bytes(WithEntry(m, p, s)) = Bytes(m) + s
<1> DEFINE n == WithEntry(m, p, s)
<1>1. DOMAIN n = DOMAIN m \cup {p}
  BY WithEntryMap
<1>2. n[p] = s /\ \A q \in DOMAIN m : n[q] = m[q]
  BY DEF WithEntry
<1>3. s \in Int
  BY PoolAssumption DEF RequestSizes
<1> HIDE DEF n
<1>4. Bytes(n) = Bytes(m) + n[p]
  BY <1>1, <1>2, <1>3, SizeMapFinite, BytesMore
<1> QED
  BY <1>2, <1>4 DEF n

LEMMA RestrictBytes ==
    ASSUME NEW m \in SizeMap, NEW p \in DOMAIN m
    PROVE  Bytes(Restrict(m, DOMAIN m \ {p})) = Bytes(m) - m[p]
<1> DEFINE n == Restrict(m, DOMAIN m \ {p})
<1>1. n \in SizeMap /\ DOMAIN n = DOMAIN m \ {p}
  BY RestrictMap
<1>2. \A q \in DOMAIN n : n[q] = m[q]
  BY DEF Restrict
<1> HIDE DEF n
<1>3. p \notin DOMAIN n /\ DOMAIN m = DOMAIN n \cup {p}
  BY <1>1
<1>4. m[p] \in Int
  BY SizeMapFinite
<1>5. Bytes(m) = Bytes(n) + m[p]
  BY <1>1, <1>2, <1>3, <1>4, SizeMapFinite, BytesMore
<1>6. Bytes(n) \in Int
  BY <1>1, SizeMapFinite
<1> QED
  BY <1>4, <1>5, <1>6 DEF n

\* The running total is kept by every operation: the addresses of the two maps
\* are disjoint from a fresh one, and a free subtracts the recorded size.
LEMMA UsageNext ==
    ASSUME TypeOK, TrackedExactly, UsageExact, [PoolNext]_poolVars
    PROVE  UsageExact'
<1> DEFINE a == Bytes(allocations)
           g == Bytes(graphAllocations)
<1>t. /\ allocations \in SizeMap /\ graphAllocations \in SizeMap
      /\ a \in Int /\ g \in Int /\ current \in Int
  BY SizeMapFinite, PoolAssumption DEF TypeOK, SizeT
<1> SUFFICES ASSUME alive', ~resetOverGraph'
             PROVE  current' = (a' + g') % Modulus
  BY DEF UsageExact
<1>0. ASSUME UNCHANGED <<alive, resetOverGraph>>
      PROVE  current = (a + g) % Modulus
  BY <1>0 DEF UsageExact
<1> HIDE DEF a, g
<1>1. ASSUME NEW p \in Ptrs, NEW size \in RequestSizes, NEW persistent \in BOOLEAN,
             Allocate(p, size, persistent)
      PROVE  current' = (a' + g') % Modulus
  <2>1. p \notin DOMAIN allocations /\ p \notin DOMAIN graphAllocations
    BY <1>1 DEF Allocate, Fresh, TrackedExactly, Tracked, StreamTracked, GraphTracked
  <2>2. current = (a + g) % Modulus /\ current' = (current + size) % Modulus
    BY <1>0, <1>1 DEF Allocate
  <2>3. size \in Int
    BY PoolAssumption DEF RequestSizes
  <2>4. CASE persistent
    <3>1. a' = a /\ g' = g + size
      BY <1>1, <1>t, <2>1, <2>4, WithEntryBytes DEF Allocate, a, g
    <3>2. a' + g' = (a + g) + size
      BY <1>t, <2>3, <3>1
    <3> QED
      BY <1>t, <2>2, <2>3, <3>2, TotalGrows
  <2>5. CASE ~persistent
    <3>1. a' = a + size /\ g' = g
      BY <1>1, <1>t, <2>1, <2>5, WithEntryBytes DEF Allocate, a, g
    <3>2. a' + g' = (a + g) + size
      BY <1>t, <2>3, <3>1
    <3> QED
      BY <1>t, <2>2, <2>3, <3>2, TotalGrows
  <2> QED
    BY <2>4, <2>5
<1>2. ASSUME NEW p \in Ptrs, Free(p)
      PROVE  current' = (a' + g') % Modulus
  <2>1. current = (a + g) % Modulus
    BY <1>0, <1>2 DEF Free
  <2>2. CASE FreeStream(p)
    <3>1. p \in DOMAIN allocations /\ allocations[p] \in Int
      BY <1>t, <2>2, SizeMapFinite DEF FreeStream, StreamTracked
    <3>2. a' = a - allocations[p] /\ g' = g
      BY <1>t, <2>2, <3>1, RestrictBytes DEF FreeStream, StreamTracked, a, g
    <3>3. a' + g' = (a + g) + (-allocations[p])
      BY <1>t, <3>1, <3>2
    <3>4. current' = (current + (-allocations[p])) % Modulus
      BY <1>t, <2>2, <3>1 DEF FreeStream
    <3> QED
      BY SMTT(60), <1>t, <2>1, <3>1, <3>3, <3>4, TotalGrows
  <2>3. CASE FreeGraph(p)
    <3>1. p \in DOMAIN graphAllocations /\ graphAllocations[p] \in Int
      BY <1>t, <2>3, SizeMapFinite DEF FreeGraph, GraphTracked
    <3>2. a' = a /\ g' = g - graphAllocations[p]
      BY <1>t, <2>3, <3>1, RestrictBytes DEF FreeGraph, GraphTracked, a, g
    <3>3. a' + g' = (a + g) + (-graphAllocations[p])
      BY <1>t, <3>1, <3>2
    <3>4. current' = (current + (-graphAllocations[p])) % Modulus
      BY <1>t, <2>3, <3>1 DEF FreeGraph
    <3> QED
      BY SMTT(60), <1>t, <2>1, <3>1, <3>3, <3>4, TotalGrows
  <2> QED
    BY <1>2, <2>2, <2>3 DEF Free
<1>3. CASE ResetPool
  <2>1. allocations' = <<>> /\ current' = 0 /\ graphAllocations' = graphAllocations
    BY <1>3 DEF ResetPool
  <2>2. DOMAIN graphAllocations = {}
    BY <1>3 DEF ResetPool, GraphTracked
  <2>3. a' = 0 /\ g' = 0
    BY <2>1, <2>2, EmptyMap, BytesEmpty DEF a, g
  <2>4. 0 % Modulus = 0
    BY PoolAssumption
  <2> QED
    BY <2>1, <2>3, <2>4
<1>4. CASE \/ \E p \in Ptrs, bytes \in RequestSizes, pinned \in BOOLEAN :
                AllocatePersistent(p, bytes, pinned)
           \/ \E p \in Ptrs, pinned \in BOOLEAN : FreePersistent(p, pinned)
           \/ \E bytes \in Thresholds : SetReleaseThreshold(bytes)
           \/ UNCHANGED poolVars
  <2>1. UNCHANGED <<allocations, graphAllocations, current, alive, resetOverGraph>>
    BY <1>4, Zenon DEF AllocatePersistent, FreePersistent, SetReleaseThreshold, poolVars
  <2>2. a' = a /\ g' = g
    BY <2>1 DEF a, g
  <2> QED
    BY <1>0, <2>1, <2>2
<1>5. CASE Destroy
  BY <1>5 DEF Destroy
<1> QED
  BY <1>1, <1>2, <1>3, <1>4, <1>5, Zenon DEF PoolNext

\* getCurrentUsage() is exact in size_t arithmetic, for every set of addresses
\* and request sizes, until a reset() runs over a live graph allocation.
THEOREM UsageCorrect == PoolSpec => []UsageExact
<1> DEFINE I == TypeOK /\ TrackedExactly /\ UsageExact
<1>1. PoolInit => I
  <2>1. PoolInit => UsageExact
    <3> SUFFICES ASSUME PoolInit PROVE UsageExact
      OBVIOUS
    <3>1. Bytes(allocations) = 0 /\ Bytes(graphAllocations) = 0 /\ current = 0
      BY EmptyMap, BytesEmpty DEF PoolInit
    <3>2. 0 % Modulus = 0
      BY PoolAssumption
    <3> QED
      BY <3>1, <3>2 DEF UsageExact
  <2> QED
    BY <2>1, TypeInit, TrackedInit
<1>2. I /\ [PoolNext]_poolVars => I'
  BY TypeNext, TrackedNext, UsageNext
<1> QED
  BY <1>1, <1>2, PTL DEF PoolSpec

\* The table of one kind of scratch, with a finite set of integer entries.
LEMMA KindFinite ==
    ASSUME NEW S \in SUBSET PersistentAllocInfo, \A a, b \in S : a.ptr = b.ptr => a = b,
           NEW k \in BOOLEAN
    PROVE  LET m == [a \in {b \in S : b.pinned = k} |-> a.bytes]
           IN  /\ IsFiniteSet(DOMAIN m)
               /\ \A a \in DOMAIN m : m[a] \in Int
               /\ Bytes(m) \in Int
<1> DEFINE R == {b \in S : b.pinned = k}
           m == [a \in R |-> a.bytes]
           h == [a \in S |-> a.ptr]
<1>1. h \in Injection(S, Ptrs)
  <2>1. h \in [S -> Ptrs]
    BY DEF PersistentAllocInfo
  <2>2. \A a, b \in S : h[a] = h[b] => a = b
    OBVIOUS
  <2> HIDE DEF h
  <2> QED
    BY <2>1, <2>2, Zenon DEF Injection, IsInjective
<1>2. IsFiniteSet(S)
  <2> HIDE DEF h
  <2> QED
    BY <1>1, FS_Injection, PoolAssumption
<1>3. IsFiniteSet(DOMAIN m)
  BY <1>2, FS_Subset
<1>4. \A a \in DOMAIN m : m[a] \in Int
  BY PoolAssumption DEF PersistentAllocInfo, RequestSizes
<1> HIDE DEF m
<1>5. Bytes(m) \in Int
  BY <1>3, <1>4, BytesInt
<1> QED
  BY <1>3, <1>4, <1>5 DEF m

\* One entry more, or one less seen the other way round: the total of its kind
\* grows by its bytes and the total of the other kind stays.
LEMMA KindMore ==
    ASSUME NEW S \in SUBSET PersistentAllocInfo, NEW e \in PersistentAllocInfo,
           \A a, b \in S \cup {e} : a.ptr = b.ptr => a = b, e \notin S,
           NEW k \in BOOLEAN
    PROVE  Bytes([a \in {b \in S \cup {e} : b.pinned = k} |-> a.bytes])
             = Bytes([a \in {b \in S : b.pinned = k} |-> a.bytes])
                 + IF e.pinned = k THEN e.bytes ELSE 0
<1> DEFINE R == {b \in S : b.pinned = k}
           m == [a \in R |-> a.bytes]
           Q == {b \in S \cup {e} : b.pinned = k}
           n == [a \in Q |-> a.bytes]
<1>1. \A a, b \in S : a.ptr = b.ptr => a = b
  OBVIOUS
<1>2. IsFiniteSet(DOMAIN m) /\ (\A a \in DOMAIN m : m[a] \in Int) /\ Bytes(m) \in Int
  BY <1>1, KindFinite, Zenon
<1>3. CASE e.pinned = k
  <2>1. DOMAIN n = DOMAIN m \cup {e} /\ e \notin DOMAIN m
    BY <1>3
  <2>2. n[e] = e.bytes /\ \A q \in DOMAIN m : n[q] = m[q]
    BY <1>3
  <2>3. e.bytes \in Int
    BY PoolAssumption DEF PersistentAllocInfo, RequestSizes
  <2> HIDE DEF m, n
  <2>4. Bytes(n) = Bytes(m) + n[e]
    BY <1>2, <2>1, <2>2, <2>3, BytesMore
  <2> QED
    BY <1>3, <2>2, <2>4 DEF m, n
<1>4. CASE e.pinned # k
  <2>1. Q = R
    BY <1>4
  <2>2. m = n
    BY <2>1
  <2>3. Bytes(m) = Bytes(n)
    BY <2>2
  <2> HIDE DEF m, n
  <2> QED
    BY <1>2, <1>4, <2>3 DEF m, n
<1> QED
  BY <1>3, <1>4

\* Every operation keeps both scratch totals in step with the table.
LEMMA PersistentNext ==
    ASSUME TypeOK, TrackedExactly, TrackedExactly', PersistentBytesExact, [PoolNext]_poolVars
    PROVE  PersistentBytesExact'
<1> DEFINE V(S) == Bytes([a \in {b \in S : b.pinned = FALSE} |-> a.bytes])
           P(S) == Bytes([a \in {b \in S : b.pinned = TRUE} |-> a.bytes])
<1>t. /\ persistentAllocs \in SUBSET PersistentAllocInfo
      /\ \A a, b \in persistentAllocs : a.ptr = b.ptr => a = b
      /\ \A a, b \in persistentAllocs' : a.ptr = b.ptr => a = b
      /\ deviceBytes \in Int /\ pinnedBytes \in Int
  BY PoolAssumption DEF TypeOK, TrackedExactly, SizeT
<1>i. ASSUME NEW S \in SUBSET PersistentAllocInfo,
             \A a, b \in S : a.ptr = b.ptr => a = b
      PROVE  P(S) \in Int /\ V(S) \in Int
  BY <1>i, KindFinite, Zenon
<1>m. ASSUME NEW S \in SUBSET PersistentAllocInfo, NEW e \in PersistentAllocInfo,
             \A a, b \in S \cup {e} : a.ptr = b.ptr => a = b, e \notin S
      PROVE  /\ e.pinned = TRUE => P(S \cup {e}) = P(S) + e.bytes /\ V(S \cup {e}) = V(S) + 0
             /\ e.pinned = FALSE => P(S \cup {e}) = P(S) + 0 /\ V(S \cup {e}) = V(S) + e.bytes
  <2>1. P(S \cup {e}) = P(S) + IF e.pinned = TRUE THEN e.bytes ELSE 0
    BY <1>m, KindMore, Zenon
  <2>2. V(S \cup {e}) = V(S) + IF e.pinned = FALSE THEN e.bytes ELSE 0
    BY <1>m, KindMore, Zenon
  <2> HIDE DEF P, V
  <2>3. ASSUME e.pinned = TRUE
        PROVE  P(S \cup {e}) = P(S) + e.bytes /\ V(S \cup {e}) = V(S) + 0
    BY <2>1, <2>2, <2>3, Zenon
  <2>4. ASSUME e.pinned = FALSE
        PROVE  P(S \cup {e}) = P(S) + 0 /\ V(S \cup {e}) = V(S) + e.bytes
    BY <2>1, <2>2, <2>4, Zenon
  <2> QED
    BY <2>3, <2>4, Zenon
<1>g. PersistentBytesExact =
        (alive => /\ deviceBytes = V(persistentAllocs) % Modulus
                  /\ pinnedBytes = P(persistentAllocs) % Modulus)
  BY Zenon DEF PersistentBytesExact, KindBytes
<1>h. PersistentBytesExact' =
        (alive' => /\ deviceBytes' = V(persistentAllocs') % Modulus
                   /\ pinnedBytes' = P(persistentAllocs') % Modulus)
  BY Zenon DEF PersistentBytesExact, KindBytes
<1> HIDE DEF P, V
<1>a. alive \/ UNCHANGED poolVars
  BY DEF PoolNext
<1>1. ASSUME NEW p \in Ptrs, NEW bytes \in RequestSizes, NEW pinned \in BOOLEAN,
             AllocatePersistent(p, bytes, pinned), alive
      PROVE  PersistentBytesExact'
  <2> DEFINE e == [ptr |-> p, bytes |-> bytes, pinned |-> pinned]
  <2>1. e \in PersistentAllocInfo /\ e.pinned = pinned /\ e.bytes = bytes /\ e.ptr = p
    BY DEF PersistentAllocInfo
  <2>2. bytes \in Int
    BY PoolAssumption DEF RequestSizes
  <2>3. /\ persistentAllocs' = persistentAllocs \cup {e}
        /\ deviceBytes' = (deviceBytes + IF pinned THEN 0 ELSE bytes) % Modulus
        /\ pinnedBytes' = (pinnedBytes + IF pinned THEN bytes ELSE 0) % Modulus
    BY <1>1 DEF AllocatePersistent
  <2>4. e \notin persistentAllocs
    BY <1>1 DEF AllocatePersistent, Fresh, TrackedExactly, Tracked, PersistentTracked
  <2> HIDE DEF e
  <2>5. /\ e.pinned = TRUE => /\ P(persistentAllocs') = P(persistentAllocs) + e.bytes
                             /\ V(persistentAllocs') = V(persistentAllocs) + 0
        /\ e.pinned = FALSE => /\ P(persistentAllocs') = P(persistentAllocs) + 0
                              /\ V(persistentAllocs') = V(persistentAllocs) + e.bytes
    BY <1>m, <1>t, <2>1, <2>3, <2>4
  <2>6. P(persistentAllocs) \in Int /\ V(persistentAllocs) \in Int
    BY <1>i, <1>t
  <2>7. /\ deviceBytes = V(persistentAllocs) % Modulus
        /\ pinnedBytes = P(persistentAllocs) % Modulus
    BY <1>1, <1>g
  <2>8. CASE pinned
    <3>1. /\ P(persistentAllocs') = P(persistentAllocs) + bytes
          /\ V(persistentAllocs') = V(persistentAllocs) + 0
      BY <2>1, <2>5, <2>8, Zenon
    <3>2. /\ deviceBytes' = (deviceBytes + 0) % Modulus
          /\ pinnedBytes' = (pinnedBytes + bytes) % Modulus
      BY <2>3, <2>8
    <3>3. P(persistentAllocs') \in Int /\ V(persistentAllocs') \in Int
      BY <2>2, <2>6, <3>1
    <3>4. deviceBytes' = V(persistentAllocs') % Modulus
      BY <1>t, <2>2, <2>6, <2>7, <3>1, <3>2, <3>3, TotalGrows
    <3>5. pinnedBytes' = P(persistentAllocs') % Modulus
      BY <1>t, <2>2, <2>6, <2>7, <3>1, <3>2, <3>3, TotalGrows
    <3> QED
      BY <1>h, <3>4, <3>5, Zenon
  <2>9. CASE ~pinned
    <3>1. /\ P(persistentAllocs') = P(persistentAllocs) + 0
          /\ V(persistentAllocs') = V(persistentAllocs) + bytes
      BY <2>1, <2>5, <2>9, Zenon
    <3>2. /\ deviceBytes' = (deviceBytes + bytes) % Modulus
          /\ pinnedBytes' = (pinnedBytes + 0) % Modulus
      BY <2>3, <2>9
    <3>3. P(persistentAllocs') \in Int /\ V(persistentAllocs') \in Int
      BY <2>2, <2>6, <3>1
    <3>4. deviceBytes' = V(persistentAllocs') % Modulus
      BY <1>t, <2>2, <2>6, <2>7, <3>1, <3>2, <3>3, TotalGrows
    <3>5. pinnedBytes' = P(persistentAllocs') % Modulus
      BY <1>t, <2>2, <2>6, <2>7, <3>1, <3>2, <3>3, TotalGrows
    <3> QED
      BY <1>h, <3>4, <3>5, Zenon
  <2> QED
    BY <2>8, <2>9
<1>2. ASSUME NEW p \in Ptrs, NEW pinned \in BOOLEAN, FreePersistent(p, pinned), alive
      PROVE  PersistentBytesExact'
  <2>1. PICK e \in persistentAllocs :
          /\ e.pinned = pinned
          /\ persistentAllocs' = persistentAllocs \ {e}
          /\ deviceBytes' = (deviceBytes - IF pinned THEN 0 ELSE e.bytes) % Modulus
          /\ pinnedBytes' = (pinnedBytes - IF pinned THEN e.bytes ELSE 0) % Modulus
    BY <1>2 DEF FreePersistent
  <2>2. e \in PersistentAllocInfo /\ e.bytes \in Int
    BY <1>t, PoolAssumption DEF PersistentAllocInfo, RequestSizes
  <2>3. /\ persistentAllocs = persistentAllocs' \cup {e} /\ e \notin persistentAllocs'
        /\ persistentAllocs' \in SUBSET PersistentAllocInfo
    BY <1>t, <2>1
  <2>4. /\ e.pinned = TRUE => /\ P(persistentAllocs) = P(persistentAllocs') + e.bytes
                             /\ V(persistentAllocs) = V(persistentAllocs') + 0
        /\ e.pinned = FALSE => /\ P(persistentAllocs) = P(persistentAllocs') + 0
                              /\ V(persistentAllocs) = V(persistentAllocs') + e.bytes
    <3>1. \A a, b \in persistentAllocs' \cup {e} : a.ptr = b.ptr => a = b
      BY <1>t, <2>3
    <3> QED
      BY <1>m, <2>2, <2>3, <3>1
  <2>6. /\ P(persistentAllocs) \in Int /\ V(persistentAllocs) \in Int
        /\ P(persistentAllocs') \in Int /\ V(persistentAllocs') \in Int
    BY <1>i, <1>t, <2>3
  <2>7. /\ deviceBytes = V(persistentAllocs) % Modulus
        /\ pinnedBytes = P(persistentAllocs) % Modulus
    BY <1>2, <1>g
  <2> DEFINE d == -e.bytes
  <2> HIDE DEF d
  <2>8. CASE pinned
    <3>1. /\ P(persistentAllocs') = P(persistentAllocs) + d
          /\ V(persistentAllocs') = V(persistentAllocs) + 0
      <4>1. e.pinned = TRUE
        BY <2>1, <2>8, Zenon
      <4>2. /\ P(persistentAllocs) = P(persistentAllocs') + e.bytes
            /\ V(persistentAllocs) = V(persistentAllocs') + 0
        BY <2>4, <4>1, Zenon
      <4> QED
        BY <2>2, <2>6, <4>2 DEF d
    <3>2. /\ deviceBytes' = (deviceBytes + 0) % Modulus
          /\ pinnedBytes' = (pinnedBytes + d) % Modulus
      BY <1>t, <2>1, <2>2, <2>8 DEF d
    <3>3. d \in Int
      BY <2>2 DEF d
    <3>4. deviceBytes' = V(persistentAllocs') % Modulus
      BY <1>t, <2>6, <2>7, <3>1, <3>2, <3>3, TotalGrows
    <3>5. pinnedBytes' = P(persistentAllocs') % Modulus
      BY <1>t, <2>6, <2>7, <3>1, <3>2, <3>3, TotalGrows
    <3> QED
      BY <1>h, <3>4, <3>5, Zenon
  <2>9. CASE ~pinned
    <3>1. /\ P(persistentAllocs') = P(persistentAllocs) + 0
          /\ V(persistentAllocs') = V(persistentAllocs) + d
      <4>1. e.pinned = FALSE
        BY <2>1, <2>9, Zenon
      <4>2. /\ P(persistentAllocs) = P(persistentAllocs') + 0
            /\ V(persistentAllocs) = V(persistentAllocs') + e.bytes
        BY <2>4, <4>1, Zenon
      <4> QED
        BY <2>2, <2>6, <4>2 DEF d
    <3>2. /\ deviceBytes' = (deviceBytes + d) % Modulus
          /\ pinnedBytes' = (pinnedBytes + 0) % Modulus
      BY <1>t, <2>1, <2>2, <2>9 DEF d
    <3>3. d \in Int
      BY <2>2 DEF d
    <3>4. deviceBytes' = V(persistentAllocs') % Modulus
      BY <1>t, <2>6, <2>7, <3>1, <3>2, <3>3, TotalGrows
    <3>5. pinnedBytes' = P(persistentAllocs') % Modulus
      BY <1>t, <2>6, <2>7, <3>1, <3>2, <3>3, TotalGrows
    <3> QED
      BY <1>h, <3>4, <3>5, Zenon
  <2> QED
    BY <2>8, <2>9
<1>3. CASE \/ \E p \in Ptrs, size \in RequestSizes, persistent \in BOOLEAN :
                Allocate(p, size, persistent)
           \/ \E p \in Ptrs : Free(p)
           \/ ResetPool
           \/ \E bytes \in Thresholds : SetReleaseThreshold(bytes)
           \/ UNCHANGED poolVars
  <2>1. UNCHANGED <<persistentAllocs, deviceBytes, pinnedBytes, alive>>
    BY <1>3, Zenon DEF Allocate, Free, ResetPool, SetReleaseThreshold, poolVars, persistentVars
  <2> QED
    BY <1>g, <1>h, <2>1
<1>4. CASE Destroy
  BY <1>4, <1>h DEF Destroy
<1> QED
  BY <1>1, <1>2, <1>3, <1>4, <1>a, Zenon DEF PoolNext

\* The two scratch totals the pool reports are the sums over the live entries
\* of their kind, whatever mix of device and pinned requests and frees ran.
THEOREM PersistentBytesCorrect == PoolSpec => []PersistentBytesExact
<1> DEFINE I == TypeOK /\ TrackedExactly /\ PersistentBytesExact
<1>1. PoolInit => I
  <2>1. PoolInit => PersistentBytesExact
    <3> SUFFICES ASSUME PoolInit PROVE PersistentBytesExact
      OBVIOUS
    <3>1. DOMAIN KindBytes(TRUE) = {} /\ DOMAIN KindBytes(FALSE) = {}
      BY DEF PoolInit, KindBytes
    <3>2. Bytes(KindBytes(TRUE)) = 0 /\ Bytes(KindBytes(FALSE)) = 0
      BY <3>1, BytesEmpty
    <3>3. 0 % Modulus = 0
      BY PoolAssumption
    <3> QED
      BY <3>2, <3>3 DEF PoolInit, PersistentBytesExact
  <2> QED
    BY <2>1, TypeInit, TrackedInit
<1>2. I /\ [PoolNext]_poolVars => I'
  BY TypeNext, TrackedNext, PersistentNext
<1> QED
  BY <1>1, <1>2, PTL DEF PoolSpec
=============================================================================
