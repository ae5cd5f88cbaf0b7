----------------------------- MODULE MemoryPool -----------------------------
(***************************************************************************)
(* fz::MemoryPool (include/mem/mempool.h, src/mem/mempool.cpp): the        *)
(* book-keeping over the stream-ordered device allocator.  Stream-ordered  *)
(* allocations are kept in two maps, allocations_ and graph_allocations_   *)
(* (those requested with persistent = true, which reset() must not free);  *)
(* stage scratch obtained with cudaMalloc / cudaMallocHost is kept in      *)
(* persistent_allocs_.                                                     *)
(*                                                                         *)
(* `held' is the allocator's own record of the addresses it has handed     *)
(* out (external: the CUDA runtime); the maps are the pool's belief.       *)
(***************************************************************************)
EXTENDS Integers, FiniteSets, Functions, FiniteSetsExt

CONSTANTS
    Ptrs,         \* addresses the runtime can return (device and pinned host)
    MaxSize,      \* largest request, in abstract bytes
    Modulus,      \* 2^w: size_t arithmetic wraps here
    Thresholds,   \* arguments of setReleaseThreshold (the last one may be Never)
    Never,        \* the SIZE_MAX sentinel "never trim"
    DefaultSize,  \* the 1 GiB a configured size of zero stands for
    MaxAllocs     \* bound on total_allocations_ (unbounded in the code)

ASSUME PoolAssumption ==
    /\ IsFiniteSet(Ptrs)
    /\ MaxSize \in Nat \ {0}
    /\ Modulus \in Nat /\ Modulus > MaxSize
    /\ MaxAllocs \in Nat
    /\ Thresholds \ {Never} \subseteq Nat
    /\ DefaultSize \in Nat

VARIABLES
    allocations,        \* allocations_       : partial function ptr -> bytes
    graphAllocations,   \* graph_allocations_ : partial function ptr -> bytes
    persistentAllocs,   \* persistent_allocs_ : set of [ptr, bytes, pinned]
    deviceBytes,        \* persistent_device_bytes_
    pinnedBytes,        \* persistent_pinned_bytes_
    current,            \* current_allocated_bytes_ (size_t)
    totalAllocations,   \* total_allocations_
    totalFrees,         \* total_frees_
    poolSize,           \* config_.getPoolSize()
    overflowWarned,     \* overflow_warned_
    alive,              \* FALSE once the destructor has run
    held,               \* external: addresses the runtime considers live
    resetOverGraph      \* history: some reset() ran with a graph allocation live

poolVars == <<allocations, graphAllocations, persistentAllocs, deviceBytes,
          pinnedBytes, current, totalAllocations, totalFrees, poolSize,
          overflowWarned, alive, held, resetOverGraph>>

RequestSizes == 1..MaxSize

\* Values of a size_t.
SizeT == 0..(Modulus - 1)

\* AllocationInfo maps as partial functions.
SizeMap == UNION {[S -> RequestSizes] : S \in SUBSET Ptrs}

PersistentAllocInfo == [ptr : Ptrs, bytes : RequestSizes, pinned : BOOLEAN]

TypeOK ==
    /\ allocations \in SizeMap
    /\ graphAllocations \in SizeMap
    /\ persistentAllocs \subseteq PersistentAllocInfo
    /\ deviceBytes \in SizeT /\ pinnedBytes \in SizeT /\ current \in SizeT
    /\ totalAllocations \in Nat /\ totalFrees \in Nat
    /\ poolSize \in Nat
    /\ overflowWarned \in BOOLEAN /\ alive \in BOOLEAN
    /\ held \subseteq Ptrs
    /\ resetOverGraph \in BOOLEAN

(***************************************************************************)
(* The pool's view of an address.                                          *)
(***************************************************************************)
StreamTracked == DOMAIN allocations
GraphTracked == DOMAIN graphAllocations
PersistentTracked == {a.ptr : a \in persistentAllocs}
Tracked == StreamTracked \cup GraphTracked \cup PersistentTracked

Bytes(m) == MapThenSumSet(LAMBDA p : m[p], DOMAIN m)

\* m with an entry for p.
WithEntry(m, p, size) ==
    [q \in DOMAIN m \cup {p} |-> IF q = p THEN size ELSE m[q]]

\* getPoolSize() of a configuration with this input size.
GetPoolSize(bytes) == IF bytes = 0 THEN DefaultSize ELSE bytes

\* cudaMallocFromPoolAsync / cudaMalloc / cudaMallocHost: any address that is
\* not live, or no address when the runtime is out of memory.
Fresh == Ptrs \ held

-----------------------------------------------------------------------------
PoolInit ==
    /\ allocations = <<>> /\ graphAllocations = <<>>
    /\ persistentAllocs = {}
    /\ deviceBytes = 0 /\ pinnedBytes = 0
    /\ current = 0
    /\ totalAllocations = 0 /\ totalFrees = 0
    /\ poolSize \in {GetPoolSize(bytes) : bytes \in Thresholds \ {Never}}
    /\ overflowWarned = FALSE
    /\ alive = TRUE
    /\ held = {}
    /\ resetOverGraph = FALSE

persistentVars == <<persistentAllocs, deviceBytes, pinnedBytes>>

\* The warn-once check at the end of allocate().
NoteOverflow(bytes) == overflowWarned' = (overflowWarned \/ bytes > poolSize)

\* allocate(size, stream, tag, persistent) when the runtime grants the
\* request.  A zero size, or a refused request, returns nullptr and changes
\* nothing, so those two outcomes are stuttering steps.
Allocate(p, size, persistent) ==
    /\ totalAllocations < MaxAllocs
    /\ p \in Fresh
    /\ held' = held \cup {p}
    /\ IF persistent
         THEN /\ graphAllocations' = WithEntry(graphAllocations, p, size)
              /\ UNCHANGED allocations
         ELSE /\ allocations' = WithEntry(allocations, p, size)
              /\ UNCHANGED graphAllocations
    /\ totalAllocations' = totalAllocations + 1
    /\ current' = (current + size) % Modulus
    /\ NoteOverflow(current')
    /\ UNCHANGED <<persistentVars, totalFrees, poolSize, alive,
                   resetOverGraph>>

\* free(ptr, stream) on an address of allocations_, which is looked up first.
FreeStream(p) ==
    /\ p \in StreamTracked
    /\ current' = (current - allocations[p]) % Modulus
    /\ allocations' = Restrict(allocations, StreamTracked \ {p})
    /\ UNCHANGED graphAllocations

\* Mutant of FreeGraph: the running total is not reduced.
FreeGraphUncounted(p) ==
    /\ p \notin StreamTracked
    /\ p \in GraphTracked
    /\ graphAllocations' = Restrict(graphAllocations, GraphTracked \ {p})
    /\ UNCHANGED <<allocations, current>>

\* free(ptr, stream) on an address found only in graph_allocations_.
FreeGraph(p) ==
    /\ p \notin StreamTracked
    /\ p \in GraphTracked
    /\ current' = (current - graphAllocations[p]) % Modulus
    /\ graphAllocations' = Restrict(graphAllocations, GraphTracked \ {p})
    /\ UNCHANGED allocations

\* free(): an address in neither map (nullptr included) only logs a warning,
\* a stuttering step.
Free(p) ==
    /\ FreeStream(p) \/ FreeGraph(p)
    /\ held' = held \ {p}
    /\ totalFrees' = totalFrees + 1
    /\ UNCHANGED <<persistentVars, totalAllocations, poolSize, overflowWarned,
                   alive, resetOverGraph>>

\* allocatePersistentDevice / allocatePersistentPinned.
AllocatePersistent(p, bytes, pinned) ==
    /\ p \in Fresh
    /\ held' = held \cup {p}
    /\ persistentAllocs' = persistentAllocs
                             \cup {[ptr |-> p, bytes |-> bytes, pinned |-> pinned]}
    /\ deviceBytes' = (deviceBytes + IF pinned THEN 0 ELSE bytes) % Modulus
    /\ pinnedBytes' = (pinnedBytes + IF pinned THEN bytes ELSE 0) % Modulus
    /\ UNCHANGED <<allocations, graphAllocations, current, totalAllocations,
                   totalFrees, poolSize, overflowWarned, alive, resetOverGraph>>

\* Mutant of FreePersistent: the entry is found by address alone.
FreePersistentAnyKind(p, pinned) ==
    \E a \in persistentAllocs :
        /\ a.ptr = p
        /\ persistentAllocs' = persistentAllocs \ {a}
        /\ deviceBytes' = (deviceBytes - IF pinned THEN 0 ELSE a.bytes) % Modulus
        /\ pinnedBytes' = (pinnedBytes - IF pinned THEN a.bytes ELSE 0) % Modulus
        /\ held' = held \ {p}
        /\ UNCHANGED <<allocations, graphAllocations, current, totalAllocations,
                       totalFrees, poolSize, overflowWarned, alive, resetOverGraph>>

\* freePersistentDevice / freePersistentPinned: only an entry of the right
\* kind matches; anything else logs a warning and returns.
FreePersistent(p, pinned) ==
    \E a \in persistentAllocs :
        /\ a.ptr = p /\ a.pinned = pinned
        /\ persistentAllocs' = persistentAllocs \ {a}
        /\ deviceBytes' = (deviceBytes - IF pinned THEN 0 ELSE a.bytes) % Modulus
        /\ pinnedBytes' = (pinnedBytes - IF pinned THEN a.bytes ELSE 0) % Modulus
        /\ held' = held \ {p}
        /\ UNCHANGED <<allocations, graphAllocations, current, totalAllocations,
                       totalFrees, poolSize, overflowWarned, alive, resetOverGraph>>

\* Mutant of ResetPool: the graph table is cleared too, its memory is not freed.
ResetPoolForgetsGraph ==
    /\ held' = held \ StreamTracked
    /\ allocations' = <<>> /\ graphAllocations' = <<>>
    /\ totalFrees' = totalFrees + Cardinality(StreamTracked)
    /\ current' = 0
    /\ overflowWarned' = FALSE
    /\ UNCHANGED <<persistentVars, totalAllocations, poolSize, alive,
                   resetOverGraph>>

\* reset(): frees allocations_ only, then zeroes the running total and the
\* warn-once flag.  (The subtractions in the loop are overwritten by 0.)
ResetPool ==
    /\ held' = held \ StreamTracked
    /\ allocations' = <<>>
    /\ totalFrees' = totalFrees + Cardinality(StreamTracked)
    /\ current' = 0
    /\ overflowWarned' = FALSE
    /\ resetOverGraph' = (resetOverGraph \/ GraphTracked # {})
    /\ UNCHANGED <<graphAllocations, persistentVars, totalAllocations, poolSize,
                   alive>>

\* setReleaseThreshold(bytes): the sentinel leaves the configuration alone.
\* In fallback mode the call returns at once (a stuttering step).
SetReleaseThreshold(bytes) ==
    /\ bytes # Never
    /\ poolSize' = GetPoolSize(bytes)
    /\ overflowWarned' = FALSE
    /\ UNCHANGED <<allocations, graphAllocations, persistentVars, current,
                   totalAllocations, totalFrees, alive, held, resetOverGraph>>

\* ~MemoryPool(): every address of the three tables goes back to the runtime.
Destroy ==
    /\ held' = held \ Tracked
    /\ allocations' = <<>> /\ graphAllocations' = <<>>
    /\ persistentAllocs' = {}
    /\ alive' = FALSE
    /\ UNCHANGED <<deviceBytes, pinnedBytes, current, totalAllocations,
                   totalFrees, poolSize, overflowWarned, resetOverGraph>>

PoolNext ==
    /\ alive
    /\ \/ \E p \in Ptrs, size \in RequestSizes, persistent \in BOOLEAN :
             Allocate(p, size, persistent)
       \/ \E p \in Ptrs : Free(p)
       \/ \E p \in Ptrs, bytes \in RequestSizes, pinned \in BOOLEAN :
             AllocatePersistent(p, bytes, pinned)
       \/ \E p \in Ptrs, pinned \in BOOLEAN : FreePersistent(p, pinned)
       \/ ResetPool
       \/ \E bytes \in Thresholds : SetReleaseThreshold(bytes)
       \/ Destroy

PoolSpec == PoolInit /\ [][PoolNext]_poolVars

-----------------------------------------------------------------------------
\* What the runtime holds for this pool and what the pool tracks are the same
\* addresses, and no address is in two tables: no allocation is lost (a leak
\* makes cudaMemPoolDestroy hang, mempool.cpp:54-56), and free(), reset() and
\* the destructor never return an address twice.
TrackedExactly ==
    /\ held = Tracked
    /\ StreamTracked \cap GraphTracked = {}
    /\ (StreamTracked \cup GraphTracked) \cap PersistentTracked = {}
    /\ \A a, b \in persistentAllocs : a.ptr = b.ptr => a = b

\* The bytes of every persistent allocation of one kind.
KindBytes(pinned) ==
    [a \in {b \in persistentAllocs : b.pinned = pinned} |-> a.bytes]

\* getPersistentDeviceBytes() and getPersistentPinnedBytes() report exactly
\* the live scratch of their kind (in size_t arithmetic) while the pool is
\* alive: a free of the wrong kind, or of an address the pool does not know,
\* never moves bytes out of either total.
PersistentBytesExact ==
    alive => /\ deviceBytes = Bytes(KindBytes(FALSE)) % Modulus
             /\ pinnedBytes = Bytes(KindBytes(TRUE)) % Modulus

\* The running total is exact (in size_t arithmetic) as long as no reset() ran
\* while a graph allocation was live: frees by last consumer, by growth and by
\* reset() in any order subtract exactly what their allocate() added.
UsageExact ==
    alive /\ ~resetOverGraph =>
      current = (Bytes(allocations) + Bytes(graphAllocations)) % Modulus
=============================================================================
