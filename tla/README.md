# FZModules: TLA+ models, checks and proofs

FZModules composes GPU compressors from stages. A `Pipeline` wires stages into
a `CompressionDAG`, plans it (levels, streams, fused groups, buffer colouring)
and then runs `compress()` / `decompress()` any number of times: one host thread
enqueues kernels on several CUDA streams and the device runs the streams
concurrently. Inside a stage, thread blocks, warps and lanes divide an array
among themselves and agree on offsets, slots and block layouts.

The modules here follow both levels: what happens around the stages (which stage
may run when, who may touch which memory when, what a call leaves to the next
one, how an archive finds its way back to the input), and what the stages do with
the data (layouts, scans, codes, refusals, and the buffers they write to).

Paths below are relative to the repository root.

## 1. Inventory

| Component | State it keeps | Operations | Modelled in |
|---|---|---|---|
| `MemoryPool` (`src/mem`, `include/mem`) | three tables of allocations, byte counters, overflow flag, pool size | `allocate`, `free`, `allocatePersistent*`, `freePersistent*`, `reset`, `setReleaseThreshold`, destructor | `MemoryPool` |
| `CompressionDAG` planning (`dag.cpp`, `dag_query.cpp`) | nodes, buffers, edges, levels, streams | construction calls, `finalize`, `assignLevels`, `assignStreams` | `Dag` |
| Buffer colouring (`dag_coloring.cpp`) | colour of each buffer, region sizes | `colorBuffers`, `preallocateBuffers` | `Dag`, `DagExec` |
| Fusion planner (`fusion_planner.cpp`, `compressor.cpp`) | installed groups | `planFusionGroups`, `planAndInstallFusion`, `setFusedGroups` | `FusionPlanner` |
| `CompressionDAG` execution (`dag.cpp`) | `is_executed`, `remaining_consumers`, `is_allocated`, completion events | `execute`, `executeFusedNode`, `reset`, `allocateBuffer`, `freeBuffer` | `DagExec` |
| Pipeline calls (`compressor*.cpp`) | sizes, metadata, flags, captured graph, inverse-DAG cache, pad and output buffers | `finalize`, `warmup`, `captureGraph`, `compress`, `decompress*`, `prepareInverse`, `primeInverseFromHeader`, `writeToFile`, `decompressFromFile`, `reset` | `Lifecycle` (state), `DagExec` (order of work) |
| Archive and inverse DAG (`compressor_io.cpp`, `compressor_inverse_dag.cpp`, `fzm_format.h`) | layout of segments, file header, inverse topology | `writeConcatBuffer`, `buildHeader`, `readHeader`, `reconstructForwardTopology`, `buildInverseDAG` | `InverseDag` |
| LC coders (RRE, RZE, RARE, RAZE, CLOG, HCLOG) | scratch, chunk sizes | `execute`, `postStreamSync`, inverse | `LcChunk`, `LcStage` |
| ADM transform | scan slots, signals | map kernels, look-back, concat, inverse | `Adm`, `AdmScan` |
| Quantizer | outlier list and counter | kernels, header, inverse; the stage around them | `Quantizer`, `QuantStage` |
| Warp fusion (`fused_block`) | look-back state | single-pass look-back | `LookBack` |
| Chunk-cooperative fusion (`chunk_fusion`) | chunk scratch, side outputs | fused encode, pack, fused inverse | `ChunkFusion` |
| RLE, bit packing, adaptive bit packing, Golomb-Rice, Huffman, GPULZ, SZx | sizes, books, scratch, header fields | `execute`, `postStreamSync`, header, inverse, estimates | `Rle`, `Bitpack`, `AdaptiveBitpack`, `GolombRice`, `Huffman`, `Gpulz`, `Szx` |
| Zigzag, negabinary, difference; bit shuffle; logarithm | element counts, outlier counter | the same | `Recode`, `Bitshuffle`, `LogTransform` |
| Lorenzo family, interpolation | outliers, modes, means, anchors | the same | `Lorenzo`, `TiledLorenzo`, `LorenzoQuant`, `AdaptiveLorenzo`, `Ginterp` |
| TUPL, Merge, ROIBinSplit | segment sizes, peaks | the same | `Structural` |
| Configuration, CLI, logging, statistics, backend shims, stage registry | little | parsing, reporting | no, see section 6 |

How they interact. `Pipeline` owns one pool, one forward DAG and a cached
inverse DAG. The DAG asks the pool for memory (at planning time under
PREALLOCATE, during `execute()` under MINIMAL) and frees it on a stream.
`execute()` communicates with the device only through streams and events; the
host thread learns of completion by `cudaStreamSynchronize` on the caller's
stream, and the barrier at the end of `execute()` is what makes that
synchronization cover the internal streams. There is one host thread and no
callback: concurrency is between streams, between streams and host, and between
the thread blocks of a kernel. A stage object is used for every call and, through
its inverse mode, for decoding; what it caches from a call is what the decoder,
or the header the decoder is rebuilt from, relies on.

Hard behaviours, and the properties that make each component correct:

- *MemoryPool*: an address is in exactly one table and returned to the runtime
  once; the `size_t` counters must not wrap. Long mixes of calls reach the corners.
- *Planning*: the cycle check counts edges, not neighbours; levels are computed
  in insertion order; streams are assigned modulo a count. A plan must be
  topological, use existing streams, and terminate.
- *Fusion*: kernels, colouring and executor assume that a group is a chain.
- *Colouring*: two buffers that share a region are never live together, in
  levels (`ColoringSound`) and in time on the device (`InputsIntact`).
- *Execution*: a stage starts after its producers of the same call, reads data
  that is complete and not overwritten, touches mapped memory only, and a
  returned call has delivered its outputs, leaked nothing under MINIMAL and left
  exact reference counts, also after an exception in the middle.
- *Calls*: no field that survives a call may describe another call's data, in any
  order of calls and failures.
- *Archives*: writer and reader compute offsets, ids and topology independently.
- *Kernels*: a scan with look-back must count each predecessor once and end; slots
  claimed by atomics may come in any order.
- *Codecs*: what is decoded is the input of that call within the bound, whatever
  an earlier call left in the object; no direction writes past its own estimate.

The full list of hazards, each at its line, is under `hazards` in
`PROJECT.json`.

## 2. Modules and how they correspond to the code

`PROJECT.json` maps every definition to the lines it translates; a helper that stands for
part of a function is mapped to the lines of that function. Modules named `...Proofs` and
`SumLemmas` hold theorems, about the modules they extend, and are described in section 4.

### `MemoryPool`
State: `allocations`, `graphAllocations` (partial functions address -> bytes),
`persistentAllocs`, the counters (arithmetic modulo `Modulus`, the width of
`size_t`), `poolSize`, `overflowWarned`. `held` is the CUDA runtime's own record
(external): the tables are the pool's belief, and `TrackedExactly` compares the
two. `resetOverGraph` is a history variable. One action per
public operation; `Free(p)` tries the tables in the code's order, an unknown
address changes nothing (a warning in the code). A failing allocation is an
operation that changes nothing. The fallback mode without a stream-ordered pool
does the same book-keeping. The overflow warning is only a flag here: it is cleared
by `setReleaseThreshold()` too, not "once per reset() cycle" as `mempool.h:240-241`
has it, and nothing but a log line depends on it.
Note that `MemoryPool::reset()` is public API used by the tests; the pipeline
itself does not call it.

### `Dag`
A *wiring* `g` is what the construction calls leave behind: nodes in insertion
order, buffers with producer and consumers, persistent buffers, sizes, and at
most one fused group. `finalize()` and `colorBuffers()` are modelled loop
iteration by loop iteration: `KahnVisit`/`KahnDone`, `AssignLevel`/`LevelsDone`,
`AssignStreams`, `ColorBuffer`, `ColoringGuard`. Iteration over hash maps and
ties in `std::sort` are nondeterministic choices, so what is checked does not
depend on the order the library happens to use. `configured = 0` stands for
`configureStreams()` never called, and then a plan of parallelism 1 runs on the
caller's stream (`streamOf = 0`). The early return of `colorBuffers()` for a
fused group with several streams is in `AssignStreams`' choice of the next phase. A fused
group may come with every memory strategy, as in the code: forward
`planAndInstallFusion()` does not look at it.

### `DagExec`
Extends `Dag`: once the plan is `ready`, the host may make calls. Host actions:
`BeginCall` (everything up to `execute()`), `Dispatch`, `DispatchFusedHead`,
`DispatchFusedMember` (one turn of `execute()`'s loop), `ThrowStage`,
`ThrowFused`, `ThrowResult` (exceptions, with the handler of `compress()` as part
of the step), `JoinStreams` (the barrier), `ReturnCompressed`,
`ReturnDecompressed`, `ResetPipeline`. Each appends operations to per-stream
logs. Device actions: `StartOp(s)` and `FinishOp(s)`. An operation carries the
event instances it waits for (an event is re-recorded in every call, and a wait
refers to the last recording made before it), what it maps, reads, writes,
signals and unmaps. `content[b]` is the call whose complete data the memory of
`b` holds; starting a write makes it 0, for every buffer that shares the memory
too. `caller` says how the application uses the pipeline: the entry point, whether
its input goes through the pad buffer (`staged`), and its stream. `"default"` is
the legacy default stream, which orders itself with the (blocking) streams of
`cudaStreamCreate`; `"created"` is a stream the caller made, unordered with the
others. `FusionPreallocated` names what `docs/performance_tuning.md:106,214` asks of an
application and no code checks: under MINIMAL nobody allocates the buffers a fused
kernel writes, and `MemoryMapped` fails on the first fused chain. The runs and the theorems on
memory assume it. An input that is not staged belongs to the caller (`CallerOwned`), who
leaves it alone until the call is done.

Abstractions to know of: buffer sizes are fixed, so growth of a buffer and
zero-size buffers do not happen; a stage that synchronizes its stream inside
`execute()` would only narrow the windows found; the result buffer of
`decompress()` is external in the code (`setExternalPointer`) and a persistent
output here; the live-DAG path of `decompress()` (no blob) is not
distinguished from the blob path with one segment; the argument checks that
throw before anything is enqueued are left out, and the one that throws after
the reset (`compressor_exec.cpp:84`) leaves what `ResetPipeline` leaves.

### `FusionPlanner`
Extends `InverseDag`. `linearFusableEdge`, `extendFusionGeometry` (split in the
test `FusionCompatible` and the new geometry), the walk `GroupFrom`, the heads and
the weighted choice of spans are operators with the code's names; the action
`planAndInstallFusion` plans a finalized wiring for every assignment of
`FusionSpec`s and every registry, a set of spans with kernels (`FusionPolicy` and
`auto_enabled` only change that set). What it installs is compared with what `Dag`
and `DagExec` assume of a group. One thing the checks do not forbid: a stage behind
a linear edge never starts a chain, even where the walk of its predecessor stopped
at another block size, although `fusion_planner.cpp:90-92` says it "will be picked
up when its predecessor's chain is walked"; the later part of such a chain is run
stage by stage.

### `InverseDag`
Extends `Dag` with ordered ports. The contents of a forward buffer are its name.
Actions: `CompressPlanned` (layout of the outputs), `OpenLive` and `OpenFile` (what
the reader is told: the live topology, or what fits into the file header, with or
without the flag for the primary source; `StoreFrom` is what is found in the slots),
`BuildInverse` (`buildInverseDAG`,
including the spans of inverse stages that run fused), `RunInverse`. A
stage's inverse restores the inputs only from exactly the stage's outputs in the
order of ports; anything else gives `Garbage`. `InverseRestores` asks of a file that no
stage has more outputs than an entry has room for (eight in the code, and no stage
declares as many): the writer drops the others without a word. Whether an archive may be refused is
`DecodableWhenItFits`.

### `Lifecycle`
One action per public call with everything it does to the fields of `Pipeline`,
and a failing variant where CUDA or a stage can throw, at each point that leaves a
different state. A blob is represented by the number of the call that made it, so
a property can say whose data a field describes. `attempted` is a history variable,
the last `compress()` begun, completed or not. `CompressRejects` throws before the
handler is armed: the input is too large, the pad buffer cannot grow (its predecessor
is gone by then, `compressor.h:813-819`), or the copy into the pad buffer or the graph's
slot fails. Files are decoded whatever metadata they were written from. The overload
of `compress()` for a caller's buffer adds a copy, and throws after a `compress()` that
has succeeded: its state is that of `CompressReturns`. A broken capture leaves capture
mode on, and `prepareInverse()` leaves the size of an earlier padded input, which cuts the
next decode of a larger blob (against `compressor.h:505-514`); both are in the state and are
listed as hazards, without a property. Which stages "learn" from the data
(outlier counts, code lengths) and whether the pipeline pads, captures or warms up
are configurations.

### `ExclusiveScan`, `LookBack`, `AdmScan`
`ExclusiveScan` is the abstract specification: in every launch each item learns
once the sum of the lengths of the items before it, and the next launch starts when
all of them know it. `LookBack` (warp fusion, a window of lanes polling independently)
and `AdmScan` (ADM, one predecessor at a time, two writers per slot) are the two
decoupled look-back kernels, one step per store, and are shown to implement it
(`LookBackIsScan`, `AdmScanIsScan`). Arrays keep the values of the launch before;
only what the host clears is cleared. At most `Residency` blocks are resident, and
the hardware starts them in index order. That order is an assumption about the device:
the comment at `warp_fusion.cuh:650-652` speaks of an atomic counter that would
establish it, the kernel (713-725) takes `blockIdx`; ADM does the same.

### `Quantizer`, `QuantStage`
`Quantizer`: one thread per element encodes or claims an outlier slot; the host
reads the counter after synchronization, accepts or refuses, and the inverse
scatters. `QuantStage`: how a bound is resolved (ABS, NOA, PREL, power of two, high
precision), the linear mode and the point-wise relative mode. The radius is taken to fit
the code type: `setQuantRadius()` (`quantizer.h:478`) accepts any value, only the
documentation limits it (`docs/stages/quantizer.md:232`, `lorenzo_quant.md:49`).

### `LcChunk`, `LcStage`, `Adm`
The LC chunk coders word by word with their prefix sums and bitmap levels; the six
stages with scratch slots, scan, header, padding and the walk of the inverse. `Adm`:
both widths and both paths.

### `StageBase` and the codec modules
`StageBase` holds what all stages share: a stage object of configuration `stConf`
with the fields that survive a call (`stMem`) executes an input, learns its size at
once or after synchronization, and decodes, as the same object or as one rebuilt
from the header; `stEstimate` and `stOutEstimate` are what its own estimates
allocated. An archive maps section starts to contents, so two sections written to
one place, or read where nothing was written, show up. Every codec module adds the
actions of one stage (forward, synchronization, refusal, inverse); its header
comment lists its configuration. `AdaptiveLorenzo` also covers the fused
`quant_adaptive_lorenzo` stage, `Recode` the zigzag, negabinary and difference
stages. `ChunkFusion` composes `Recode`, `Bitshuffle`, `GolombRice` and the LC chunk
coders the way the fused kernel does, and decodes an archive both with the fused
inverse (`runChunkCooperativeInverse`) and stage by stage (`ChunkStagedInverse`).

Abstractions of the codecs. Values are integers and the arithmetic is exact: what
floating-point rounding adds is not modelled, except where the code reserves for it
(`QuantStage`, high precision). Word widths, lanes, warps, blocks, tiles and chunks
are scaled down together and are fields of the configuration, so that the branches
on them are taken on inputs of about ten to fifty elements. Bits are sets or
sequences; bytes are abstract numbers of `FuseByte`/`Fan`/`ByteBits` bits. The order
in which threads claim slots is a choice; where all orders would be too many, two
extreme ones are taken and the module says so.

### `MCPipeline`, `MCDag`, `MCDagExec`, `MCLifecycle`, `MCStages`, `MCCodecs`
Instances. `MCDag` joins four families of wirings, `MCDagExec` picks graphs and callers,
`MCCodecs` lists configurations and inputs of the codec stages. `MCPipeline` runs one
`component` per behaviour (pool, plan, execution or lifecycle), `MCStages` one `part`
(a kernel, or one codec stage); the variables of the others keep an initial value.

## 3. Runs

| Run | Instance | Shows |
|---|---|---|
| `pipeline`, pool | 3 addresses, sizes 1..2, 4 allocations, modulus 16, default size 3 | tracking, byte counters, exact usage while no reset ran over a graph allocation |
| `pipeline`, plan | all 4096 wirings of 3 nodes and 4 buffers, cyclic ones and double edges included; all in-order wirings of 4 nodes and 5 buffers, with fused groups, automatic or 2 streams, colouring on or off; all wirings of 3 nodes with ordered ports, bindings, primary sources and fused inverse spans; 9 wirings of 4 nodes with every mix of 6 (or 3) access patterns and every set of kernels | `finalize()` ends and rejects exactly the cycles; levels, streams and colours are sound; every archive decodes to the input of its primary source or is refused for lack of room; installed groups are sound and best |
| `pipeline`, exec | chains with side outputs and fused groups, coloured, on a caller-created stream; forking, joining and two-source graphs on automatic or 2 streams; both strategies, three entry points, 2 calls, 1 exception | stages start after their producers of the same call, inputs intact, memory mapped, outputs delivered, nothing leaked, counts exact |
| `pipeline`, lifecycle | 4 pipelines (padding, hint, graph mode, warm-up, refused configuration), inputs of 2, 3 and 4 bytes with alignment 2, 4 calls, 1 fault | metadata, sizes, caches and files describe the data they are used with; without a replay a blob comes back with the size it was given |
| `plan_out_of_order` (violation) | the first family of wirings | a consumer added before its producer gets a level not above it |
| `exec_alias` (violation) | fork with a longer first branch, colouring | the guard compares producers only; a stage overwrites what another stream reads |
| `exec_shared_free` (violation) | one buffer, two consumers, MINIMAL | freed on one consumer's stream while the other reads |
| `lifecycle_capacity` (violation) | padding without a hint | the documented way to size an output buffer is refused |
| `lifecycle_replay` (violation) | graph mode with a slot of 3 bytes, nothing to pad | a shorter, aligned input comes back with the size of the slot |
| `stages` | look-back: 5 blocks in 3 tiles, window 2, 2 resident, 2 launches; ADM scan: 4 blocks of 2 warps, 3 resident, 2 calls; quantizer: 3 elements, 2 calls; six LC coders with chunks of 16, 32 and 64 bytes in words of 1 and 2, and of 64 and 256 in words of 4, 2 calls; ADM u16 on both paths; every codec configuration of `MCCodecs`, any two inputs of its kind in turn | the scans implement `ExclusiveScan` and end; the bound is kept or the call refused; round trips; sizes within estimates |
| `adm_u32` (violation) | ADM u32 | accepted inputs are not restored |
| `lc_levels` (violation) | LC coders on a chunk whose last bitmap level has no byte (4096 bytes in words of 2 or 4, 8192 in words of 4, in the code) | other words are decoded than were coded |
| `underestimate` (violation) | Golomb-Rice rebuilt from its header | its estimate is no upper bound |
| `huffman_underestimate` (violation) | host Huffman, a shorter call after a longer one | partitions of the longer call are packed again, past the estimate |
| `szx_empty` (violation) | SZx, an empty call after one of 48 elements | the size of the earlier call is reported, more than was estimated |

Why the bounds suffice. Two calls are needed and enough for what one call can
leave to the next (counts, events, buffers, scratch, cached fields), because the
next call starts from a state that depends on the previous one only through these;
the lifecycle takes four because setting up a stale field takes up to three. One
exception at every possible place covers the error paths. Four stages give a fork
and a join, an alias between two levels, a chain with a fused group in the middle,
before it and over all of it, and overlapping spans where the longest first is not
best. Three addresses give one per table of the pool, and modulus 16 lets a
wrapped counter be told from a real one. A scan over three tiles or four blocks with
fewer of them resident has a block that looks past one that only published its
total, and one that waits for a block not started yet. The codec inputs were chosen
so that partial and full chunks, raw and coded ones, several warps, outliers within and
past the capacity, and empty inputs occur. The LC geometries (`Fan = 2`, 8 threads in
warps of 4) take every specialisation of the encoders and decoders but two; words of
`Fan` bytes have one bitmap level less, as words of eight bytes have in the code. The two are
`d_REdecodeXwordsperthread` and `d_ZEdecodeXwordsperthread`, which need a number of words
per thread other than 1, 2 and 4 in a chunk of at most `4 * TPB` bytes, and so cannot be
reached with chunks and words of a power of two.

The execution part starts in `ExecCase`, which leaves out fused groups without
PREALLOCATE (`FusionPreallocated`) and what is known to go wrong with several streams:
colouring (`exec_alias`), a MINIMAL buffer with two consumers (`exec_shared_free`), `compress()` on a caller-created stream with internal streams
(a source may read the pad buffer before the copy, and the next call may overwrite
outputs the gather still reads), and back-to-back `decompressInto()` of a
one-segment blob whose inverse DAG forks (no segment sizes are read back, so nothing
keeps the second call's first stage from overwriting what the first call still
reads). The last three are hidden when the caller passes the legacy default stream,
which orders itself with the internal streams.

Left out of the codec part of `stages`, for the same reason: the cases of `underestimate`,
`huffman_underestimate` (the symbol inputs are all of four partitions) and `szx_empty` (the
inputs give archives below the 64 bytes the estimate always grants); GPULZ in split mode
on an all-zero input (the four streams are then empty and the input is lost,
`gpulz_stage.cu:1242`); the negabinary stage on a size that is not a multiple of the word
(the tail is not copied, `negabinary_stage.cu:48-74`); bit
packing with a base above the minimum; a tiled Lorenzo stage without dimensions and
with a partial last tile. Of the LC geometries, those of `lc_levels`. In the run, as a
refusal that no property forbids: an empty input after a call with outliers makes the
fused Lorenzo quantizer, interpolation and logarithm stages throw, because the device
counter is not reset and `postStreamSync()` compares it with a capacity of 0.

Deadlock checking is off in the configurations because every model stops by
design: the pool after its destructor or its bound, a plan when it is ready or
rejected, a pipeline or stage after its last call. That a kernel cannot hang is
`KernelsEnd` and `AdmCallsEnd`; that a plan is finished is `FinalizeEnds`. Streams cannot
wait for each other for ever by construction: a wait names a recording already enqueued.

Fairness. `finalize()`: weak fairness, a thread that is never blocked and runs
sequential code. Kernels (`StagesFairness`): weak fairness of every resident warp or block,
and of starting the next one when there is room; nothing is assumed about blocks
that are not resident, which is what makes a spinning look-back dangerous. No
fairness makes a particular call, exception or input happen.

## 4. Proofs

Checked by TLAPS, for every value of the constants that satisfies the named
assumptions, i.e. for any number of stages, buffers, streams, blocks, warps,
elements, calls and exceptions. The assumptions, each in the module that declares the
constants and evaluated by TLC on the instances: `PoolAssumption`, `DagAssumption`,
`ExecAssumption`, `LifecycleAssumption` and `LookBackAssumption` (well-formed wirings
and configurations, natural bounds); `InverseDagAssumption` (`IsPorted`: what
`addRawStage`, `connect()` and `setupInputBuffers` leave behind, and that the stages
with an inverse kernel have one input, as the matchers of the registry require) and
`FusionAssumption` (the access patterns a stage may declare); `AdmAssumption` and
`BeforeAssumption` (`Before` is the running sum of the signal lengths); `AdmMapAssumption`
(values are naturals, the counter's range is the size of a u16 lane's buffer, and the
vectors read behind the input end in allocated memory, a lane's worth at most);
`QuantizerAssumption` (bounds are positive, the radius fits the code, which is up to the caller, and the raw bits
of an in-place outlier do not look like a zigzag code, which `quantizer.cu:139-141`
relies on). The type invariants are proved and,
being uninteresting on small instances, not listed as properties of runs.

| Module | Theorems |
|---|---|
| `MemoryPoolProofs` | `TypeCorrect`, `TrackingCorrect`, `UsageCorrect`, `PersistentBytesCorrect` |
| `DagProofs` | `PlanTypeCorrect`, `CycleCheckCorrect`, `LevelsCorrect`, `ColoringCorrect`, `ColoringComplete`, `StreamsDistinct` |
| `DagExecProofs` | `ExecTypeCorrect`, `DependenciesOrdered`, `RefCountsCorrect`, `OneStreamInputs`, `OneStreamMemory`, `OneStreamOutputs`, `OneStreamReleases` |
| `InverseProofs` | `DecodableCorrect`, `RestoresCorrect` |
| `FusionProofs` | `FusionSoundCorrect` |
| `LifecycleProofs` | `LifecycleInvariant`, `MetadataCorrect`, `EagerRoundTripSizeCorrect`, `RoundTripRightCorrect`, `ArchivesCorrect` |
| `KernelProofs` | `AdmInvariant`, `SlotsOnlyAdvance`, `AdmImplementsScan`, `LookBackInvariant`, `LookBackImplementsScan`, `QuantizerInvariant`, `RecordedSlotsCorrect`, `RefusalsCorrect`, `ErrorBoundCorrect`, `AdmLosslessCorrect` |
| `SumLemmas` | lemmas only: sums over finite sets, functions defined by iteration |

- `SumLemmas`. The models add up with the fold `MapThenSumSet`. What it computes is
  established by minimal counterexamples on the cardinality (an induction the provers
  can follow): the recursion has a solution, its values are integers, and one
  element can be taken out or changed whatever the order the fold uses. The same way:
  a function defined by iterating a step over `0..n` exists, and what every step keeps
  its last value has. This is what stands in for induction over data below.
- `MemoryPoolProofs`. `TrackingCorrect`: the pool tracks exactly the live addresses.
  The tables' disjointness is the strengthening: without it a free would remove an
  address from one table and leave it in another. `UsageCorrect` and `PersistentBytesCorrect`: the counters are
  the sums over the tables, in the arithmetic of `size_t`, so they hold after a
  counter has wrapped too.
- `DagProofs`. `CycleCheckCorrect`, from `KahnInv`: the nodes taken so far are those of
  in-degree 0 outside the queue, each in-degree counts the connections from nodes not
  yet taken (connections, not neighbours: this is where a double edge matters), and
  every non-empty part of the taken nodes has a node that depends on no other of the
  part. With the queue empty, all nodes taken is acyclicity, and otherwise the nodes
  left over depend on each other. `LevelsCorrect`, from the invariant that the nodes
  before `cursor` have levels above those of their producers, which also come before
  `cursor`. `ColoringCorrect` and `ColoringComplete`, from the invariant that buffers
  already coloured and interfering have different colours and that no region is smaller
  than a buffer in it, together with totality when the guard has run.
  `StreamsDistinct`, from the fact that positions within a level are distinct and
  below the width of the widest level, so the modulo is injective.
- `DagExecProofs`. The invariant is `PlanInv /\ HostInv /\ CountInv /\ DeviceInv`.
  `CountInv` says that each count is the number of consumers not dispatched (at least
  that, with a fused group) when the host is dispatching, and that of a fresh DAG
  wherever a call may start without reset: this is why the count never goes below zero.
  `DeviceInv` says that every operation ever enqueued waits for the events of all the
  node's producers *of its own call*, and that an operation that is running has all its
  waits fired. The step that needs the plan is that `execute()` dispatches a producer
  before its consumer (`ProducersRecorded`, from `LevelsCorrect`), so the event the wait
  picks up is the one of this call and not an earlier recording.
- `DagExecProofs`, second part. For a plan that runs on the caller's stream, the four memory
  properties of `DagExec`: inputs are intact when read, only mapped memory is touched,
  outputs are delivered, intermediates are released. The condition is `Sequential`:
  every `streamOf` is 0 (no streams configured and one stage per level, the plan of
  every linear pipeline), producers are inserted before their consumers, and a buffer
  nobody reads is persistent (as `compressor.cpp:791-798` and
  `compressor_inverse_dag.cpp:118` make it), and a fused group comes with PREALLOCATE. Without the first the properties are false
  of the code: that is what runs `exec_alias` and `exec_shared_free` show. Memory
  strategies, colouring, fused groups, exceptions and calls without reset are all
  covered. The argument: the operations of one stream happen in the order they were
  enqueued, so the log has a *timeline*, the mapped memory and the contents after each
  operation. The device is always at a point of the timeline (`OnTime`), and its
  end is what the host's flags say (`Follows`); that a buffer with consumers left is
  mapped and not overwritten is then a fact about the host alone (`AllocInv`), where
  `ColoringCorrect` says which buffers the new one may share memory with.
  The condition is met: among the states of run `pipeline` that satisfy it are returned
  second calls under MINIMAL, with two buffers in one region, with a fused group, and
  after an exception with a staged input.
- `InverseProofs`. Both theorems go from a finished plan to its archive and back.
  `ArchiveInv` says that an opened archive describes the plan (`Describes`: the level
  order, with the ids that fit an entry) and that every pipeline output is found where it
  was written. `DecodableCorrect` follows: an inverse input that is nowhere belongs to a
  buffer whose consumer was cut off from an entry. `RestoresCorrect` needs the inverse DAG
  itself (`DecodeInv`): every inverse node reads each output of its stage in the archive
  or at a port where a consumer restores it (`Reads`); since producers are declared
  first, the order of insertion is topological and the levels rise along reads
  (`Rising`); the fused groups are disjoint spans of nodes that only feed each other
  (`Grouped`); and everything that ran is restored, with the exception of the buffers
  inside a group, while a group's last member is restored as soon as its head ran
  (`RestoredSoFar`). The exception is harmless because such a buffer is read inside the
  group only, and the input of a source is never one of them (`SourceLast`).
- `FusionProofs`. The walk of `planFusionGroups()` is a chain of linear edges that agree
  on one geometry, and two walks that meet are the same walk, because a linear edge
  determines the way back to its head: so groups are disjoint, and since the planner only
  ever extends along edges whose buffer has one reader, no buffer inside one is
  read outside. That the choice of kernels is best is an argument about the table
  `best`: from the end of a chain backwards, `best[i]` bounds what disjoint spans behind
  `i` save, the spans that are taken save exactly `best[1]`, and the sum over the groups
  is the sum over all installed spans.
- `LifecycleProofs`. `LifeInv` is a conjunction with one part per group of fields that
  outlives a call: the graph (`GraphInv`), the blobs (`BlobInv`: a blob records the
  source its own call ran on), the metadata (`MetaInv`: metadata marked as actual are
  of the call whose data is in the buffers), the recorded size (`SizedInv`), headers
  (`ArchiveInv`) and what the last `decompress()` returned (`ReturnInv`). The four
  properties follow from it for any sequence of calls and failures. `RoundTripSize`
  without conditions is false (run `lifecycle_replay`); `EagerRoundTripSizeCorrect` is
  what holds: no graph replayed, and no other `compress()` begun since.
- `KernelProofs`, the quantizer. `QInv`: the outlier counter counts the claims, claimed slots are
  distinct and below it, a finished thread has written its slot and nobody wrote it
  again (`SlotsInv`); a finished element that is no outlier has its code (`CodesInv`);
  the overflow flag is raised by an element that must and by every one that must
  (`FlagInv`). `ErrorBoundCorrect` is the arithmetic on top: for each of the
  modes, whatever the order of the threads, what is decoded is within the bound.
- `KernelProofs`, the scans. `AdmInv` says of every slot what may have been stored in it in the
  current call (a total announced by the block before it, a resolved prefix by its own
  block), that totals and prefixes are the sums they stand for, and that a block that
  is walking back holds exactly the sum of the blocks it has passed. The step that
  matters: a block that finds a resolved prefix adds the prefix of that slot and no
  total of it, although both flags go to one slot with two writers. That a slot's flag
  only rises within a call gives the action property, and with the invariant every step
  of a block is a step of `ExclusiveScan` or a stutter. `LbInv` does the same for the
  look-back of warp fusion, whose lanes read a window of predecessors at different
  times: a lane holds a total or a prefix that *was* published, both stay right for the
  rest of the launch, and the warp adds the lanes from the highest predecessor down to the
  first prefix it sees.
- `KernelProofs`, ADM's signals. `AdmLosslessCorrect` is about u16 (`amWidth = 16`): for
  u32 the property is false, the finding of `adm_u32`. A lane's signals begin at running
  sums of their lengths (`StartsOf`), so the 1s of a lane are counted by value
  (`MarksCount`) and between the k-th and the next lie as many 0s as the value has steps,
  less one (`UnarySignal`); behind the last value the next 1 is the padding, or the stored
  length ends. The length of a warp holds its longest lane and no lane exceeds its buffer,
  or the call is refused (`LengthEnough`); the buffer of a u16 lane has as many bits as the
  decoder's `uint8_t` has values (`CounterRange = AdmChunk * 2 * ByteBits`, 256 in the
  code), which is why the count cannot wrap, and what fails for u32. `AmInv` carries "every
  value can be restored from what is stored so far" over the kernels of a call.

Not proved, checked by TLC on the instances only:

- `InputsIntact`, `MemoryMapped`, `OutputsDelivered` and `IntermediatesReleased` on several
  streams. They are false in general (see the violation runs); for the plans where they
  hold, the order of the operations is a partial one and needs an argument over
  happens-before instead of a timeline.
- The round trips and sizes of the other codecs (`LcLossless`, `LcFits`, `StageLossless`,
  `StageFits`): induction over data, and recursive operators.
- The liveness properties (`FinalizeEnds`, `KernelsEnd`, `AdmCallsEnd`):
  fairness and `ENABLED` are outside what the installed provers do.

## 5. Plan

1. The memory properties of `DagExec` on several streams, where they hold: PREALLOCATE
   without colouring, and a caller on the default stream. The invariant has to order
   operations by stream and event.
2. `DagMemory`: buffer growth, zero sizes and the usage counters of the DAG,
   composed with `MemoryPool`.
3. Several fused groups in `Dag` and `DagExec`, taken from `FusionPlanner`.

## 6. Not modelled

- ANS (a wrapper around vendored code), SPECK2D, the CDF 9/7 transform and the
  outlier correctors: their subject is floating-point rounding error, which exact
  arithmetic does not have.
- The code that warp fusion packs after its look-back, its tile-adaptive kernel and
  the fused bit-plane/RZE coder: variants of coders that are modelled as stages.
- Kernel source put together at run time (NVRTC) and its cache: text.
- Checksums, version probing and byte layout of the file header; the I/O itself.
- Configuration files, presets and the command line tool: parsing and reports
  around the same `Pipeline` calls.
- Stage registry and factory (a static table), logging, timing, statistics, backend
  shims.
- Construction calls out of order (`setMemoryStrategy()` after `addStage()`), buffer
  growth and zero-size buffers in the executor.
- Shared memory as one address space: that `GolombRiceCoder` of the fused kernel
  clears a word behind its payload (`chunk_fusion.cuh:447`) is noted as a hazard only.
