------------------------------ MODULE DagExec ------------------------------
(***************************************************************************)
(* CompressionDAG::execute() and reset() (src/pipeline/dag.cpp) under the  *)
(* call protocol of Pipeline::compress() and decompressInto()              *)
(* (src/pipeline/compressor_exec.cpp): one host thread enqueues work on    *)
(* the caller's stream (stream 0 here) and on the DAG's internal streams,  *)
(* and the device runs the streams concurrently.                           *)
(*                                                                         *)
(* One entry of a stream is an operation [run, node, waits, allocs, reads, *)
(* writes, signals, frees]: it starts once the events in `waits' have      *)
(* fired, maps `allocs' (cudaMallocAsync), reads and writes its buffers    *)
(* while it is running, and when it ends it fires `signals'                *)
(* (cudaEventRecord) and unmaps `frees' (cudaFreeAsync).                   *)
(***************************************************************************)
EXTENDS Dag, Sequences

CONSTANTS
    MaxRuns,       \* calls of the pipeline
    MaxFailures,   \* calls that throw
    Callers        \* how an application may use the pipeline, see Callings

(***************************************************************************)
(* protocol: the entry point it calls; staged: the input is written by     *)
(* work on the caller's stream (the pad copy of compress()); stream:       *)
(* "default" is the legacy default stream, which orders itself with the    *)
(* streams of cudaStreamCreate, "created" is one of those, unordered with  *)
(* the others.                                                             *)
(***************************************************************************)
Callings == [protocol : {"compress", "decompress", "decompressInto"},
             staged : BOOLEAN, stream : {"default", "created"}]

ASSUME ExecAssumption ==
    /\ MaxRuns \in Nat /\ MaxFailures \in Nat
    /\ Callers \subseteq {c \in Callings : c.staged => c.protocol = "compress"}

VARIABLES
    caller,      \* how the application uses this pipeline
    host,        \* "idle", "dispatch" or "sync"
    run,         \* number of the current (or last) call
    aborted,     \* calls that ended in an exception
    dirty,       \* the next call resets the DAG first: was_compressed_ of
                 \* compress(), a cached inverse DAG for the other two
    dispatched,  \* nodes execute() has gone through in this call
    executed,    \* DAGNode::is_executed
    remaining,   \* BufferInfo::remaining_consumers
    allocated,   \* BufferInfo::is_allocated, for buffers of the DAG
    recorded,    \* run in which completion_event was last recorded, 0: never
    log,         \* external: everything enqueued on each stream
    pc,          \* external: number of finished operations of each stream
    busy,        \* external: is the next operation of the stream running
    fired,       \* external: events that have fired, as <<node, run>>
    content,     \* run whose complete data the buffer holds, 0: none
    mapped       \* external: buffers whose memory is allocated on the device

hostVars == <<caller, host, run, aborted, dirty, dispatched, executed,
              remaining, allocated, recorded>>
gpuVars == <<pc, busy, fired, content, mapped>>
execVars == <<hostVars, log, gpuVars>>
vars == <<planVars, execVars>>

Protocol == caller.protocol
StagedInput == caller.staged
CallerStream == caller.stream

Streams == 0..(g.nodes + configured)

\* Pipeline outputs: buffers no stage consumes.
PipelineOutputs == {b \in g.bufs \ External : g.cons[b] = {} /\ b \in g.persistent}

\* decompressInto() is refused under MINIMAL.
ExecInit ==
    /\ Init
    /\ caller \in Callers
    /\ Protocol = "decompressInto" => strategy = "PREALLOCATE"
    /\ host = "idle" /\ run = 0 /\ aborted = {} /\ dirty = FALSE
    /\ dispatched = {} /\ executed = {}
    /\ remaining = [b \in g.bufs |-> Cardinality(g.cons[b])]
    /\ allocated = IF strategy = "PREALLOCATE"
                     THEN (g.bufs \ External) \ FusedInternal ELSE {}
    /\ recorded = [n \in Nodes |-> 0]
    /\ log = [s \in Streams |-> <<>>]
    /\ pc = [s \in Streams |-> 0]
    /\ busy = [s \in Streams |-> FALSE]
    /\ fired = {}
    /\ content = [b \in g.bufs |-> 0]
    /\ mapped = allocated \cup External

-----------------------------------------------------------------------------
(***************************************************************************)
(* Operations on streams.                                                  *)
(***************************************************************************)
NoWork == [run |-> run, node |-> 0, after |-> [t \in Streams |-> 0],
           waits |-> {}, allocs |-> {}, reads |-> {}, writes |-> {},
           signals |-> {}, frees |-> {}]

\* cudaStreamCreate gives blocking streams: an operation of the legacy default
\* stream starts after everything enqueued before it on the other streams, and
\* theirs after everything enqueued before them on it.
Barrier(lg, s) ==
    [t \in Streams |->
       IF CallerStream = "default" /\ t # s /\ (s = 0 \/ t = 0)
         THEN Len(lg[t]) ELSE 0]

Enqueue(lg, s, work) ==
    [lg EXCEPT ![s] = Append(@, [work EXCEPT !.after = Barrier(lg, s)])]

EnqueueIf(condition, lg, s, work) ==
    IF condition THEN Enqueue(lg, s, work) ELSE lg

\* Mutant of EventsOf: only the first dependency is waited for.
EventsOfFirst(S) ==
    {<<d, recorded[d]>> : d \in {e \in S : recorded[e] > 0 /\ \A f \in S : e <= f}}

\* The event instances a cudaStreamWaitEvent on these nodes waits for: the
\* last recording made before the call.  An event never recorded is no wait.
EventsOf(S) == {<<d, recorded[d]>> : d \in {e \in S : recorded[e] > 0}}

\* execute(): a node runs on its own stream, or on the caller's stream if it
\* has none.
ExecStream(n) == streamOf[n]

\* The node execute() handles next: level by level, insertion order inside.
IsNext(n) ==
    /\ n \in Nodes \ dispatched
    /\ \A m \in Nodes \ dispatched :
          level[n] < level[m] \/ (level[n] = level[m] /\ n <= m)

Minimal == strategy # "PREALLOCATE"

\* What docs/performance_tuning.md:106,214 asks of an application and forward
\* planAndInstallFusion() does not check: under MINIMAL nobody allocates the
\* buffers a fused kernel writes.
FusionPreallocated == g.group # {} => ~Minimal

\* Mutant of StreamSynchronized: the host does not wait.
StreamSynchronizedNever == TRUE

\* cudaStreamSynchronize(stream) returns: the caller's stream is drained.
StreamSynchronized == pc[0] = Len(log[0]) /\ ~busy[0]

-----------------------------------------------------------------------------
(***************************************************************************)
(* reset(stream): MINIMAL frees what is allocated and not persistent; the  *)
(* reference counts are restored and the executed flags cleared.           *)
(***************************************************************************)
ResetFrees(alloc) ==
    IF Minimal THEN alloc \ (g.persistent \cup External) ELSE {}

EnqueueReset(lg, alloc) ==
    EnqueueIf(ResetFrees(alloc) # {}, lg, 0,
              [NoWork EXCEPT !.frees = ResetFrees(alloc)])

\* Mutant of RestoredCounts: reset() leaves the counts where they are.
StaleCounts == remaining

RestoredCounts == [b \in g.bufs |-> Cardinality(g.cons[b])]

\* prepareInputSource(): with a pad buffer, a copy on the caller's stream
\* fills the buffer the source stages read.
InputCopy(r) == [NoWork EXCEPT !.run = r, !.writes = External]

\* Each call brings its own input, which its caller leaves alone until the call
\* is done; the pad buffer belongs to the pipeline.
CallerOwned == IF StagedInput THEN {} ELSE External

\* readConcatSegmentSizes(): a blob of several segments starts with their
\* sizes, which are copied to the host.
ReadsBack == Protocol # "compress" /\ Cardinality(External) > 1

\* A call up to execute(): reset the DAG if a previous call left it dirty,
\* then prepare the input.  An input that needs no copy is read where the caller
\* has it (CallerOwned).
BeginCall ==
    /\ phase = "ready"
    /\ host = "idle"
    /\ run < MaxRuns
    /\ ReadsBack => StreamSynchronized
    /\ host' = "dispatch"
    /\ run' = run + 1
    /\ dispatched' = {}
    /\ IF dirty
         THEN /\ log' = EnqueueIf(StagedInput, EnqueueReset(log, allocated), 0,
                                  InputCopy(run'))
              /\ allocated' = allocated \ ResetFrees(allocated)
              /\ remaining' = RestoredCounts
              /\ executed' = {}
         ELSE /\ log' = EnqueueIf(StagedInput, log, 0, InputCopy(run'))
              /\ UNCHANGED <<allocated, remaining, executed>>
    /\ dirty' = FALSE
    /\ UNCHANGED <<planVars, caller, aborted, recorded, gpuVars>>

-----------------------------------------------------------------------------
(***************************************************************************)
(* The body of execute()'s loop.                                           *)
(***************************************************************************)
\* allocateBuffer() for the outputs (MINIMAL): those not allocated yet.
NewOutputs(n) ==
    IF Minimal THEN (Outputs(n) \ FusedInternal) \ allocated ELSE {}

\* Mutant of LastRead: the count is tested before it is decremented.
LastReadLate(n) ==
    IF Minimal THEN {b \in Inputs(n) \ (g.persistent \cup External) :
                       remaining[b] = 0}
    ELSE {}

\* Mutant of LastRead: the first consumer releases the buffer.
LastReadFirst(n) ==
    IF Minimal THEN (Inputs(n) \cap allocated) \ (g.persistent \cup External)
    ELSE {}

\* Inputs whose count reaches 0 with this consumer and that are not kept.
LastRead(n) ==
    IF Minimal THEN {b \in Inputs(n) \ (g.persistent \cup External) :
                       remaining[b] = 1}
    ELSE {}

\* Wait for the producers, allocate the outputs, run the stage, record the
\* completion event, release the inputs read for the last time.
Launch(n) ==
    [NoWork EXCEPT !.node = n, !.waits = EventsOf(Deps(n)),
                   !.allocs = NewOutputs(n), !.reads = Inputs(n),
                   !.writes = Outputs(n), !.signals = {n}, !.frees = LastRead(n)]

\* A node outside every fused group.
Dispatch(n) ==
    /\ host = "dispatch"
    /\ IsNext(n)
    /\ n \notin g.group
    /\ log' = Enqueue(log, ExecStream(n), Launch(n))
    /\ recorded' = [recorded EXCEPT ![n] = run]
    /\ dispatched' = dispatched \cup {n}
    /\ executed' = executed \cup {n}
    /\ remaining' = [b \in g.bufs |-> remaining[b] - IF b \in Inputs(n) THEN 1 ELSE 0]
    /\ allocated' = (allocated \cup NewOutputs(n)) \ LastRead(n)
    /\ UNCHANGED <<planVars, caller, host, run, aborted, dirty, gpuVars>>

\* What a fused kernel reads and writes: every input entering the group and
\* every output leaving it.
FusedReads == (UNION {Inputs(n) : n \in g.group}) \ FusedInternal
FusedWrites == (UNION {Outputs(n) : n \in g.group}) \ FusedInternal

FusedLaunch(n) ==
    [NoWork EXCEPT !.node = n, !.waits = EventsOf(Deps(n)), !.reads = FusedReads,
                   !.writes = FusedWrites, !.signals = g.group]

\* executeFusedNode() on the head: the whole group runs as one kernel on the
\* caller's stream, then the events of all members are recorded.  Buffers are
\* not allocated, counted down or freed, and is_executed is not set.
DispatchFusedHead(n) ==
    /\ host = "dispatch"
    /\ IsNext(n)
    /\ n \in g.group /\ n = FusedHead
    /\ log' = Enqueue(log, 0, FusedLaunch(n))
    /\ recorded' = [m \in Nodes |-> IF m \in g.group THEN run ELSE recorded[m]]
    /\ dispatched' = dispatched \cup {n}
    /\ UNCHANGED <<planVars, caller, host, run, aborted, dirty, executed,
                   remaining, allocated, gpuVars>>

\* executeFusedNode() on another member: only its event is recorded again.
DispatchFusedMember(n) ==
    /\ host = "dispatch"
    /\ IsNext(n)
    /\ n \in g.group /\ n # FusedHead
    /\ log' = Enqueue(log, 0, [NoWork EXCEPT !.signals = {n}])
    /\ recorded' = [recorded EXCEPT ![n] = run]
    /\ dispatched' = dispatched \cup {n}
    /\ UNCHANGED <<planVars, caller, host, run, aborted, dirty, executed,
                   remaining, allocated, gpuVars>>

\* The call ends in an exception with lg enqueued and alloc allocated.  The
\* handler in compress() resets the DAG on the caller's stream; decompressCore()
\* has none, but its next call resets the cached inverse DAG.
Abort(lg, alloc) ==
    /\ aborted' = aborted \cup {run}
    /\ host' = "idle"
    /\ IF Protocol = "compress"
         THEN /\ log' = EnqueueReset(lg, alloc)
              /\ allocated' = alloc \ ResetFrees(alloc)
              /\ remaining' = RestoredCounts
              /\ executed' = {}
              /\ dirty' = FALSE
         ELSE /\ log' = lg
              /\ allocated' = alloc
              /\ dirty' = TRUE
              /\ UNCHANGED <<remaining, executed>>
    /\ UNCHANGED <<planVars, caller, run, dispatched, recorded, gpuVars>>

\* A stage throws before or after it has launched its kernel (the bounds check
\* comes after): its waits and allocations are enqueued, its event is not.
ThrowStage(n, launched) ==
    /\ host = "dispatch"
    /\ Cardinality(aborted) < MaxFailures
    /\ IsNext(n)
    /\ n \notin g.group
    /\ Abort(Enqueue(log, ExecStream(n),
                     IF launched THEN [Launch(n) EXCEPT !.signals = {}, !.frees = {}]
                     ELSE [NoWork EXCEPT !.waits = EventsOf(Deps(n)),
                                         !.allocs = NewOutputs(n)]),
             allocated \cup NewOutputs(n))

\* The same for a fused group.
ThrowFused(n, launched) ==
    /\ host = "dispatch"
    /\ Cardinality(aborted) < MaxFailures
    /\ IsNext(n)
    /\ n \in g.group /\ n = FusedHead
    /\ Abort(Enqueue(log, 0,
                     IF launched THEN [FusedLaunch(n) EXCEPT !.signals = {}]
                     ELSE [NoWork EXCEPT !.waits = EventsOf(Deps(n))]),
             allocated)

\* The nodes the caller's stream waits for at the end of execute().
JoinSet == {n \in executed : ExecStream(n) # 0}

\* The end of execute(): the caller's stream waits for every node that ran on
\* another stream.
JoinStreams ==
    /\ host = "dispatch"
    /\ dispatched = Nodes
    /\ log' = EnqueueIf(JoinSet # {}, log, 0,
                        [NoWork EXCEPT !.waits = EventsOf(JoinSet)])
    /\ host' = "sync"
    /\ UNCHANGED <<planVars, caller, run, aborted, dirty, dispatched, executed,
                   remaining, allocated, recorded, gpuVars>>

Synchronizes == Protocol # "decompressInto"

\* compress(): synchronize, then hand out the result; several outputs are
\* gathered on the caller's stream (concatOutputs) without another
\* synchronization.  The next call will reset the DAG.
ReturnCompressed ==
    /\ host = "sync"
    /\ Protocol = "compress"
    /\ StreamSynchronized
    /\ log' = EnqueueIf(Cardinality(PipelineOutputs) > 1, log, 0,
                        [NoWork EXCEPT !.reads = PipelineOutputs])
    /\ host' = "idle"
    /\ dirty' = TRUE
    /\ UNCHANGED <<planVars, caller, run, aborted, dispatched, executed,
                   remaining, allocated, recorded, gpuVars>>

\* decompress() and decompressInto(): synchronize or not, then reset the
\* inverse DAG at once; it is cached and reset again by the next call.
ReturnDecompressed ==
    /\ host = "sync"
    /\ Protocol # "compress"
    /\ Synchronizes => StreamSynchronized
    /\ log' = EnqueueReset(log, allocated)
    /\ allocated' = allocated \ ResetFrees(allocated)
    /\ remaining' = RestoredCounts
    /\ executed' = {}
    /\ host' = "idle"
    /\ dirty' = TRUE
    /\ UNCHANGED <<planVars, caller, run, aborted, dispatched, recorded, gpuVars>>

\* Collecting the result throws after the synchronization (a size or a gather
\* buffer cannot be had).
ThrowResult ==
    /\ host = "sync"
    /\ Synchronizes
    /\ StreamSynchronized
    /\ Cardinality(aborted) < MaxFailures
    /\ Abort(log, allocated)

\* Pipeline::reset() between two calls of compress().  A call refused for the
\* size of its input, after the reset it starts with, leaves the same behind.
ResetPipeline ==
    /\ phase = "ready"
    /\ host = "idle"
    /\ Protocol = "compress"
    /\ log' = EnqueueReset(log, allocated)
    /\ allocated' = allocated \ ResetFrees(allocated)
    /\ remaining' = RestoredCounts
    /\ executed' = {}
    /\ dirty' = FALSE
    /\ UNCHANGED <<planVars, caller, host, run, aborted, dispatched, recorded,
                   gpuVars>>

-----------------------------------------------------------------------------
(***************************************************************************)
(* The device: each stream runs its operations one at a time, in order.    *)
(***************************************************************************)
SharesMemory(a, b) ==
    \/ a = b
    \/ coloringApplied /\ color[a] # -1 /\ color[a] = color[b]

\* Buffers whose memory is touched when the buffers in S are written.
Clobbered(S) == {a \in g.bufs : \E b \in S : SharesMemory(a, b)}

Current(s) == log[s][pc[s] + 1]

StartOp(s) ==
    /\ pc[s] < Len(log[s])
    /\ ~busy[s]
    /\ \A u \in Streams : pc[u] >= Current(s).after[u]
    /\ Current(s).waits \subseteq fired
    /\ busy' = [busy EXCEPT ![s] = TRUE]
    /\ mapped' = mapped \cup Current(s).allocs
    /\ content' = [b \in g.bufs |->
                     IF b \in Clobbered(Current(s).writes) THEN 0 ELSE content[b]]
    /\ UNCHANGED <<planVars, hostVars, log, pc, fired>>

FinishOp(s) ==
    /\ busy[s]
    /\ busy' = [busy EXCEPT ![s] = FALSE]
    /\ pc' = [pc EXCEPT ![s] = @ + 1]
    /\ fired' = fired \cup {<<n, Current(s).run>> : n \in Current(s).signals}
    /\ content' = [b \in g.bufs |->
                     IF b \in Current(s).frees THEN 0
                     ELSE IF b \in Current(s).writes THEN Current(s).run
                     ELSE IF b \in Clobbered(Current(s).writes) THEN 0
                     ELSE content[b]]
    /\ mapped' = mapped \ Current(s).frees
    /\ UNCHANGED <<planVars, hostVars, log>>

HostStep ==
    \/ BeginCall
    \/ \E n \in Nodes : \/ Dispatch(n) \/ DispatchFusedHead(n)
                        \/ DispatchFusedMember(n)
                        \/ \E launched \in BOOLEAN :
                             ThrowStage(n, launched) \/ ThrowFused(n, launched)
    \/ JoinStreams
    \/ ReturnCompressed
    \/ ReturnDecompressed
    \/ ThrowResult
    \/ ResetPipeline

Next ==
    \/ PlanStep /\ UNCHANGED execVars
    \/ HostStep
    \/ \E s \in Streams : StartOp(s) \/ FinishOp(s)

Spec == ExecInit /\ [][Next]_vars

-----------------------------------------------------------------------------
\* An operation enqueued on a stream.
Ops == [run : 0..MaxRuns, node : Nat, after : [Streams -> Nat],
        waits : SUBSET (Nodes \X Nat), allocs : SUBSET g.bufs,
        reads : SUBSET g.bufs, writes : SUBSET g.bufs,
        signals : SUBSET Nodes, frees : SUBSET g.bufs]

ExecTypeOK ==
    /\ PlanTypeOK
    /\ caller \in Callers
    /\ host \in {"idle", "dispatch", "sync"}
    /\ run \in 0..MaxRuns
    /\ aborted \subseteq 1..MaxRuns
    /\ dirty \in BOOLEAN
    /\ dispatched \subseteq Nodes /\ executed \subseteq Nodes
    /\ remaining \in [g.bufs -> Nat]
    /\ allocated \subseteq g.bufs
    /\ recorded \in [Nodes -> 0..MaxRuns]
    /\ log \in [Streams -> Seq(Ops)]
    /\ pc \in [Streams -> Nat]
    /\ busy \in [Streams -> BOOLEAN]
    /\ \A s \in Streams : pc[s] <= Len(log[s])
    /\ fired \subseteq Nodes \X (0..MaxRuns)
    /\ content \in [g.bufs -> 0..MaxRuns]
    /\ mapped \subseteq g.bufs

\* A stage starts only after every stage it depends on has finished in the
\* same call, on whatever stream, provided stages were added after the stages
\* they read from: "ensures every node's output is ready before
\* its consumers read it" (docs/architecture.md:88-89).
DependenciesComplete ==
    ProducersFirst =>
        \A s \in Streams : busy[s] /\ Current(s).node # 0 =>
            \A d \in Deps(Current(s).node) : <<d, Current(s).run>> \in fired

\* While an operation runs, every buffer it reads holds the complete data of
\* its own call: no stage reads a buffer that is half written, overwritten by
\* an aliasing buffer or by another call, freed, or left from an earlier call.
\* What a call that threw left on the streams computes nothing anyone uses.
InputsIntact ==
    \A s \in Streams : busy[s] /\ Current(s).run \notin aborted =>
        \A b \in Current(s).reads \ CallerOwned : content[b] = Current(s).run

\* While an operation runs, all the memory it touches is allocated.
MemoryMapped ==
    \A s \in Streams : busy[s] =>
        (Current(s).reads \cup Current(s).writes) \subseteq mapped

\* A synchronizing call has returned normally and no call was made since.
Returned == Synchronizes /\ host = "idle" /\ run > 0 /\ run \notin aborted

\* When a synchronizing call has returned, every pipeline output is complete
\* and still allocated (the barrier at the end of execute(), dag.cpp:622-637),
\* and stays so until the next call.
OutputsDelivered ==
    Returned =>
        \A b \in PipelineOutputs : content[b] = run /\ b \in mapped

\* MINIMAL: when a synchronizing call has returned, no intermediate buffer is
\* left allocated on the device, and the DAG's flags say the same ("free each
\* buffer immediately after its last consumer", docs/architecture.md:104).
IntermediatesReleased ==
    Minimal /\ Returned =>
        /\ mapped \subseteq g.persistent \cup External
        /\ allocated = mapped \ External

\* The reference count of a buffer is the number of consumers execute() has
\* still to go through, in every call, also after a call that threw.
RefCountExact ==
    g.group = {} /\ host = "dispatch" =>
        \A b \in g.bufs : remaining[b] = Cardinality(g.cons[b] \ dispatched)

=============================================================================
