----------------------------- MODULE Lifecycle -----------------------------
(***************************************************************************)
(* The calls an application makes on one fz::Pipeline after it is wired:   *)
(* finalize(), warmup(), captureGraph(), compress(), decompress() in its   *)
(* ownership variants, prepareInverse(), primeInverseFromHeader(),         *)
(* writeToFile() and reset() (src/pipeline/compressor*.cpp).  Every call   *)
(* is one step with all it does to the pipeline's fields, the exceptions   *)
(* it can end in included.                                                 *)
(*                                                                         *)
(* A compressed blob is represented by the number of the compress() call   *)
(* that made it; `blobs' says what the application passed to that call.    *)
(***************************************************************************)
EXTENDS Naturals, Sequences, FiniteSets

CONSTANTS
    Configs,     \* pipelines as the application may have set them up
    Sizes,       \* byte counts the application passes to compress()
    MaxCalls,    \* bound on the number of calls after finalize()
    MaxFaults    \* bound on the number of calls that fail inside CUDA or a stage

\* hint: input_data_size of the constructor, 0 for none; align: LCM of the
\* stages' getRequiredInputAlignment(); graph: enableGraphMode(); warm:
\* setWarmupOnFinalize(); concat: several pipeline outputs; learns: some stage
\* keeps parameters it computes from the data (outlier counts, code lengths).
ConfigSet == [hint : Nat, align : Nat \ {0},
              strategy : {"MINIMAL", "PREALLOCATE"},
              graph : BOOLEAN, warm : BOOLEAN, concat : BOOLEAN, learns : BOOLEAN]

ASSUME LifecycleAssumption ==
    /\ Configs \subseteq ConfigSet
    /\ Sizes \subseteq Nat \ {0}
    /\ MaxCalls \in Nat /\ MaxFaults \in Nat

VARIABLES
    cfg,            \* set up before finalize(), fixed afterwards
    calls, faults,  \* calls made, calls failed so far
    finalized,      \* is_finalized_
    isCompressed,   \* is_compressed_
    wasCompressed,  \* was_compressed_
    inputSize,      \* input_size_
    sourceSize,     \* source_input_sizes_ of the primary source
    originalSize,   \* original_input_size_
    meta,           \* buffer_metadata_: whose sizes, and real or placeholders
    live,           \* call whose data the DAG's output buffers hold, 0: none
    params,         \* call whose parameters the stages hold, Mixed: of several
    graphCaptured,  \* graph_captured_
    captureMode,    \* capture_mode_ of the DAG
    profiling,      \* profiling_enabled_
    padCapacity,    \* d_pad_buf_.capacity
    cache,          \* source size of inv_cache_, 0: no cache
    outputs,        \* d_decomp_outputs_, by the call that allocated them
    poolManaged,    \* pool_managed_decomp_
    blobs,          \* ghost: per call, what compress() was given
    archive,        \* ghost: files and headers written
    attempted,      \* ghost: the last compress() call, whether it returned or threw
    last            \* ghost: what the last call returned

sizeVars == <<inputSize, sourceSize, originalSize>>
dataVars == <<meta, live, params, blobs, attempted>>
flagVars == <<isCompressed, wasCompressed>>
graphVars == <<graphCaptured, captureMode>>
outVars == <<cache, outputs>>
lifeVars == <<cfg, calls, faults, finalized, flagVars, sizeVars, dataVars, graphVars,
          profiling, padCapacity, outVars, poolManaged, archive, last>>

Mixed == MaxCalls + 1
RoundUp(n, a) == ((n + a - 1) \div a) * a

\* input_size_hint_ after computeInputAlignment().
Hint == RoundUp(cfg.hint, cfg.align)

NoMeta == [kind |-> "none", call |-> 0]
NoBlob == [size |-> 0, source |-> 0, mode |-> "none"]
Nothing == [op |-> "none", ok |-> TRUE, blob |-> 0, size |-> 0, capacity |-> 0,
            meta |-> NoMeta, right |-> TRUE]

LifeInit ==
    /\ cfg \in Configs
    /\ calls = 0 /\ faults = 0
    /\ finalized = FALSE /\ isCompressed = FALSE /\ wasCompressed = FALSE
    /\ inputSize = 0 /\ sourceSize = 0 /\ originalSize = 0
    /\ meta = NoMeta /\ live = 0 /\ params = 0 /\ attempted = 0
    /\ blobs = [k \in 1..MaxCalls |-> NoBlob]
    /\ graphCaptured = FALSE /\ captureMode = FALSE
    /\ profiling \in BOOLEAN
    /\ padCapacity = 0 /\ cache = 0 /\ outputs = {}
    /\ poolManaged \in BOOLEAN
    /\ archive = {}
    /\ last = Nothing

\* A call that throws before it changes anything.
Refused(op) ==
    /\ last' = [Nothing EXCEPT !.op = op, !.ok = FALSE]
    /\ UNCHANGED <<cfg, faults, finalized, flagVars, sizeVars, dataVars, graphVars,
                   profiling, padCapacity, outVars, poolManaged, archive>>

Call == finalized /\ calls < MaxCalls /\ calls' = calls + 1
Fault == faults < MaxFaults /\ faults' = faults + 1

-----------------------------------------------------------------------------
(***************************************************************************)
(* compress()                                                              *)
(***************************************************************************)

\* compress() of n bytes is refused: larger than the hint of finalize().
TooLarge(n) == Hint > 0 /\ n > Hint

Padded(n) == cfg.align > 1 /\ n % cfg.align # 0

\* The size of the source buffer prepareInputSource() returns: the whole input
\* slot of a captured graph, or the input padded to the alignment.
PreparedSource(n) == IF graphCaptured THEN Hint ELSE RoundUp(n, cfg.align)

\* original_input_size_ as prepareInputSource() leaves it.
PreparedOriginal(n) == IF Padded(n) THEN n ELSE 0

\* The pad buffer grows when a padded input does not fit; without a hint it was
\* not allocated by finalize().
GrowsPad(n) == ~graphCaptured /\ Padded(n) /\ RoundUp(n, cfg.align) > padCapacity

PadAfter(n) == IF GrowsPad(n) THEN RoundUp(n, cfg.align) ELSE padCapacity

Mode == IF graphCaptured THEN "replay" ELSE IF captureMode THEN "capturing" ELSE "eager"

\* The DAG has run and every later step of compress() has succeeded.
CompressRuns(n, k) ==
    /\ originalSize' = PreparedOriginal(n) /\ attempted' = k
    /\ sourceSize' = PreparedSource(n) /\ inputSize' = PreparedSource(n)
    /\ padCapacity' = PadAfter(n)
    /\ live' = k /\ params' = k

\* Mutant of CompressFails: the handler forgets the sizes of the failed call.
CompressFailsKeepingMetadata(n, k) ==
    /\ originalSize' = PreparedOriginal(n) /\ attempted' = k
    /\ sourceSize' = PreparedSource(n) /\ inputSize' = 0
    /\ padCapacity' = PadAfter(n)
    /\ live' = 0 /\ params' = Mixed
    /\ wasCompressed' = FALSE
    /\ UNCHANGED <<isCompressed, meta>>

\* A stage, the launch or the gather throws: the handler of compress() resets
\* the DAG and forgets the metadata; is_compressed_, source_input_sizes_ and
\* original_input_size_ stay.
CompressFails(n, k) ==
    /\ originalSize' = PreparedOriginal(n) /\ attempted' = k
    /\ sourceSize' = PreparedSource(n) /\ inputSize' = 0
    /\ padCapacity' = PadAfter(n)
    /\ live' = 0 /\ params' = Mixed
    /\ meta' = NoMeta /\ wasCompressed' = FALSE
    /\ UNCHANGED isCompressed

CompressReturns(n) ==
    /\ Call /\ ~TooLarge(n)
    /\ CompressRuns(n, calls')
    /\ meta' = [kind |-> "actual", call |-> calls']
    /\ isCompressed' = TRUE /\ wasCompressed' = TRUE
    /\ blobs' = [blobs EXCEPT ![calls'] = [size |-> n, source |-> PreparedSource(n),
                                           mode |-> Mode]]
    /\ last' = [Nothing EXCEPT !.op = "compress", !.blob = calls', !.size = n]
    /\ UNCHANGED <<cfg, faults, finalized, graphVars, profiling, outVars,
                   poolManaged, archive>>

CompressThrows(n) ==
    /\ Call /\ ~TooLarge(n) /\ Fault
    /\ CompressFails(n, calls')
    /\ last' = [Nothing EXCEPT !.op = "compress", !.ok = FALSE]
    /\ UNCHANGED <<cfg, finalized, graphVars, blobs, profiling, outVars,
                   poolManaged, archive>>

\* prepareInputSource() throws, before the handler is armed.  On a replay the
\* copy into the slot fails when the original size is set already.  On a padded
\* input the original size is still 0: the pad buffer cannot grow, in which case
\* PoolBuffer::allocate() has given the old one back, or the copy into it fails.
PrepareFails(n) ==
    \/ /\ graphCaptured
       /\ originalSize' = PreparedOriginal(n) /\ UNCHANGED padCapacity
    \/ /\ ~graphCaptured /\ Padded(n)
       /\ originalSize' = 0
       /\ padCapacity' \in {PadAfter(n)} \cup {c \in {0} : GrowsPad(n)}

\* compress() throws before the handler: the input is too large, or it cannot be
\* prepared.  Both come after the reset of the previous call's DAG state; sizes,
\* metadata and buffers of that call stay.
CompressRejects(n) ==
    /\ Call
    /\ \/ TooLarge(n) /\ UNCHANGED <<faults, originalSize, padCapacity>>
       \/ ~TooLarge(n) /\ Fault /\ PrepareFails(n)
    /\ wasCompressed' = FALSE
    /\ attempted' = calls'
    /\ last' = [Nothing EXCEPT !.op = "compress", !.ok = FALSE]
    /\ UNCHANGED <<cfg, finalized, isCompressed, inputSize, sourceSize, meta, live,
                   params, blobs, graphVars, profiling, outVars, poolManaged, archive>>

-----------------------------------------------------------------------------
(***************************************************************************)
(* decompress(): variant "default" is the void** overload, which follows   *)
(* pool_managed_decomp_; "borrowed" and "owned" are the span calls that    *)
(* override it for their own duration; "caller" writes into a buffer of    *)
(* the application, "async" is decompressInto().                           *)
(***************************************************************************)
Variants == {"default", "borrowed", "owned", "caller", "async"}

FromPool(variant) == variant = "borrowed" \/ (variant = "default" /\ poolManaged)

\* The blob decompressed: call b's, or the live buffers of the DAG (b = 0).
Decoded(b) == IF b = 0 THEN live ELSE b

\* The stages' parameters and the sizes they are driven with belong to the
\* blob.  Placeholder sizes are harmless for an external blob, whose concat
\* header, or whose length, gives the real ones.
DecodesRight(b) ==
    LET k == Decoded(b) IN
    /\ k > 0
    /\ cfg.learns => params = k
    /\ sourceSize = blobs[k].source
    /\ b = 0 => meta = [kind |-> "actual", call |-> k]

\* resolvePrimarySource(): the size the inverse DAG's result buffer gets.
PlannedSize == IF sourceSize > 0 THEN sourceSize ELSE inputSize

\* External: the source stage's report after the run, the planned size or what
\* the blob itself says.
ReportedSizes(b, variant) ==
    IF variant = "async" \/ Decoded(b) = 0 THEN {PlannedSize}
    ELSE {PlannedSize, blobs[Decoded(b)].source}

\* Mutant of Trimmed: the padding is never cut off.
TrimmedNever(size) == size

\* The size handed back: cut to the input of the last padded compress().
Trimmed(size) ==
    IF originalSize > 0 /\ size > originalSize THEN originalSize ELSE size

\* Mutant of CacheAfter: a cached inverse DAG serves every size.
CacheAfterFirst(size) == IF cache = 0 THEN size ELSE cache

\* buildOrReuseInvCache(): rebuilt when the source size is another one.
CacheAfter(size) == size

\* Prior pool outputs are freed and the new one is recorded.
OutputsAfter(variant, k) == IF FromPool(variant) THEN {k} ELSE outputs

DecompressRefused(variant) ==
    meta.kind = "none" \/ (variant = "async" /\ cfg.strategy # "PREALLOCATE")

\* A buffer of the application is checked against the planned size before it is
\* used, capacity 0 standing for one that is large enough.
TooSmall(variant, capacity) ==
    variant \in {"caller", "async"} /\ capacity > 0 /\ PlannedSize > capacity

DecompressReturns(b, variant, capacity) ==
    /\ Call /\ ~DecompressRefused(variant) /\ ~TooSmall(variant, capacity)
    /\ b > 0 => blobs[b].size > 0
    /\ cache' = CacheAfter(PlannedSize)
    /\ outputs' = OutputsAfter(variant, calls')
    /\ \E size \in ReportedSizes(b, variant) :
          last' = [Nothing EXCEPT !.op = "decompress", !.blob = Decoded(b),
                     !.size = Trimmed(size), !.meta = meta,
                     !.right = DecodesRight(b) /\ cache' = PlannedSize]
    /\ UNCHANGED <<cfg, faults, finalized, flagVars, sizeVars, dataVars, graphVars,
                   profiling, padCapacity, poolManaged, archive>>

\* The inverse DAG cannot be built (nothing changed yet), the output cannot be
\* allocated or is too small (the cache is new and the old output freed), or
\* the inverse DAG throws.  The scope guard restores the stages every time.
DecompressThrows(b, variant, capacity) ==
    /\ Call /\ ~DecompressRefused(variant)
    /\ b > 0 => blobs[b].size > 0
    /\ \/ /\ ~TooSmall(variant, capacity) /\ Fault
          /\ \E o \in {<<cache, outputs>>,
                       <<CacheAfter(PlannedSize), IF FromPool(variant) THEN {} ELSE outputs>>,
                       <<CacheAfter(PlannedSize), OutputsAfter(variant, calls')>>} :
                cache' = o[1] /\ outputs' = o[2]
       \/ /\ TooSmall(variant, capacity) /\ UNCHANGED <<faults, outputs>>
          /\ cache' = CacheAfter(PlannedSize)
    /\ last' = [Nothing EXCEPT !.op = "decompress", !.ok = FALSE, !.blob = Decoded(b),
                  !.capacity = IF TooSmall(variant, capacity) THEN capacity ELSE 0,
                  !.meta = meta]
    /\ UNCHANGED <<cfg, finalized, flagVars, sizeVars, dataVars, graphVars,
                   profiling, padCapacity, poolManaged, archive>>

DecompressNotReady(variant) ==
    Call /\ DecompressRefused(variant) /\ Refused("decompress")

\* getLastUncompressedSize()
LastUncompressedSize == IF originalSize > 0 THEN originalSize ELSE inputSize

-----------------------------------------------------------------------------
(***************************************************************************)
(* Decoding blobs made elsewhere, and files.                               *)
(***************************************************************************)

\* Mutant of PrepareInverse: metadata that exist are kept.
PrepareInverseOnce(n) ==
    /\ Call
    /\ meta' = IF meta.kind = "none" THEN [kind |-> "placeholder", call |-> 0] ELSE meta
    /\ sourceSize' = n /\ inputSize' = n
    /\ last' = [Nothing EXCEPT !.op = "prepareInverse"]
    /\ UNCHANGED <<cfg, faults, finalized, flagVars, originalSize, live,
                   params, blobs, attempted, graphVars, profiling, padCapacity, outVars,
                   poolManaged, archive>>

\* prepareInverse(n): placeholder metadata and the sizes; original_input_size_
\* and the stages' parameters stay as they are.
PrepareInverse(n) ==
    /\ Call
    /\ meta' = [kind |-> "placeholder", call |-> 0]
    /\ sourceSize' = n /\ inputSize' = n
    /\ last' = [Nothing EXCEPT !.op = "prepareInverse"]
    /\ UNCHANGED <<cfg, faults, finalized, flagVars, originalSize, live,
                   params, blobs, attempted, graphVars, profiling, padCapacity, outVars,
                   poolManaged, archive>>

CanWrite == isCompressed /\ meta.kind # "none"

\* writeToFile() and serializeHeaderToMemory(): what the file says and holds.
WriteToFile ==
    /\ Call /\ CanWrite
    /\ archive' = archive \cup {[meta |-> meta, source |-> inputSize,
                                 params |-> params, data |-> live]}
    /\ last' = [Nothing EXCEPT !.op = "writeToFile"]
    /\ UNCHANGED <<cfg, faults, finalized, flagVars, sizeVars, dataVars, graphVars,
                   profiling, padCapacity, outVars, poolManaged>>

WriteRefused == Call /\ ~CanWrite /\ Refused("writeToFile")

\* primeInverseFromHeader(): the stages take the parameters of the header, in
\* level order; sizes and placeholder metadata as in prepareInverse().
PrimeInverseFromHeader(h) ==
    /\ Call
    /\ params' = h.params
    /\ sourceSize' = h.source /\ inputSize' = h.source
    /\ meta' = [kind |-> "placeholder", call |-> 0]
    /\ last' = [Nothing EXCEPT !.op = "prime"]
    /\ UNCHANGED <<cfg, faults, finalized, flagVars, originalSize, live,
                   blobs, attempted, graphVars, profiling, padCapacity, outVars, poolManaged,
                   archive>>

\* A header of another pipeline is found out at the first stage that does not
\* match, when the stages before it have been overwritten.
PrimeMismatch ==
    /\ Call /\ Fault
    /\ params' = Mixed
    /\ last' = [Nothing EXCEPT !.op = "prime", !.ok = FALSE]
    /\ UNCHANGED <<cfg, finalized, flagVars, sizeVars, meta, live, blobs, attempted,
                   graphVars, profiling, padCapacity, outVars, poolManaged, archive>>

\* decompressFromFileInstance(): the file is decoded with stages and a pool of
\* its own and is not trimmed; only the pool output belongs to this pipeline.
\* A file written from placeholder metadata is read like any other: its sizes
\* are those of the buffers, its source size is what prepareInverse() was told.
DecompressFromFile(h) ==
    /\ Call
    /\ outputs' = OutputsAfter("default", calls')
    /\ last' = [Nothing EXCEPT !.op = "file", !.blob = h.data, !.size = h.source,
                  !.meta = h.meta,
                  !.right = h.meta.kind = "actual" /\ (cfg.learns => h.params = h.data)]
    /\ UNCHANGED <<cfg, faults, finalized, flagVars, sizeVars, dataVars, graphVars,
                   profiling, padCapacity, cache, poolManaged, archive>>

\* The file cannot be decoded, or the pool output, whose predecessor is freed by
\* then, cannot be allocated or filled.
DecompressFromFileFails(h) ==
    /\ Call /\ Fault
    /\ outputs' \in {outputs} \cup {o \in {{}} : FromPool("default")}
    /\ last' = [Nothing EXCEPT !.op = "file", !.ok = FALSE, !.blob = h.data, !.meta = h.meta]
    /\ UNCHANGED <<cfg, finalized, flagVars, sizeVars, dataVars, graphVars,
                   profiling, padCapacity, cache, poolManaged, archive>>

-----------------------------------------------------------------------------
(***************************************************************************)
(* finalize(), warmup(), captureGraph(), reset(), setters.                 *)
(***************************************************************************)

\* setupGraphModeInput() throws out of finalize(), which leaves is_finalized_.
GraphModePossible == cfg.graph => cfg.strategy = "PREALLOCATE" /\ cfg.hint > 0

\* warmup() on a dummy of hint bytes, which is never padded.  The decompression
\* may fail and is swallowed; either way the cache and every output go.
WarmupReturns ==
    /\ originalSize' = PreparedOriginal(Hint) /\ attempted' = 0
    /\ sourceSize' = Hint /\ inputSize' = Hint
    /\ live' = 0 /\ params' = Mixed
    /\ meta' = NoMeta /\ isCompressed' = FALSE /\ wasCompressed' = FALSE
    /\ cache' = 0 /\ outputs' = {}
    /\ UNCHANGED <<faults, profiling>>

\* Its compress() throws through warmup(): profiling was switched off before.
WarmupThrows ==
    /\ Fault /\ profiling' = FALSE
    /\ \/ CompressFails(Hint, 0)
       \/ /\ PrepareFails(Hint)
          /\ wasCompressed' = FALSE /\ attempted' = 0
          /\ UNCHANGED <<isCompressed, inputSize, sourceSize, meta, live, params>>
    /\ UNCHANGED outVars

\* The pad buffer is allocated for the hint; is_finalized_ is set before the
\* automatic warmup().
Finalizes ==
    /\ ~finalized /\ GraphModePossible
    /\ finalized' = TRUE
    /\ padCapacity' = IF cfg.align > 1 THEN Hint ELSE 0
    /\ UNCHANGED <<cfg, calls, blobs, graphVars, poolManaged, archive>>

Finalize ==
    /\ Finalizes /\ ~(cfg.warm /\ Hint > 0)
    /\ last' = [Nothing EXCEPT !.op = "finalize"]
    /\ UNCHANGED <<faults, flagVars, sizeVars, meta, live, params, attempted, profiling,
                   outVars>>

FinalizeAndWarmup ==
    /\ Finalizes /\ cfg.warm /\ Hint > 0 /\ WarmupReturns
    /\ last' = [Nothing EXCEPT !.op = "finalize"]

\* The exception of warmup() leaves finalize(), the pipeline stays finalized.
FinalizeWarmupThrows ==
    /\ Finalizes /\ cfg.warm /\ Hint > 0 /\ Fault
    /\ sourceSize' = Hint /\ inputSize' = 0 /\ params' = Mixed /\ profiling' = FALSE
    /\ last' = [Nothing EXCEPT !.op = "finalize", !.ok = FALSE]
    /\ UNCHANGED <<flagVars, originalSize, attempted, meta, live, outVars>>

FinalizeThrows ==
    /\ ~finalized /\ ~GraphModePossible /\ last.ok
    /\ UNCHANGED calls /\ Refused("finalize")

\* Skipped without a hint.
Warmup ==
    /\ Call /\ Hint > 0 /\ WarmupReturns
    /\ last' = [Nothing EXCEPT !.op = "warmup"]
    /\ UNCHANGED <<cfg, finalized, blobs, graphVars, poolManaged, archive, padCapacity>>

WarmupFails ==
    /\ Call /\ Hint > 0 /\ WarmupThrows
    /\ last' = [Nothing EXCEPT !.op = "warmup", !.ok = FALSE]
    /\ UNCHANGED <<cfg, finalized, blobs, graphVars, poolManaged, archive>>

\* The capture has ended and the graph is instantiated.  Stages ran their host
\* code on the slot's size, so parameters kept on the host may be of no call.
CaptureReturns ==
    /\ graphCaptured' = TRUE /\ captureMode' = FALSE
    /\ params' \in {params, Mixed}
    /\ last' = [Nothing EXCEPT !.op = "captureGraph"]
    /\ UNCHANGED faults

\* A stage is not graph compatible, or throws while it is captured.
CaptureRefused ==
    /\ Fault /\ graphCaptured' = FALSE /\ captureMode' \in {captureMode, FALSE}
    /\ params' \in {params, Mixed}

\* cudaStreamBeginCapture, EndCapture or GraphInstantiate fails: capture mode
\* stays on, and the compress() calls that follow run in it.
CaptureBreaks ==
    /\ Fault /\ graphCaptured' = FALSE /\ captureMode' = TRUE
    /\ params' \in {params, Mixed}

CaptureGraph ==
    /\ Call /\ cfg.graph /\ ~wasCompressed
    /\ \/ CaptureReturns
       \/ /\ CaptureRefused \/ CaptureBreaks
          /\ last' = [Nothing EXCEPT !.op = "captureGraph", !.ok = FALSE]
    /\ UNCHANGED <<cfg, finalized, flagVars, sizeVars, meta, live, blobs, attempted,
                   profiling, padCapacity, outVars, poolManaged, archive>>

CaptureTooEarlyOrLate ==
    Call /\ (~cfg.graph \/ wasCompressed) /\ Refused("captureGraph")

Reset ==
    /\ Call /\ wasCompressed' = FALSE
    /\ last' = [Nothing EXCEPT !.op = "reset"]
    /\ UNCHANGED <<cfg, faults, finalized, isCompressed, sizeVars, dataVars, graphVars,
                   profiling, padCapacity, outVars, poolManaged, archive>>

SetPoolManagedDecompOutput ==
    /\ Call /\ poolManaged' = ~poolManaged
    /\ last' = [Nothing EXCEPT !.op = "setPoolManaged"]
    /\ UNCHANGED <<cfg, faults, finalized, flagVars, sizeVars, dataVars, graphVars,
                   profiling, padCapacity, outVars, archive>>

Capacities(variant) ==
    IF variant \in {"caller", "async"} THEN {0, LastUncompressedSize} ELSE {0}

LifeNext ==
    \/ Finalize \/ FinalizeAndWarmup \/ FinalizeWarmupThrows \/ FinalizeThrows
    \/ Warmup \/ WarmupFails
    \/ CaptureGraph \/ CaptureTooEarlyOrLate
    \/ Reset \/ SetPoolManagedDecompOutput
    \/ \E n \in Sizes : CompressReturns(n) \/ CompressThrows(n) \/ CompressRejects(n)
                          \/ PrepareInverse(n)
    \/ \E variant \in Variants :
          \/ DecompressNotReady(variant)
          \/ \E b \in 0..MaxCalls, capacity \in Capacities(variant) :
                \/ DecompressReturns(b, variant, capacity)
                \/ DecompressThrows(b, variant, capacity)
    \/ WriteToFile \/ WriteRefused \/ PrimeMismatch
    \/ \E h \in archive : PrimeInverseFromHeader(h) \/ DecompressFromFile(h)
                          \/ DecompressFromFileFails(h)

LifeSpec == LifeInit /\ [][LifeNext]_lifeVars

-----------------------------------------------------------------------------
(***************************************************************************)
(* Properties.                                                             *)
(***************************************************************************)

\* Metadata with real sizes describe what the DAG's output buffers hold and the
\* size its source had, whatever threw, was reset, captured or decoded since
\* that compress(): decompress(nullptr) and writeToFile() rest on it.
MetadataDescribesLive ==
    meta.kind = "actual" =>
        /\ live = meta.call
        /\ isCompressed
        /\ sourceSize = blobs[live].source /\ inputSize = sourceSize

\* The blob last.blob is the one the pipeline's metadata are about, and was
\* decoded with success.
DecodedOwnBlob ==
    /\ last.op = "decompress" /\ last.ok /\ last.blob > 0
    /\ last.meta = [kind |-> "actual", call |-> last.blob]

\* "decompress() uses this to trim the reported output back to what the caller
\* provided" (compressor.h:1141-1142; getLastUncompressedSize(), which reports the
\* same field, "always matches what the caller passed in", compressor.h:267-268):
\* the blob the metadata are about comes back with the size compress() was given.
RoundTripSize == DecodedOwnBlob => last.size = blobs[last.blob].size

\* The same where no graph was replayed and compress() was not called again since,
\* whatever else was: reset(), decodes of other blobs and of files, calls that
\* threw, a capture that broke.  The padding is cut off exactly, and nothing else.
EagerRoundTripSize ==
    attempted = last.blob /\ (last.blob > 0 => blobs[last.blob].mode # "replay") =>
        RoundTripSize

\* A successful decompress() of the blob the pipeline's state is about runs an
\* inverse DAG of the right sizes with that blob's parameters; only a header of
\* another pipeline refused half-way, or a capture, can have spoilt them.
RoundTripRight == DecodedOwnBlob /\ params # Mixed => last.right

\* A file whose sizes are real holds one blob: payload, sizes, source size and
\* stage parameters are of the same compress(), failed calls in between or not.
ArchiveConsistent ==
    \A h \in archive : h.meta.kind = "actual" =>
        /\ h.data = h.meta.call
        /\ h.source = blobs[h.data].source
        /\ h.params \in {h.data, Mixed}

\* Documented use of getLastUncompressedSize(): a buffer of that many bytes is
\* large enough for decompress() of what was just compressed.
DocumentedCapacitySuffices ==
    (last.op = "decompress" /\ last.meta.kind = "actual") => last.capacity = 0
=============================================================================
