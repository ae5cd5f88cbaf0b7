------------------------------ MODULE LcStage -------------------------------
(* The six LC stages (RREStage, RZEStage, RAREStage, RAZEStage, CLOGStage,   *)
(* HCLOGStage) around the chunk coders of LcChunk: a stage object            *)
(* encodes every chunk into a uniform scratch slot it keeps between calls,   *)
(* scans the stored sizes, packs the chunks behind a header and learns the   *)
(* size of the archive only after the stream has synchronised.  The inverse  *)
(* walks the header.  The output buffer is reused by the next call and is    *)
(* not cleared.                                                              *)
EXTENDS LcChunk

CONSTANTS LcCoders,      \* subset of {"RRE", "RZE", "RARE", "RAZE", "CLOG", "HCLOG"}
          LcGeometries,  \* records [C, W]: chunk_size_ and word_size_
          LcInputs,      \* byte strings given to execute()
          LcCalls        \* number of execute() calls on one stage object

VARIABLES lcCoder, lcGeo,
          lcCall, lcIn,       \* the call and its input
          lcPhase,            \* "idle", "executed", "read", "decoded"
          lcScratch,          \* d_scratch_: chunk slot -> bytes
          lcCapacity,         \* scratch_capacity_, in chunks
          lcHeader,           \* [orig, entries] as written to the archive
          lcPayload,          \* bytes behind the header, stale ones included
          lcActual,           \* actual_output_size_
          lcOut               \* what the inverse wrote

lcVars == <<lcCoder, lcGeo, lcCall, lcIn, lcPhase, lcScratch, lcCapacity,
            lcHeader, lcPayload, lcActual, lcOut>>

\* One encode and one decode kernel per stage.
Stored(enc, chunk) ==
    IF enc.ok /\ Len(enc.out) < Len(chunk) THEN [raw |-> FALSE, bytes |-> enc.out]
                                           ELSE [raw |-> TRUE, bytes |-> chunk]
rreEncodeKernel(chunk, C, W) == Stored(d_RRE(chunk, C, W), chunk)
rzeEncodeKernel(chunk, C, W) == Stored(d_RZE(chunk, C, W), chunk)
rareEncodeKernel(chunk, C, W) == Stored(d_RARE(chunk, C, W), chunk)
razeEncodeKernel(chunk, C, W) == Stored(d_RAZE(chunk, C, W), chunk)
clogEncodeKernel(chunk, C, W) == Stored(d_CLOG(chunk, C, W), chunk)
hclogEncodeKernel(chunk, C, W) == Stored(d_HCLOG(chunk, C, W), chunk)

rreDecodeKernel(bytes, orig, C, W, g) == SubSeq(d_iRRE(bytes, C, W, g), 1, orig)
rzeDecodeKernel(bytes, orig, C, W, g) == SubSeq(d_iRZE(bytes, C, W, g), 1, orig)
rareDecodeKernel(bytes, orig, C, W, g) == SubSeq(d_iRARE(bytes, C, W, g), 1, orig)
razeDecodeKernel(bytes, orig, C, W, g) == SubSeq(d_iRAZE(bytes, C, W, g), 1, orig)
clogDecodeKernel(bytes, orig, C, W) == SubSeq(d_iCLOG(bytes, C, W), 1, orig)
hclogDecodeKernel(bytes, orig, C, W) == SubSeq(d_iHCLOG(bytes, C, W), 1, orig)

NumChunks(n) == CeilDiv(n, lcGeo.C)
ChunkOf(data, i) == SubSeq(data, (i - 1) * lcGeo.C + 1, Min({i * lcGeo.C, Len(data)}))
HeaderBytes(n) == 4 + 4 + 4 * n
PadTo4(n) == 4 * CeilDiv(n, 4)
\* Mutant: the padding is not in the estimate.
estimateUnpadded(n) == n + HeaderBytes(NumChunks(n))
estimateOutputSizes(n) == PadTo4(n + HeaderBytes(NumChunks(n)))

\* Exclusive sum of the sizes with the flag bit stripped.
Offset(entries, i) == SumOver(1..i-1, LAMBDA k : entries[k].size)

LcInit ==
    /\ lcCoder \in LcCoders
    /\ lcGeo \in LcGeometries
    /\ lcCall = 0
    /\ lcIn = <<>>
    /\ lcPhase = "idle"
    /\ lcScratch = <<>>
    /\ lcCapacity = 0
    /\ lcHeader = [orig |-> 0, entries |-> <<>>]
    /\ lcPayload = <<>>
    /\ lcActual = 0
    /\ lcOut = <<>>

\* rzePackKernel: chunk i goes to its offset behind the header; bytes past the
\* last chunk keep what an earlier call left there.
PackedPayload(stored) ==
    LET packed == FlattenSeq([i \in DOMAIN stored |-> stored[i].bytes])
    IN  packed \o SubSeq(lcPayload, Len(packed) + 1, Len(lcPayload))

\* execute() forward: scratch grows only when there are more chunks than ever.
ForwardExecute(data, encoded) ==
    /\ lcCall < LcCalls
    /\ lcPhase \in {"idle", "decoded"}
    /\ data # <<>>
    /\ \E stored \in {encoded} :
       LET n == Len(stored)
           entries == [i \in 1..n |-> [raw |-> stored[i].raw, size |-> Len(stored[i].bytes)]]
       IN  /\ lcCapacity' = Max({lcCapacity, n})
           /\ lcScratch' = [i \in 1..n |-> stored[i].bytes] \o SubSeq(lcScratch, n + 1, lcCapacity)
           /\ lcHeader' = [orig |-> Len(data), entries |-> entries]
           /\ lcPayload' = PackedPayload(stored)
    /\ lcCall' = lcCall + 1
    /\ lcIn' = data
    /\ lcPhase' = "executed"
    /\ UNCHANGED <<lcCoder, lcGeo, lcActual, lcOut>>

\* An empty input writes nothing.
ForwardEmpty ==
    /\ lcCall < LcCalls
    /\ lcPhase \in {"idle", "decoded"}
    /\ lcCall' = lcCall + 1
    /\ lcIn' = <<>>
    /\ lcHeader' = [orig |-> 0, entries |-> <<>>]
    /\ lcActual' = 0
    /\ lcPhase' = "read"
    /\ UNCHANGED <<lcCoder, lcGeo, lcScratch, lcCapacity, lcPayload, lcOut>>

\* postStreamSync(), or getActualOutputSizesByName() if it comes first: the
\* last offset and the last size give the total, zeros pad it to 4 bytes.
TailReadback ==
    LET n == Len(lcHeader.entries)
        total == HeaderBytes(n) + Offset(lcHeader.entries, n) + lcHeader.entries[n].size
        used == total - HeaderBytes(n)
        padded == PadTo4(total) - HeaderBytes(n)
    IN  /\ lcPhase = "executed"
        /\ lcActual' = PadTo4(total)
        /\ lcPayload' = [p \in 1..Max({Len(lcPayload), padded}) |->
                            IF p > used /\ p <= padded THEN 0 ELSE lcPayload[p]]
        /\ lcPhase' = "read"
        /\ UNCHANGED <<lcCoder, lcGeo, lcCall, lcIn, lcScratch, lcCapacity, lcHeader, lcOut>>

\* execute() inverse on the lcActual bytes the pipeline hands over: a cursor
\* walks the stored sizes, every chunk but the last restores C bytes.
OrigSize(i) ==
    IF i < Len(lcHeader.entries) THEN lcGeo.C ELSE lcHeader.orig - (i - 1) * lcGeo.C
Entries == DOMAIN lcHeader.entries
Blob == SubSeq(lcPayload, 1, lcActual - HeaderBytes(Len(lcHeader.entries)))
IsRaw(i) == lcHeader.entries[i].raw
\* Mutant: the cursor is not applied to a chunk stored raw.
RawBytesAtStart(i) == SubSeq(Blob, 1, OrigSize(i))
RawBytes(i) ==
    LET at == Offset(lcHeader.entries, i) IN SubSeq(Blob, at + 1, at + OrigSize(i))
StoredBytes(i) ==
    LET at == Offset(lcHeader.entries, i)
    IN  SubSeq(Blob, at + 1, at + lcHeader.entries[i].size)

InverseExecuteLc(restored) ==
    /\ lcPhase = "read"
    /\ lcOut' = IF lcActual = 0 THEN <<>> ELSE FlattenSeq(restored)
    /\ lcPhase' = "decoded"
    /\ UNCHANGED <<lcCoder, lcGeo, lcCall, lcIn, lcScratch, lcCapacity, lcHeader,
                   lcPayload, lcActual>>

\* The stages repeat these steps, each in a source file of its own, around
\* their encode and decode kernels.
RREForward ==
    /\ lcCoder = "RRE"
    /\ \/ ForwardEmpty
       \/ \E data \in LcInputs : ForwardExecute(data,
             [i \in 1..NumChunks(Len(data)) |-> rreEncodeKernel(ChunkOf(data, i), lcGeo.C, lcGeo.W)])
RREPostStreamSync == lcCoder = "RRE" /\ TailReadback
RREInverse ==
    /\ lcCoder = "RRE"
    /\ \E g \in Garbage : InverseExecuteLc([i \in Entries |->
          IF IsRaw(i) THEN RawBytes(i)
          ELSE rreDecodeKernel(StoredBytes(i), OrigSize(i), lcGeo.C, lcGeo.W, g)])

RZEForward ==
    /\ lcCoder = "RZE"
    /\ \/ ForwardEmpty
       \/ \E data \in LcInputs : ForwardExecute(data,
             [i \in 1..NumChunks(Len(data)) |-> rzeEncodeKernel(ChunkOf(data, i), lcGeo.C, lcGeo.W)])
RZEPostStreamSync == lcCoder = "RZE" /\ TailReadback
RZEInverse ==
    /\ lcCoder = "RZE"
    /\ \E g \in Garbage : InverseExecuteLc([i \in Entries |->
          IF IsRaw(i) THEN RawBytes(i)
          ELSE rzeDecodeKernel(StoredBytes(i), OrigSize(i), lcGeo.C, lcGeo.W, g)])

RAREForward ==
    /\ lcCoder = "RARE"
    /\ \/ ForwardEmpty
       \/ \E data \in LcInputs : ForwardExecute(data,
             [i \in 1..NumChunks(Len(data)) |-> rareEncodeKernel(ChunkOf(data, i), lcGeo.C, lcGeo.W)])
RAREPostStreamSync == lcCoder = "RARE" /\ TailReadback
RAREInverse ==
    /\ lcCoder = "RARE"
    /\ \E g \in Garbage : InverseExecuteLc([i \in Entries |->
          IF IsRaw(i) THEN RawBytes(i)
          ELSE rareDecodeKernel(StoredBytes(i), OrigSize(i), lcGeo.C, lcGeo.W, g)])

RAZEForward ==
    /\ lcCoder = "RAZE"
    /\ \/ ForwardEmpty
       \/ \E data \in LcInputs : ForwardExecute(data,
             [i \in 1..NumChunks(Len(data)) |-> razeEncodeKernel(ChunkOf(data, i), lcGeo.C, lcGeo.W)])
RAZEPostStreamSync == lcCoder = "RAZE" /\ TailReadback
RAZEInverse ==
    /\ lcCoder = "RAZE"
    /\ \E g \in Garbage : InverseExecuteLc([i \in Entries |->
          IF IsRaw(i) THEN RawBytes(i)
          ELSE razeDecodeKernel(StoredBytes(i), OrigSize(i), lcGeo.C, lcGeo.W, g)])

CLOGForward ==
    /\ lcCoder = "CLOG"
    /\ \/ ForwardEmpty
       \/ \E data \in LcInputs : ForwardExecute(data,
             [i \in 1..NumChunks(Len(data)) |-> clogEncodeKernel(ChunkOf(data, i), lcGeo.C, lcGeo.W)])
CLOGPostStreamSync == lcCoder = "CLOG" /\ TailReadback
CLOGInverse ==
    /\ lcCoder = "CLOG"
    /\ InverseExecuteLc([i \in Entries |->
          IF IsRaw(i) THEN RawBytes(i)
          ELSE clogDecodeKernel(StoredBytes(i), OrigSize(i), lcGeo.C, lcGeo.W)])

HCLOGForward ==
    /\ lcCoder = "HCLOG"
    /\ \/ ForwardEmpty
       \/ \E data \in LcInputs : ForwardExecute(data,
             [i \in 1..NumChunks(Len(data)) |-> hclogEncodeKernel(ChunkOf(data, i), lcGeo.C, lcGeo.W)])
HCLOGPostStreamSync == lcCoder = "HCLOG" /\ TailReadback
HCLOGInverse ==
    /\ lcCoder = "HCLOG"
    /\ InverseExecuteLc([i \in Entries |->
          IF IsRaw(i) THEN RawBytes(i)
          ELSE hclogDecodeKernel(StoredBytes(i), OrigSize(i), lcGeo.C, lcGeo.W)])

LcNext ==
    \/ RREForward \/ RREPostStreamSync \/ RREInverse
    \/ RZEForward \/ RZEPostStreamSync \/ RZEInverse
    \/ RAREForward \/ RAREPostStreamSync \/ RAREInverse
    \/ RAZEForward \/ RAZEPostStreamSync \/ RAZEInverse
    \/ CLOGForward \/ CLOGPostStreamSync \/ CLOGInverse
    \/ HCLOGForward \/ HCLOGPostStreamSync \/ HCLOGInverse

LcSpec == LcInit /\ [][LcNext]_lcVars

-----------------------------------------------------------------------------
(* Every LC stage is lossless: whatever the chunk boundaries, the words left *)
(* over, the chunks stored raw and the bytes an earlier call left in scratch *)
(* and output, the inverse restores the input of its own call.               *)
LcLossless == lcPhase = "decoded" => lcOut = lcIn

(* The archive, its padding to 4 bytes included, fits the buffer allocated   *)
(* from estimateOutputSizes(), and no chunk overruns its scratch slot.       *)
LcFits ==
    /\ lcPhase = "read" /\ lcIn # <<>> => lcActual <= estimateOutputSizes(Len(lcIn))
    /\ \A i \in DOMAIN lcScratch : Len(lcScratch[i]) <= lcGeo.C
=============================================================================
