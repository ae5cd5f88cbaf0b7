---------------------------- MODULE ChunkFusion -----------------------------
(* The chunk-cooperative fused kernel: one thread block takes a chunk from   *)
(* values to coded bytes in shared memory, where the staged pipeline runs    *)
(* quantizer, transforms and coder one after the other over the whole array. *)
(* The archive is the coder's own: the stages can decode it, and for one     *)
(* chain of stages a fused inverse can.                                      *)
(* stConf: [kind |-> "chunkfused", size, radius, threshold, inplace,         *)
(* transforms, coder, cap, capDen] with the fields of the transforms (bits,  *)
(* chunk, block, lanes, mode, tile) and of the Golomb-Rice coder.  A word    *)
(* has `size` bytes of FuseByte bits.  Values are integers below             *)
(* 2^(bits - 2), the bound is stConf.eb.                                     *)
EXTENDS Recode, Bitshuffle, GolombRice

CONSTANTS FuseByte, FuseThreads, FuseLanes, FuseParts

LC == INSTANCE LcChunk WITH Fan <- FuseByte, TPB <- FuseThreads, WS <- FuseLanes,
                           Garbage <- {0}, SubChunks <- FuseParts

\* __float_as_uint: the sign, an exponent that is not 0, the magnitude.
FloatBits(x) ==
    (IF x < 0 THEN 2^(stConf.bits - 1) ELSE 0) + 2^(stConf.bits - 2) + AbsOf(x)
FloatOf(u) ==
    LET m == u % 2^(stConf.bits - 2) IN IF u >= 2^(stConf.bits - 1) THEN -m ELSE m

\* __float2int_rn(x / (2 eb)): halves to even.
BinOf(x) ==
    LET b == 2 * stConf.eb
        lo == x \div b
        twice == 2 * (x % b)
    IN  IF twice > b \/ (twice = b /\ lo % 2 = 1) THEN lo + 1 ELSE lo
HasBin(x) == AbsOf(BinOf(x)) < stConf.radius /\ AbsOf(x) < stConf.threshold

QuantInplaceZigzag(x) == IF HasBin(x) THEN ZigzagWord(BinOf(x)) ELSE FloatBits(x)
QuantSplitOutlier(x) == IF HasBin(x) THEN ZigzagWord(BinOf(x)) ELSE 0
\* The lanes of a warp take consecutive slots; which warp comes first is open:
\* two of the orders.
SideOrders(x) ==
    LET lost == SelectSeq(Indices(Len(x)), LAMBDA i : ~HasBin(x[i]))
        warp(i) == (i - 1) \div stConf.lanes
        ofWarp(w) == SelectSeq(lost, LAMBDA i : warp(i) = w)
        warps == DivUp(Len(x), stConf.lanes)
    IN  IF stConf.inplace THEN {<<>>}
        ELSE {lost, FlattenSeq([w \in 1..warps |-> ofWarp(warps - w)])}

DiffPlain(s) == [i \in DOMAIN s |-> Unsigned(IF i = 1 THEN s[i] ELSE s[i] - s[i - 1], stConf.bits)]
DiffNegabinary(s) ==
    [i \in DOMAIN s |-> NegabinaryEncode(IF i = 1 THEN s[i] ELSE s[i] - s[i - 1])]
\* Only a full chunk has its bits transposed.
Bitshuffle32(s) ==
    IF Len(s) < NChunk THEN s
    ELSE LET planes == bitshuffleEncodeKernel32(s) IN [j \in 1..NChunk |-> FromBits(planes[j - 1])]
Transformed(s, op) ==
    CASE op = "DiffPlain" -> DiffPlain(s) @@ <<>>
      [] op = "DiffNegabinary" -> DiffNegabinary(s) @@ <<>>
      [] op = "Bitshuffle32" -> Bitshuffle32(s) @@ <<>>
\* The transforms in turn, between two buffers.
Chain(s) == FoldLeft(Transformed, s, stConf.transforms)

\* Deltas are zigzagged here, after DiffPlain; refused unless it shrinks.
Shrunk(coded) == IF coded.raw THEN LC!Failed ELSE [ok |-> TRUE, out |-> coded, size |-> coded.bytes]
GolombRiceCoder(words) == Shrunk(golombRiceEncodeKernel([i \in DOMAIN words |-> Wrap(words[i])]))

CoderOp(in) ==
    CASE stConf.coder = "RZECoder" -> LC!d_RZE(in, stConf.chunk, 1)
      [] stConf.coder = "RRECoder" -> LC!d_RRE(in, stConf.chunk, 1)
      [] stConf.coder = "RARECoder" -> LC!d_RARE(in, stConf.chunk, 1)
      [] stConf.coder = "RAZECoder" -> LC!d_RAZE(in, stConf.chunk, 1)
      [] stConf.coder = "CLOGCoder" -> LC!d_CLOG(in, stConf.chunk, 1)
      [] stConf.coder = "HCLOGCoder" -> LC!d_HCLOG(in, stConf.chunk, 1)
WithSize(coded) == IF coded.ok THEN coded @@ [size |-> Len(coded.out)] ELSE coded
LcCoded(in) == WithSize(CoderOp(in))
EncodedWords(words) ==
    IF stConf.coder = "GolombRiceCoder" THEN GolombRiceCoder(words)
                                        ELSE LcCoded(LC!WordBytes(words, stConf.size))

\* What a chunk leaves in its slot of the scratch, and its entry of `sizes`.
StoredAs(words, coded) ==
    IF coded.ok /\ coded.size < Len(words) * stConf.size
      THEN [raw |-> FALSE, bytes |-> coded.size, data |-> coded.out]
      ELSE [raw |-> TRUE, bytes |-> Len(words) * stConf.size, data |-> words]
StoredWords(words) == StoredAs(words, EncodedWords(words))
chunk_fused_body(chunk) ==
    StoredWords(Chain([i \in DOMAIN chunk |->
        IF stConf.inplace THEN QuantInplaceZigzag(chunk[i]) ELSE QuantSplitOutlier(chunk[i])] @@ <<>>))

FuseHeader(nc) == 8 + 4 * nc
\* Chunks behind the header of sizes, padded to whole words.
packChunks(stored, bytes) ==
    LET nc == Len(stored)
        off == ExclusiveSums([c \in 1..nc |-> stored[c].bytes])
    IN  [archive |-> (0 :> <<bytes, nc>>)
                     @@ (8 :> [c \in 1..nc |-> [raw |-> stored[c].raw, bytes |-> stored[c].bytes]])
                     @@ [at \in {FuseHeader(nc) + off[c] : c \in 1..nc} |->
                            stored[CHOOSE c \in 1..nc : FuseHeader(nc) + off[c] = at].data],
         bytes |-> Align4(FuseHeader(nc) + off[nc + 1])]

FuseChunks(n) == DivUp(n, ChunkElems)
launchGenericChunkFusion(x) ==
    packChunks([c \in 1..FuseChunks(Len(x)) |-> chunk_fused_body(PieceOf(x, ChunkElems, c))] @@ <<>>,
               Len(x) * stConf.size)

\* The buffer was sized by the coder stage.
CoderEstimate(n) ==
    IF stConf.coder = "GolombRiceCoder" THEN GrEstimate(n * stConf.size)
    ELSE Align4(n * stConf.size + FuseHeader(FuseChunks(n)))
\* The side outputs of the quantizer, next to the sections of the archive.
OutlierVals == -1
OutlierIdxs == -2
SideMax(n) == DivUp(n * stConf.cap, stConf.capDen)
Spilled(x, order) == Len(order) > SideMax(Len(x)) /\ stConf.cap > 0
SideOutputs(x, order) ==
    LET kept == SubSeq(order, 1, Min({Len(order), SideMax(Len(x))}))
    IN  (OutlierVals :> [s \in DOMAIN kept |-> x[kept[s]]]) @@ (OutlierIdxs :> kept)

FusedAs(x, packed, side) ==
    ExecutedSized(x, [n |-> Len(x) * stConf.size, count |-> Len(side[OutlierIdxs])],
                  side @@ packed.archive, CoderEstimate(Len(x)), packed.bytes)
runChunkCooperative ==
    /\ StageReady("chunkfused")
    /\ \E x \in StageInputs[stConf.data] \ {<<>>} : \E order \in SideOrders(x) :
        /\ ~Spilled(x, order)
        /\ FusedAs(x, launchGenericChunkFusion(x), SideOutputs(x, order))
\* Nothing is launched; the counts are reported as 0.
runChunkCooperativeEmpty ==
    /\ StageReady("chunkfused")
    /\ <<>> \in StageInputs[stConf.data]
    /\ ExecutedSized(<<>>, [n |-> 0, count |-> 0], <<>>, CoderEstimate(0), 0)
\* Outliers were lost, and that was not asked for.
runChunkCooperativeThrows ==
    /\ StageReady("chunkfused")
    /\ \E x \in StageInputs[stConf.data] :
        (\E order \in SideOrders(x) : Spilled(x, order)) /\ Refused(x)

-----------------------------------------------------------------------------
\* Code to value: in place, a code past the radius is the value itself.
DequantizedCode(u) ==
    IF stConf.inplace /\ u \div 2 >= stConf.radius THEN FloatOf(u)
    ELSE 2 * stConf.eb * (IF u % 2 = 0 THEN u \div 2 ELSE -((u + 1) \div 2))
scatter_pfpl_outliers(out) ==
    LET vals == Section(stArchive, OutlierVals)
        idxs == Section(stArchive, OutlierIdxs)
    IN  [i \in DOMAIN out |->
           IF \E s \in 1..stMem.count : idxs[s] = i
             THEN vals[CHOOSE s \in 1..stMem.count : idxs[s] = i] ELSE out[i]]
\* What both decoders find of chunk c.
EntryOf(c) == stArchive[8][c]
PayloadOf(c) ==
    LET nc == stArchive[0][2]
    IN  Section(stArchive, FuseHeader(nc) + SumSeq([k \in 1..(c - 1) |-> EntryOf(k).bytes]))
WordsOfChunk(c, n) == Max({0, Min({ChunkElems, n - (c - 1) * ChunkElems})})

\* findFusedImpl() has an inverse kernel for this chain only.
matchesChunkCooperativeInverse ==
    stConf.coder = "RZECoder" /\ stConf.transforms = <<"DiffNegabinary", "Bitshuffle32">>
Unshuffled(words) ==
    IF Len(words) < NChunk THEN words
    ELSE LET e == bitshuffleDecodeKernel32([j \in 0..NChunk-1 |-> ToBits(words[j + 1])] @@ <<>>)
         IN  [i \in 1..NChunk |-> FromBits(e[i - 1])]
\* The tiles of a chunk are scanned in turn, the carry in front of the next.
SummedUp(words) ==
    LET sums == ScanTiles([i \in DOMAIN words |-> NegabinaryDecode(words[i])] @@ <<>>, FuseThreads)
    IN  [i \in DOMAIN words |-> DequantizedCode(Unsigned(sums[i], stConf.bits))]
chunk_inverse_pfpl_body(c, n) ==
    SummedUp(Unshuffled(
        IF EntryOf(c).raw THEN PayloadOf(c)
        ELSE LC!WordsIn(LC!d_iRZE(PayloadOf(c), stConf.chunk, 1, 0), n, stConf.size)) @@ <<>>)

launchFusedChunkPfplInverse ==
    FlattenSeq([c \in 1..FuseChunks(stMem.n \div stConf.size) |->
                  chunk_inverse_pfpl_body(c, WordsOfChunk(c, stMem.n \div stConf.size))])
runChunkCooperativeInverse ==
    /\ CanDecode("chunkfused")
    /\ matchesChunkCooperativeInverse
    /\ DecodedAs(scatter_pfpl_outliers(launchFusedChunkPfplInverse), stMem.n \div stConf.size)

-----------------------------------------------------------------------------
\* The stages decode the same archive one after the other.
LcDecoded(bytes) ==
    CASE stConf.coder = "RZECoder" -> LC!d_iRZE(bytes, stConf.chunk, 1, 0)
      [] stConf.coder = "RRECoder" -> LC!d_iRRE(bytes, stConf.chunk, 1, 0)
      [] stConf.coder = "RARECoder" -> LC!d_iRARE(bytes, stConf.chunk, 1, 0)
      [] stConf.coder = "RAZECoder" -> LC!d_iRAZE(bytes, stConf.chunk, 1, 0)
      [] stConf.coder = "CLOGCoder" -> LC!d_iCLOG(bytes, stConf.chunk, 1)
      [] stConf.coder = "HCLOGCoder" -> LC!d_iHCLOG(bytes, stConf.chunk, 1)
DecodedChunk(c, n) ==
    IF EntryOf(c).raw THEN PayloadOf(c)
    ELSE IF stConf.coder = "GolombRiceCoder" THEN golombRiceDecodeKernel(PayloadOf(c), n)
    ELSE LC!WordsIn(LcDecoded(PayloadOf(c)), n, stConf.size)
Untransformed(v, op) ==
    CASE op = "DiffPlain" -> launchCumsum([i \in DOMAIN v |-> Wrap(v[i])] @@ <<>>)
      [] op = "DiffNegabinary" -> launchCumsum([i \in DOMAIN v |-> NegabinaryDecode(v[i])] @@ <<>>)
      [] op = "Bitshuffle32" ->
            FlattenSeq([c \in 1..FuseChunks(Len(v)) |-> Unshuffled(PieceOf(v, NChunk, c))])
StagedValues(v) == [i \in DOMAIN v |-> DequantizedCode(Unsigned(v[i], stConf.bits))]
ChunkStagedInverse ==
    /\ CanDecode("chunkfused")
    /\ LET n == stMem.n \div stConf.size
           words == FlattenSeq([c \in 1..FuseChunks(n) |-> DecodedChunk(c, WordsOfChunk(c, n))])
       IN  DecodedAs(scatter_pfpl_outliers(StagedValues(
               FoldLeft(Untransformed, words, Reverse(stConf.transforms)))), n)

ChunkFusionNext ==
    \/ runChunkCooperative \/ runChunkCooperativeEmpty \/ runChunkCooperativeThrows
    \/ runChunkCooperativeInverse \/ ChunkStagedInverse
=============================================================================
