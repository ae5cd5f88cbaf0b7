-------------------------- MODULE AdaptiveLorenzo ---------------------------
(* AdaptiveLorenzoStage and FusedQuantAdaptiveLorenzoStage: every tile picks *)
(* the cheapest of four predictions (first or second differences, around 0   *)
(* or around the tile's mean), priced by what the bit-packing coder would    *)
(* write for each of its blocks.  The choice goes to the "modes" port, two   *)
(* bits a tile, and the means of the centred tiles, compacted, to "means".   *)
(* stConf: [kind |-> "alorenzo", size, bits, block, byte, lanes, perTile,    *)
(* order2, centering, outlier]: block elements (one warp) are one coder      *)
(* block, perTile blocks a tile; outlier: the coder quotes its first element *)
(* apart.  The fused kind "qalorenzo" has the error bound of "lquant" too.   *)
EXTENDS LorenzoQuant, AdaptiveBitpack

AlTile == stConf.block * stConf.perTile
AlTiles(n) == DivUp(n, AlTile)
\* What the coder writes for one block.
blockCost(block) ==
    IF stConf.outlier THEN decode_cost_outlier(encode_rate_outlier(block))
    ELSE decode_cost(encode_rate(block))
TileCost(r) == SumSeq([w \in 1..DivUp(Len(r), stConf.block) |-> blockCost(PieceOf(r, stConf.block, w))])

\* Warps sum their elements, then one warp the warps.
AlMean(v) ==
    IF ~stConf.centering THEN 0
    ELSE LET warp(w) == TreeSum(Padded(PieceOf(v, stConf.lanes, w), stConf.lanes))
         IN  Wrap(RoundedMean(TreeSum(Padded([w \in 1..DivUp(Len(v), stConf.lanes) |-> warp(w)],
                                             stConf.lanes)), Len(v)))
\* Order 2 and centering, as the two mode bits.
AlOrder2(mode) == mode % 2 = 1
AlCentered(mode) == mode >= 2
FirstDifferences(v) == lorenzo_delta_1d_kernel(v, AlTile)
\* The residuals of one mode: only the first two can differ when centred.
AlResiduals(v, mean, mode) ==
    LET d1 == FirstDifferences(v)
        plain == IF AlOrder2(mode) THEN FirstDifferences(d1) ELSE d1
        c0 == Wrap(v[1] - mean)
    IN  IF ~AlCentered(mode) THEN plain
        ELSE [i \in DOMAIN v |-> IF i = 1 THEN c0
                                 ELSE IF i = 2 /\ AlOrder2(mode) THEN Wrap(d1[2] - c0)
                                 ELSE plain[i]]
Candidates == {m \in 0..3 : (AlOrder2(m) => stConf.order2) /\ (AlCentered(m) => stConf.centering)}
AlCost(v, mean, mode) ==
    TileCost(AlResiduals(v, mean, mode)) + (IF AlCentered(mode) THEN stConf.size ELSE 0)
\* The first of the cheapest candidates.
PickMode(costs) ==
    Min({m \in Candidates : \A o \in Candidates : costs[m] <= costs[o]})
adaptive_lorenzo_forward_kernel(v) ==
    LET mean == AlMean(v)
        mode == PickMode([m \in Candidates |-> AlCost(v, mean, m)])
    IN  [mode |-> mode, mean |-> mean, residuals |-> AlResiduals(v, mean, mode)]

\* Four modes a byte, and the means of the centred tiles only.
packModes(modes) ==
    [b \in 1..DivUp(Len(modes), 4) |->
        SumSeq([k \in 1..Len(PieceOf(modes, 4, b)) |-> PieceOf(modes, 4, b)[k] * 4^(k - 1)])]
unpackMode(bytes, t) == (bytes[(t - 1) \div 4 + 1] \div 4^((t - 1) % 4)) % 4
AlFlags(modes) == [t \in DOMAIN modes |-> IF AlCentered(modes[t]) THEN 1 ELSE 0]
adaptive_lorenzo_compact(modes, means) ==
    LET offsets == ExclusiveSums(AlFlags(modes))
    IN  [o \in 1..offsets[Len(offsets)] |->
            means[CHOOSE t \in DOMAIN modes : offsets[t] = o - 1 /\ AlCentered(modes[t])]]
adaptive_lorenzo_flags(bytes, tiles) == AlFlags([t \in 1..tiles |-> unpackMode(bytes, t)])

\* One scan a difference, then the mean.
adaptive_lorenzo_inverse_kernel(r, mode, mean) ==
    LET once == SegmentPass(Padded(r, AlTile), 1)
        v == IF AlOrder2(mode) THEN SegmentPass(once, 1) ELSE once
    IN  [i \in DOMAIN r |-> Wrap(v[i] + (IF AlCentered(mode) THEN mean ELSE 0))]
launchAdaptiveLorenzoInverse(residuals, bytes, means) ==
    LET tiles == AlTiles(Len(residuals))
        offsets == ExclusiveSums(adaptive_lorenzo_flags(bytes, tiles))
    IN  FlattenSeq([t \in 1..tiles |->
            adaptive_lorenzo_inverse_kernel(PieceOf(residuals, AlTile, t), unpackMode(bytes, t),
                                            MeanOf(means, offsets[t] + 1))])

\* Bytes of the three ports with `means` means.
AlBytes(n, means) == (n + means) * stConf.size + DivUp(AlTiles(n), 4)
AlExecuted(x, tiles, mem) ==
    LET modes == [t \in DOMAIN tiles |-> tiles[t].mode]
    IN  ExecutedAs(x, mem,
                   ("output" :> FlattenSeq([t \in DOMAIN tiles |-> tiles[t].residuals]))
                   @@ ("modes" :> packModes(modes))
                   @@ ("means" :> adaptive_lorenzo_compact(modes, [t \in DOMAIN tiles |-> tiles[t].mean])),
                   AlBytes(Len(x), AlTiles(Len(x))))
TilesOf(v) == [t \in 1..AlTiles(Len(v)) |-> adaptive_lorenzo_forward_kernel(PieceOf(v, AlTile, t))]

AdaptiveLorenzoForward ==
    /\ StageReady("alorenzo")
    /\ \E x \in StageInputs[stConf.data] \ {<<>>} :
       \E tiles \in {TilesOf(x)} : AlExecuted(x, tiles, [n |-> Len(x)])
\* The size of the means is the last of the scanned flags.
AlPostStreamSync(kind) ==
    /\ Awaited(kind)
    /\ SizedAs(kind, <<>>, AlBytes(Len(stIn), Len(stArchive["means"])))
AdaptiveLorenzoPostStreamSync == AlPostStreamSync("alorenzo")
AlForwardEmpty(kind) ==
    /\ StageReady(kind)
    /\ <<>> \in StageInputs[stConf.data]
    /\ ExecutedSized(<<>>, stMem, "output" :> <<>>, 0, 0)
AdaptiveLorenzoForwardEmpty == AlForwardEmpty("alorenzo")
AlDecoded == launchAdaptiveLorenzoInverse(Section(stArchive, "output"), Section(stArchive, "modes"),
                                          Section(stArchive, "means"))
AdaptiveLorenzoInverse ==
    /\ CanDecode("alorenzo")
    /\ \E out \in {AlDecoded} : DecodedAs(out, Len(Section(stArchive, "output")))

-----------------------------------------------------------------------------
\* __float2int_rn: halves to even, saturating.
RoundEven(a, b) ==
    LET f == (2 * a + b) \div (2 * b)
    IN  IF (2 * a + b) % (2 * b) = 0 /\ f % 2 = 1 THEN f - 1 ELSE f
Saturated(q) == Max({-(2^(stConf.bits - 1)), Min({q, 2^(stConf.bits - 1) - 1})})
float2int_rn(x, num) == Saturated(RoundEven(x * stConf.den, 2 * num))
QuantAdaptiveLorenzoForward ==
    /\ StageReady("qalorenzo")
    /\ \E x \in StageInputs[stConf.data] \ {<<>>} : \E num \in {AbsNumerator(x)} :
       \E v \in {[i \in DOMAIN x |-> float2int_rn(x[i], num)]} :
       \E tiles \in {TilesOf(v)} : AlExecuted(x, tiles, [num |-> num])
QuantAdaptiveLorenzoForwardEmpty == AlForwardEmpty("qalorenzo")
QuantAdaptiveLorenzoPostStreamSync == AlPostStreamSync("qalorenzo")
linear_dequant_kernel(codes) ==
    [i \in DOMAIN codes |-> (codes[i] * 2 * stMem.num) \div stConf.den]
QuantAdaptiveLorenzoInverse ==
    /\ CanDecode("qalorenzo")
    /\ \E codes \in {AlDecoded} :
        DecodedAs(IF codes = <<>> THEN <<>> ELSE linear_dequant_kernel(codes),
                  Len(Section(stArchive, "output")))

AdaptiveLorenzoNext ==
    \/ AdaptiveLorenzoForward \/ AdaptiveLorenzoForwardEmpty
    \/ AdaptiveLorenzoPostStreamSync \/ AdaptiveLorenzoInverse
    \/ QuantAdaptiveLorenzoForward \/ QuantAdaptiveLorenzoForwardEmpty
    \/ QuantAdaptiveLorenzoPostStreamSync \/ QuantAdaptiveLorenzoInverse
=============================================================================
