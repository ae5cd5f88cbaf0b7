-------------------------- MODULE AdaptiveBitpack ---------------------------
(* AdaptiveBitpackStage: every block of elements is stored as a plane of     *)
(* signs and as many bit planes as its largest magnitude needs.  With        *)
(* outlier selection the block's first element may be stored by itself in    *)
(* front of the planes.  Three kernels write the same layout (one thread per *)
(* block; a warp that ballots; a warp that transposes its lanes' bits in     *)
(* registers once the rate reaches a threshold) and three read it, chosen by *)
(* block size, environment and rate, independently on the two sides.         *)
(* stConf: [kind |-> "adaptive", size, bits, block, outlier, lanes, byte,    *)
(* scalar, encodeTr, decodeTr]: `lanes` of a warp, `byte` bits in a byte.    *)
(* stMem: [n, blocks, sizes]: num_elements_, fwd_num_blocks_ and d_cost_.    *)
EXTENDS StageBase

absU(v) == AbsOf(v)
applySign(mag, neg) == Signed(IF neg THEN -mag ELSE mag, stConf.bits)
bitWidth32(x) == IF x = 0 THEN 0 ELSE 1 + Max({b \in 0..stConf.bits : x >= 2^b})
HasBit(x, b) == (x \div 2^b) % 2 = 1
ToBits(x) == {b \in 0..stConf.bits : HasBit(x, b)}
FromBits(S) == MapThenSumSet(LAMBDA b : 2^b, S)

word_bytes == DivUp(stConf.block, stConf.byte)
meta_bytes == IF stConf.outlier THEN 2 ELSE 1
AbBlocks(n) == DivUp(n, stConf.block)
maxArchiveBytes(n) == AbBlocks(n) * (meta_bytes + word_bytes * (stConf.bits + 1))

\* The stage quotes a block before it packs it: the rate is the width of the
\* OR of its magnitudes, from element `from` on.
OrOf(block, members) == UNION {ToBits(absU(block[i])) : i \in members}
WidthOf(bits) == bitWidth32(FromBits(bits))
ThreadWidth(block, from) == WidthOf(OrOf(block, from..Len(block)))
\* Every lane ORs its own elements, then the warp ORs the lanes.
LaneIndex(m, l) == stConf.lanes * m + l
LaneIds == 0..stConf.lanes-1
Words == 0..DivUp(stConf.block, stConf.lanes)-1
WarpWidth(block, from) ==
    LET mine(l) == {LaneIndex(m, l) + 1 : m \in Words} \cap (from..Len(block))
    IN  WidthOf(UNION {OrOf(block, mine(l)) : l \in LaneIds})

WarpSized == stConf.block \in {stConf.lanes, 2 * stConf.lanes}
PlaneCost(rate) == IF rate > 0 THEN word_bytes * (rate + 1) ELSE 0
encode_rate(block) == [rate |-> ThreadWidth(block, 1), out |-> FALSE, ob |-> 0]
encode_rate_warp(block) == [rate |-> WarpWidth(block, 1), out |-> FALSE, ob |-> 0]
launchEncodeRate(block) == IF WarpSized /\ ~stConf.scalar THEN encode_rate_warp(block) ELSE encode_rate(block)

\* Plain unless taking the first element out is strictly cheaper.
OutlierChoice(first, all, rest) ==
    LET ob == DivUp(bitWidth32(first), stConf.byte)
        costOut == ob + (IF rest > 0 THEN PlaneCost(rest) ELSE word_bytes)
    IN  IF PlaneCost(all) <= costOut THEN [rate |-> all, out |-> FALSE, ob |-> 0]
                                     ELSE [rate |-> rest, out |-> TRUE, ob |-> ob]
encode_rate_outlier(block) ==
    OutlierChoice(absU(block[1]), ThreadWidth(block, 1), ThreadWidth(block, 2))
encode_rate_outlier_warp(block) ==
    OutlierChoice(absU(block[1]), WarpWidth(block, 1), WarpWidth(block, 2))
launchEncodeRateOutlier(block) ==
    IF WarpSized THEN encode_rate_outlier_warp(block) ELSE encode_rate_outlier(block)
decode_cost(q) == PlaneCost(q.rate)
decode_cost_outlier(q) ==
    IF q.out THEN q.ob + (IF q.rate > 0 THEN PlaneCost(q.rate) ELSE word_bytes) ELSE PlaneCost(q.rate)

-----------------------------------------------------------------------------
\* A block's payload is the set of its bits that are 1: bit j of byte k is
\* stConf.byte * k + j.  Row 0 holds the signs, row p + 1 plane p; `at` is the
\* byte where the rows start.
BitAt(at, row, k, j) == stConf.byte * (at + word_bytes * row + k) + j
BallotBytes == stConf.lanes \div stConf.byte
\* Value bits by row: the signs and the planes of the elements from `first`.
RowBit(block, first, row, i) ==
    i <= Len(block) /\ IF row = 0 THEN block[i] < 0 ELSE i >= first /\ HasBit(absU(block[i]), row - 1)

\* One thread packs byte by byte.
encode_pack(block, first, at, rate) ==
    {BitAt(at, r[1], r[2], r[3]) :
        r \in {s \in (0..rate) \X (0..word_bytes-1) \X (0..stConf.byte-1) :
                  RowBit(block, first, s[1], s[2] * stConf.byte + s[3] + 1)}}

\* A ballot over the lanes gives a word of a row; the first lanes store its bytes.
Ballot(block, first, row, m) == {l \in LaneIds : RowBit(block, first, row, LaneIndex(m, l) + 1)}
StoreWord(at, row, m, word) ==
    {BitAt(at, row, BallotBytes * m + b \div stConf.byte, b % stConf.byte) : b \in word}
encode_pack_warp(block, first, at, rows) ==
    UNION {StoreWord(at, s[1], s[2], Ballot(block, first, s[1], s[2])) : s \in rows \X Words}

\* One butterfly step exchanges bits with the lane whose number differs in bit s.
TransposeStep(v, s) ==
    [l \in LaneIds |->
        IF HasBit(l, s) THEN {b \in v[l] : HasBit(b, s)} \cup {b - 2^s : b \in {c \in v[l - 2^s] : HasBit(c, s)}}
                        ELSE {b \in v[l] : ~HasBit(b, s)} \cup {b + 2^s : b \in {c \in v[l + 2^s] : ~HasBit(c, s)}}]
warpBitTranspose32(v) ==
    FoldLeft(LAMBDA acc, s : TransposeStep(acc, s - 1), v,
             Indices(Cardinality({b \in 0..stConf.lanes : 2^b < stConf.lanes})))

\* The transposed lane l is plane l.
encode_pack_warp_tr(block, first, at, rate) ==
    LET magnitudes(m) == [l \in LaneIds |-> LET i == LaneIndex(m, l) + 1
                                          IN  IF i <= Len(block) /\ i >= first THEN ToBits(absU(block[i])) ELSE {}]
    IN  encode_pack_warp(block, first, at, {0})
        \cup UNION {LET rows == warpBitTranspose32(magnitudes(m))
                    IN  UNION {StoreWord(at, l + 1, m, rows[l]) : l \in {k \in LaneIds : k < rate}} : m \in Words}

Transposes(threshold, rate) == threshold > 0 /\ rate >= threshold
launchEncodePack(block, q) ==
    IF q.rate = 0 THEN {}
    ELSE IF stConf.scalar \/ ~WarpSized THEN encode_pack(block, 1, 0, q.rate)
    ELSE IF Transposes(stConf.encodeTr, q.rate) THEN encode_pack_warp_tr(block, 1, 0, q.rate)
    ELSE encode_pack_warp(block, 1, 0, 0..q.rate)

\* The first magnitude in the leading bytes, then rows whose planes omit it.
encode_pack_outlier(block, q) ==
    IF q.out THEN ToBits(absU(block[1])) \cup encode_pack(block, 2, q.ob, q.rate)
             ELSE encode_pack(block, 1, 0, q.rate)
encode_pack_outlier_warp(block, q) ==
    IF q.out THEN ToBits(absU(block[1])) \cup encode_pack_warp(block, 2, q.ob, 0..q.rate)
             ELSE encode_pack_warp(block, 1, 0, 0..q.rate)
encode_pack_outlier_warp_tr(block, q) ==
    IF q.out THEN ToBits(absU(block[1])) \cup encode_pack_warp_tr(block, 2, q.ob, q.rate)
             ELSE encode_pack_warp_tr(block, 1, 0, q.rate)
launchEncodePackOutlier(block, q) ==
    IF ~q.out /\ q.rate = 0 THEN {}
    ELSE IF ~WarpSized THEN encode_pack_outlier(block, q)
    ELSE IF Transposes(stConf.encodeTr, q.rate) THEN encode_pack_outlier_warp_tr(block, q)
    ELSE encode_pack_outlier_warp(block, q)

\* Magnitude of element i, counted from 0.
decode_unpack(payload, at, rate, i) ==
    FromBits({p \in 0..rate-1 : BitAt(at, p + 1, i \div stConf.byte, i % stConf.byte) \in payload})
decode_unpack_warp(payload, at, rate, i) ==
    LET m == i \div stConf.lanes
        l == i % stConf.lanes
    IN  FromBits({p \in 0..rate-1 :
            BitAt(at, p + 1, BallotBytes * m + l \div stConf.byte, l % stConf.byte) \in payload})
decode_unpack_warp_tr(payload, at, rate, i) ==
    LET m == i \div stConf.lanes
        row(l) == {b \in LaneIds : BitAt(at, l + 1, BallotBytes * m + b \div stConf.byte, b % stConf.byte) \in payload}
        words == [l \in LaneIds |-> IF l < rate THEN row(l) ELSE {}]
    IN  FromBits(warpBitTranspose32(words)[i % stConf.lanes])
SignAt(payload, at, i) == BitAt(at, 0, i \div stConf.byte, i % stConf.byte) \in payload
launchDecodeUnpack(payload, q, i) ==
    applySign(IF stConf.scalar \/ ~WarpSized THEN decode_unpack(payload, 0, q.rate, i)
              ELSE IF Transposes(stConf.decodeTr, q.rate) THEN decode_unpack_warp_tr(payload, 0, q.rate, i)
              ELSE decode_unpack_warp(payload, 0, q.rate, i), SignAt(payload, 0, i))

OutlierMagnitude(payload, q) == FromBits({b \in payload : b < stConf.byte * q.ob})
decode_unpack_outlier(payload, q, i) ==
    IF q.out /\ i = 0 THEN OutlierMagnitude(payload, q) ELSE decode_unpack(payload, q.ob, q.rate, i)
decode_unpack_outlier_warp(payload, q, i) ==
    IF q.out /\ i = 0 THEN OutlierMagnitude(payload, q) ELSE decode_unpack_warp(payload, q.ob, q.rate, i)
decode_unpack_outlier_warp_tr(payload, q, i) ==
    IF q.out /\ i = 0 THEN OutlierMagnitude(payload, q) ELSE decode_unpack_warp_tr(payload, q.ob, q.rate, i)
launchDecodeUnpackOutlier(payload, q, i) ==
    applySign(IF ~WarpSized THEN decode_unpack_outlier(payload, q, i)
              ELSE IF Transposes(stConf.decodeTr, q.rate) THEN decode_unpack_outlier_warp_tr(payload, q, i)
              ELSE decode_unpack_outlier_warp(payload, q, i), SignAt(payload, q.ob, i))

\* A block of rate 0 has no payload and decodes to zeros.
DecodeBlock(payload, q, count) ==
    [i \in 1..count |-> IF ~q.out /\ q.rate = 0 THEN 0
                        ELSE IF stConf.outlier THEN launchDecodeUnpackOutlier(payload, q, i - 1)
                        ELSE launchDecodeUnpack(payload, q, i - 1)]

-----------------------------------------------------------------------------
Quote(block) == IF stConf.outlier THEN launchEncodeRateOutlier(block) ELSE launchEncodeRate(block)
EncodeBlock(block, q) ==
    IF stConf.outlier THEN launchEncodePackOutlier(block, q) ELSE launchEncodePack(block, q)
AbCost(q) == IF stConf.outlier THEN decode_cost_outlier(q) ELSE decode_cost(q)
CostSums(meta) == ExclusiveSums([b \in DOMAIN meta |-> AbCost(meta[b])])

\* An empty input leaves the block count of the last call, from which
\* postStreamSync() then derives the size.
AdaptiveForward ==
    /\ StageReady("adaptive")
    /\ \E x \in StageInputs[stConf.data] :
        LET nb == AbBlocks(Len(x))
            blocks == [b \in 1..nb |-> PieceOf(x, stConf.block, b)]
            meta == [b \in 1..nb |-> Quote(blocks[b])]
            offsets == CostSums(meta)
            start(b) == meta_bytes * nb + offsets[b]
            stored == {b \in 1..nb : AbCost(meta[b]) > 0}
        IN  IF x = <<>> THEN ExecutedSized(x, [stMem EXCEPT !.n = 0], <<>>, 0, 0)
            ELSE ExecutedAs(x, [n |-> Len(x), blocks |-> nb, total |-> offsets[nb + 1]],
                     (0 :> meta) @@ [at \in {start(b) : b \in stored} |->
                                        LET b == CHOOSE c \in stored : start(c) = at
                                        IN  EncodeBlock(blocks[b], meta[b])],
                     maxArchiveBytes(Len(x)))

AdaptivePostStreamSync ==
    SizedAs("adaptive", <<>>, meta_bytes * stMem.blocks + stMem.total)

\* The header has num_elements_, block size and selection; costs are
\* recomputed from the metadata.
AdaptiveInverse ==
    LET n == stMem.n
        nb == AbBlocks(n)
        meta == SubSeq(Section(stArchive, 0), 1, nb)
        offsets == CostSums(meta)
        count(b) == Min({stConf.block, n - (b - 1) * stConf.block})
    IN  /\ CanDecode("adaptive")
        /\ DecodedAs(IF n = 0 THEN <<>>
                     ELSE FlattenSeq([b \in 1..nb |->
                              DecodeBlock(Section(stArchive, meta_bytes * nb + offsets[b]), meta[b], count(b))]),
                     n)

AdaptiveNext == AdaptiveForward \/ AdaptivePostStreamSync \/ AdaptiveInverse
=============================================================================
