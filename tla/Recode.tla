------------------------------- MODULE Recode -------------------------------
(* The element-wise stages: ZigzagStage, NegabinaryStage and DifferenceStage *)
(* (first differences that restart at every chunk, re-coded to unsigned in   *)
(* the fused types), with the scans that undo the differences.               *)
(* stConf: [kind, size, bits, tail] for "zigzag" and "negabinary", `tail`    *)
(* bytes behind the last whole word; [kind |-> "difference", size, bits,     *)
(* chunk, tile, mode]: chunk in bytes, tile the threads of a scan block.     *)
EXTENDS StageBase

Wrap(x) == Signed(x, stConf.bits)

\* Zigzag<T>: shifted left, inverted when the sign bit is set.
ZigzagOf(x, w) == LET u == Unsigned(2 * x, w) IN IF x < 0 THEN 2^w - 1 - u ELSE u
UnZigzag(u, w) == IF u % 2 = 0 THEN u \div 2 ELSE Signed(2^w - 1 - u \div 2, w)
ZigzagWord(x) == ZigzagOf(x, stConf.bits)
UnzigzagWord(u) == UnZigzag(u, stConf.bits)

\* Negabinary<T>: MASK has the odd bits set.
BitOf(u, k) == (u \div 2^k) % 2
FromBitMap(w, bit) == SumSeq([k \in 1..w |-> bit[k - 1] * 2^(k - 1)])
MASK == FromBitMap(stConf.bits, [k \in 0..stConf.bits-1 |-> k % 2])
XorMask(u) ==
    FromBitMap(stConf.bits, [k \in 0..stConf.bits-1 |-> (BitOf(u, k) + k) % 2])
NegabinaryEncode(n) == XorMask(Unsigned(n + MASK, stConf.bits))
NegabinaryDecode(u) == Wrap(XorMask(u) - MASK)

\* The bytes behind the last whole word pass through.
WholeWords(x) == Max({0, Len(x) - stConf.tail})
ZigzagForward ==
    /\ StageReady("zigzag")
    /\ \E x \in StageInputs[stConf.data] :
        LET out == [i \in DOMAIN x |-> IF i <= WholeWords(x) THEN ZigzagWord(x[i]) ELSE x[i]]
            bytes == WholeWords(x) * stConf.size + (Len(x) - WholeWords(x))
        IN  ExecutedSized(x, [n |-> 0], "output" :> out, bytes, bytes)
ZigzagInverse ==
    /\ CanDecode("zigzag")
    /\ LET v == Section(stArchive, "output")
       IN  DecodedAs([i \in DOMAIN v |-> IF i <= WholeWords(v) THEN UnzigzagWord(v[i]) ELSE v[i]],
                     Len(v))

\* NegabinaryStage has no tail copy: its inputs are whole words.
NegabinaryForward ==
    /\ StageReady("negabinary")
    /\ \E x \in StageInputs[stConf.data] :
        ExecutedSized(x, [n |-> 0], "output" :> [i \in DOMAIN x |-> NegabinaryEncode(x[i])],
                      Len(x) * stConf.size, Len(x) * stConf.size)
NegabinaryInverse ==
    /\ CanDecode("negabinary")
    /\ LET v == Section(stArchive, "output")
       IN  DecodedAs([i \in DOMAIN v |-> NegabinaryDecode(v[i])], Len(v))

-----------------------------------------------------------------------------
\* Elements of a chunk; a chunk smaller than one element counts as none.
ChunkElems == stConf.chunk \div stConf.size
PowerOfTwo(n) == \E e \in 0..n : n = 2^e

Coded(v) == CASE stConf.mode = "plain" -> v
              [] stConf.mode = "negabinary" -> NegabinaryEncode(v)
              [] stConf.mode = "zigzag" -> ZigzagWord(v)
diffKernel(x, chunk) ==
    [i \in DOMAIN x |->
        Coded(IF i = 1 \/ (chunk > 0 /\ (i - 1) % chunk = 0) THEN x[i] ELSE Wrap(x[i] - x[i - 1]))]
fusionDecodePassKernel(v) ==
    [i \in DOMAIN v |-> IF stConf.mode = "negabinary" THEN NegabinaryDecode(v[i])
                                                      ELSE UnzigzagWord(v[i])]

\* One block walks its chunk in tiles and carries the sum of those before.
ScanTiles(v, tile) ==
    [i \in DOMAIN v |->
        LET first == ((i - 1) \div tile) * tile
        IN  Wrap(SumSeq(SubSeq(v, first + 1, i)) + Wrap(SumSeq(SubSeq(v, 1, first))))]
cumsumChunkedKernel(v, chunk) ==
    [i \in DOMAIN v |-> LET c == (i - 1) \div chunk + 1
                        IN  ScanTiles(PieceOf(v, chunk, c), stConf.tile)[i - (c - 1) * chunk]]
\* A global scan is a single chunk.
launchCumsum(v) == cumsumChunkedKernel(v, IF ChunkElems = 0 THEN Max({1, Len(v)}) ELSE ChunkElems)

DifferenceForward ==
    /\ StageReady("difference")
    /\ ChunkElems > 0 => PowerOfTwo(ChunkElems)
    /\ \E x \in StageInputs[stConf.data] :
        ExecutedSized(x, [n |-> 0], "output" :> diffKernel(x, ChunkElems),
                      Len(x) * stConf.size, Len(x) * stConf.size)
\* launchDiff throws; an empty input never gets that far.
DifferenceRefused ==
    /\ StageReady("difference")
    /\ ChunkElems > 0 /\ ~PowerOfTwo(ChunkElems)
    /\ \E x \in StageInputs[stConf.data] \ {<<>>} : Refused(x)
DifferenceInverse ==
    /\ CanDecode("difference")
    /\ LET v == Section(stArchive, "output")
       IN  DecodedAs(launchCumsum(IF stConf.mode = "plain" THEN v ELSE fusionDecodePassKernel(v)),
                     Len(v))

RecodeNext ==
    \/ ZigzagForward \/ ZigzagInverse
    \/ NegabinaryForward \/ NegabinaryInverse
    \/ DifferenceForward \/ DifferenceRefused \/ DifferenceInverse
=============================================================================
