----------------------------- MODULE Bitshuffle -----------------------------
(* BitshuffleStage: the bits of every chunk are transposed into bit planes,  *)
(* most significant first, by a warp that exchanges bits in registers (4-    *)
(* and 8-byte elements, the former with or without a staging copy in shared  *)
(* memory) or that ballots (1- and 2-byte elements).  What follows the last  *)
(* whole chunk is copied.                                                    *)
(* stConf: [kind |-> "bitshuffle", size, bits, block, lanes, unit, encSmem,  *)
(* decSmem]: bits of an element, block in bytes, `unit` elements that a      *)
(* chunk must be a multiple of, shared memory open to either side (0: off).  *)
(* A word is the set of the positions of its ones.                           *)
EXTENDS AdaptiveBitpack

ChunkOk == stConf.block > 0 /\ stConf.block % (stConf.unit * stConf.size) = 0
NChunk == stConf.block \div stConf.size
\* Words of a plane: the 8-byte kernel has rows of twice the lanes.
Rows == IF stConf.size = 8 THEN 0..2*stConf.lanes-1 ELSE LaneIds
Npp == NChunk \div Cardinality(Rows)
Groups == 0..Npp-1
LaneIdBits == Cardinality({b \in 0..stConf.lanes : 2^b < stConf.lanes})

\* Row r exchanges with the row whose number differs in bit s: the first of
\* the two keeps the upper bits of both, the second the lower.
ButterflyStep(a, s) ==
    [r \in Rows |->
        IF HasBit(r, s)
          THEN {b \in a[r] : ~HasBit(b, s)} \cup {b + 2^s : b \in {c \in a[r - 2^s] : ~HasBit(c, s)}}
          ELSE {b \in a[r] : HasBit(b, s)} \cup {b - 2^s : b \in {c \in a[r + 2^s] : HasBit(c, s)}}] @@ <<>>
\* shflXor by 16, 8, 4, 2 and 1.
butterfly32(a) == FoldLeft(LAMBDA v, k : ButterflyStep(v, LaneIdBits - k), a, Indices(LaneIdBits))
\* A lane holds two rows: it exchanges its halves first.
butterfly64(a) == butterfly32(ButterflyStep(a, LaneIdBits))

\* Element r of group g, from 0, and the store of row r of its result.
InGroup(x, g) == [r \in Rows |-> ToBits(x[g * Cardinality(Rows) + r + 1])] @@ <<>>
PlaneIndex(g, r) == g + r * Npp
\* Scattered stores: the word at j is that of the group and row that map to it.
ScatteredWords(words, at) ==
    [j \in {at[p] : p \in DOMAIN at} |-> LET p == CHOOSE q \in DOMAIN at : at[q] = j
                                         IN  words[p[1]][p[2]]]
PlaneIndices == [p \in Groups \X Rows |-> PlaneIndex(p[1], p[2])] @@ <<>>
bitshuffleEncodeKernel32(x) == ScatteredWords([g \in Groups |-> butterfly32(InGroup(x, g))] @@ <<>>, PlaneIndices)
bitshuffleDecodeKernel32(v) ==
    [i \in 0..NChunk-1 |->
        butterfly32([r \in Rows |-> v[PlaneIndex(i \div stConf.lanes, r)]])[i % stConf.lanes]]

\* Staged with one word of padding behind every plane.
SmemIndex(g, r) == r * (Npp + 1) + g
bitshuffleEncodeKernel32Smem(x) ==
    LET s == ScatteredWords([g \in Groups |-> butterfly32(InGroup(x, g))] @@ <<>>,
                       [p \in Groups \X Rows |-> SmemIndex(p[1], p[2])] @@ <<>>)
    IN  [j \in 0..NChunk-1 |-> s[SmemIndex(j % Npp, j \div Npp)]]
bitshuffleDecodeKernel32Smem(v) ==
    LET s == [k \in {SmemIndex(j % Npp, j \div Npp) : j \in 0..NChunk-1} |->
                 v[(k \div (Npp + 1)) * Npp + (k % (Npp + 1))]] @@ <<>>
    IN  [i \in 0..NChunk-1 |->
            butterfly32([r \in Rows |-> s[SmemIndex(i \div stConf.lanes, r)]])[i % stConf.lanes]]

bitshuffleEncodeKernel64(x) == ScatteredWords([g \in Groups |-> butterfly64(InGroup(x, g))] @@ <<>>, PlaneIndices)
bitshuffleDecodeKernel64(v) ==
    [i \in 0..NChunk-1 |->
        butterfly64([r \in Rows |-> v[PlaneIndex(i \div Cardinality(Rows), r)]])[i % Cardinality(Rows)]]

bitshuffleEncodeKernelBallot(x) ==
    [j \in 0..(stConf.bits * Npp)-1 |->
        {l \in LaneIds : HasBit(x[(j % Npp) * stConf.lanes + l + 1], stConf.bits - 1 - j \div Npp)}]
bitshuffleDecodeKernelBallot(v) ==
    [i \in 0..NChunk-1 |->
        {b \in 0..stConf.bits-1 : i % stConf.lanes \in v[(stConf.bits - 1 - b) * Npp + i \div stConf.lanes]}]

bitshuf32SmemBytes == stConf.lanes * (Npp + 1) * 4
InSmem(smem) == bitshuf32SmemBytes <= smem
ShuffleChunk(x) ==
    CASE stConf.size \in {1, 2} -> bitshuffleEncodeKernelBallot(x)
      [] stConf.size = 4 /\ InSmem(stConf.encSmem) -> bitshuffleEncodeKernel32Smem(x)
      [] stConf.size = 4 /\ ~InSmem(stConf.encSmem) -> bitshuffleEncodeKernel32(x)
      [] stConf.size = 8 -> bitshuffleEncodeKernel64(x)
UnshuffleChunk(v) ==
    CASE stConf.size \in {1, 2} -> bitshuffleDecodeKernelBallot(v)
      [] stConf.size = 4 /\ InSmem(stConf.decSmem) -> bitshuffleDecodeKernel32Smem(v)
      [] stConf.size = 4 /\ ~InSmem(stConf.decSmem) -> bitshuffleDecodeKernel32(v)
      [] stConf.size = 8 -> bitshuffleDecodeKernel64(v)

FullElems(n) == (n \div NChunk) * NChunk
Shuffled(x) ==
    [c \in 1..(Len(x) \div NChunk) |-> ShuffleChunk(PieceOf(x, NChunk, c))]
\* The decoder is told the byte count by its input buffer.
BitshuffleForward ==
    /\ StageReady("bitshuffle")
    /\ \E x \in StageInputs[stConf.data] :
        /\ x # <<>> => ChunkOk
        /\ ExecutedSized(x, [n |-> Len(x)],
                         IF x = <<>> THEN <<>>
                         ELSE [chunks |-> Shuffled(x), tail |-> SubSeq(x, FullElems(Len(x)) + 1, Len(x))],
                         Len(x) * stConf.size, Len(x) * stConf.size)
\* validateConfig() throws; an empty input returns before it.
BitshuffleRefused ==
    /\ StageReady("bitshuffle")
    /\ ~ChunkOk
    /\ \E x \in StageInputs[stConf.data] \ {<<>>} : Refused(x)
ElementsOf(words) == [i \in 1..NChunk |-> FromBits(words[i - 1])]
BitshuffleInverse ==
    /\ CanDecode("bitshuffle")
    /\ DecodedAs(IF stMem.n = 0 THEN <<>>
                 ELSE FlattenSeq([c \in 1..(stMem.n \div NChunk) |->
                                    ElementsOf(UnshuffleChunk(Section(stArchive, "chunks")[c]))])
                      \o Section(stArchive, "tail"), stMem.n)

BitshuffleNext == BitshuffleForward \/ BitshuffleRefused \/ BitshuffleInverse
=============================================================================
