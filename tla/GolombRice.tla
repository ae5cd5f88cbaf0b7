----------------------------- MODULE GolombRice -----------------------------
(* GolombRiceStage: every chunk picks the Rice parameter with the smallest   *)
(* exact cost, each of its intervals (one warp) becomes a byte-aligned bit   *)
(* string that decodes by itself, and a chunk that does not shrink is stored *)
(* raw.  Word width, escape length, intervals and chunk are scaled down:     *)
(* stConf: [kind |-> "golomb", size, bits, escape, kMax, intervals, chunk,   *)
(* rebuilt]; `rebuilt` says which object decodes.                            *)
(* stMem.n is cached_orig_bytes_.                                            *)
EXTENDS StageBase

zigzagEncode(v) == IF v >= 0 THEN 2 * v ELSE -2 * v - 1
zigzagDecode(u) == IF u % 2 = 0 THEN u \div 2 ELSE -((u + 1) \div 2)

riceCost(u, k) ==
    LET q == u \div 2^k
    IN  IF q < stConf.escape THEN q + 1 + k ELSE stConf.escape + stConf.bits

LowBits(u, w) == [b \in 1..w |-> (u \div 2^(b - 1)) % 2]
Ones(n) == [b \in 1..n |-> 1]
orBits(u, k) ==
    LET q == u \div 2^k
    IN  IF q < stConf.escape THEN Ones(q) \o <<0>> \o LowBits(u % 2^k, k)
                             ELSE Ones(stConf.escape) \o LowBits(u, stConf.bits)

GrElems == stConf.chunk \div stConf.size
GrIntervalElems == GrElems \div stConf.intervals
GrHeaderBytes == 4 + 4 * stConf.intervals
BestK(us) ==
    LET cost(k) == SumSeq([i \in DOMAIN us |-> riceCost(us[i], k)])
    IN  Min({k \in 0..stConf.kMax : \A j \in 0..stConf.kMax : cost(k) <= cost(j)})

\* A chunk as stored: [raw, bytes, k, offsets, streams] with the intervals'
\* byte offsets and the bit strings found there.
golombRiceEncodeKernel(chunk) ==
    LET us == [i \in DOMAIN chunk |-> zigzagEncode(chunk[i])]
        k == BestK(us)
        stream(v) == FlattenSeq([i \in DOMAIN PieceOf(us, GrIntervalElems, v) |->
                                    orBits(PieceOf(us, GrIntervalElems, v)[i], k)])
        streams == [v \in 1..stConf.intervals |-> stream(v)]
        ends == ExclusiveSums([v \in 1..stConf.intervals |-> DivUp(Len(streams[v]), 8)])
        packed == GrHeaderBytes + ends[stConf.intervals + 1]
        orig == Len(chunk) * stConf.size
    IN  IF packed < orig
        THEN [raw |-> FALSE, bytes |-> packed, k |-> k, offsets |-> SubSeq(ends, 1, stConf.intervals),
              streams |-> [at \in {ends[v] : v \in 1..stConf.intervals} |->
                              streams[Max({v \in 1..stConf.intervals : ends[v] = at})]]]
        ELSE [raw |-> TRUE, bytes |-> orig, data |-> [i \in DOMAIN us |-> zigzagDecode(us[i])]]

\* GrBitReader: n codewords from the start of a bit string.
ReadCodeword(bits, at, k) ==
    LET ones == Min({q \in 0..stConf.escape : q = stConf.escape \/ at + q > Len(bits) \/ bits[at + q] = 0})
        number(from, w) == SumSeq([b \in 1..w |-> bits[from + b - 1] * 2^(b - 1)])
    IN  IF ones = stConf.escape
        THEN [u |-> number(at + ones, stConf.bits), next |-> at + ones + stConf.bits]
        ELSE [u |-> ones * 2^k + number(at + ones + 1, k), next |-> at + ones + 1 + k]
ReadCodewords(bits, n, k) ==
    FoldLeft(LAMBDA acc, i : LET w == ReadCodeword(bits, acc.next, k)
                             IN  [us |-> Append(acc.us, w.u), next |-> w.next],
             [us |-> <<>>, next |-> 1], Indices(n)).us

\* Lane v decodes interval v of a chunk of n elements.
golombRiceDecodeKernel(stored, n) ==
    LET count(v) == Max({0, Min({GrIntervalElems, n - (v - 1) * GrIntervalElems})})
        lane(v) == IF count(v) = 0 THEN <<>>
                   ELSE ReadCodewords(stored.streams[stored.offsets[v]], count(v), stored.k)
        us == FlattenSeq([v \in 1..stConf.intervals |-> lane(v)])
    IN  [i \in DOMAIN us |-> zigzagDecode(us[i])]

GrChunks(n) == DivUp(n, stConf.chunk)
GrEstimate(n) == Align4(n + 8 + 4 * GrChunks(n) + 16)

\* golombRicePackKernel: chunks behind a header of their sizes.
golombRicePackKernel(stored, bytes) ==
    LET nc == Len(stored)
        offsets == ExclusiveSums([c \in 1..nc |-> stored[c].bytes])
    IN  (0 :> <<bytes, nc>>) @@ (8 :> [c \in 1..nc |-> [raw |-> stored[c].raw, bytes |-> stored[c].bytes]])
        @@ [at \in {8 + 4 * nc + offsets[c] : c \in 1..nc} |->
               stored[CHOOSE c \in 1..nc : 8 + 4 * nc + offsets[c] = at]]

GolombRiceForward ==
    /\ StageReady("golomb")
    /\ \E x \in StageInputs[stConf.data] :
        LET bytes == Len(x) * stConf.size
            stored == [c \in 1..GrChunks(bytes) |-> golombRiceEncodeKernel(PieceOf(x, GrElems, c))]
        IN  /\ x # <<>>
            /\ ExecutedAs(x, [n |-> bytes], golombRicePackKernel(stored, bytes), GrEstimate(bytes))
GolombRiceForwardEmpty == StageReady("golomb") /\ ExecutedSized(<<>>, stMem, <<>>, GrEstimate(0), 0)

GolombRicePostStreamSync ==
    LET entries == Section(stArchive, 8)
        nc == stArchive[0][2]
    IN  SizedAs("golomb", <<>>,
                Align4(8 + 4 * nc + SumSeq([c \in 1..nc |-> entries[c].bytes])))

\* serializeHeader() writes the chunk size and the element type only.
GrSerialized == [n |-> 0]

GolombRiceInverse ==
    LET orig == stArchive[0][1]
        nc == stArchive[0][2]
        entries == stArchive[8]
        starts == ExclusiveSums([c \in 1..nc |-> entries[c].bytes])
        chunkOrig(c) == IF c < nc THEN stConf.chunk ELSE orig - (nc - 1) * stConf.chunk
        restored(c) == LET stored == Section(stArchive, 8 + 4 * nc + starts[c])
                       IN  IF entries[c].raw THEN stored.data
                           ELSE golombRiceDecodeKernel(stored, chunkOrig(c) \div stConf.size)
        mem == IF stConf.rebuilt THEN GrSerialized ELSE stMem
        room == IF mem.n > 0 THEN mem.n ELSE stActual
    IN  /\ CanDecode("golomb")
        /\ DecodedAs(IF stActual = 0 THEN <<>> ELSE FlattenSeq([c \in 1..nc |-> restored(c)]),
                     room \div stConf.size)

GolombRiceNext ==
    GolombRiceForward \/ GolombRiceForwardEmpty \/ GolombRicePostStreamSync \/ GolombRiceInverse
=============================================================================
