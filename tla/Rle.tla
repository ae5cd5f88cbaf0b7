-------------------------------- MODULE Rle ---------------------------------
(* RLEStage: runs over the whole input, or over chunks whose heads always    *)
(* start a run, so that chunks decode independently.                         *)
(* stConf: [kind |-> "rle", size, chunk], chunk = chunk_size_ in bytes or 0. *)
(* stMem.n is cached_num_elements_.                                          *)
EXTENDS StageBase

rle_mark_boundaries(x) == {i \in DOMAIN x : i = 1 \/ x[i] # x[i - 1]}
\* Inclusive scan of the marks, then every boundary goes to its rank.
scatter_boundary_positions(x) == SelectSeq(Indices(Len(x)), LAMBDA i : i \in rle_mark_boundaries(x))
rle_extract_runs(x) ==
    LET starts == scatter_boundary_positions(x)
    IN  [r \in DOMAIN starts |->
            [value |-> x[starts[r]],
             length |-> (IF r < Len(starts) THEN starts[r + 1] ELSE Len(x) + 1) - starts[r]]]

Values(runs) == [r \in DOMAIN runs |-> runs[r].value]
Lengths(runs) == [r \in DOMAIN runs |-> runs[r].length]
ValuesBytes(n) == Align4(n * stConf.size)
rleValuesOffset == Max({stConf.size, 4})
rleChunkedValuesOffset(nc) == AlignTo((nc + 2) * 4, Max({stConf.size, 4}))

rle_pack(runs) ==
    LET n == Len(runs)
    IN  (0 :> <<n>>) @@ (rleValuesOffset :> Values(runs))
        @@ (rleValuesOffset + ValuesBytes(n) :> Lengths(runs))

isChunked == stConf.chunk >= stConf.size
elemsPerChunk == stConf.chunk \div stConf.size
RleChunks(n) == DivUp(n, elemsPerChunk)

\* One block per chunk writes its runs to its own part of the scratch.
rle_chunk_encode(x) ==
    [c \in 1..RleChunks(Len(x)) |-> rle_extract_runs(PieceOf(x, elemsPerChunk, c))]
\* Exclusive sums of the runs per chunk and the total behind them.
rle_chunk_finalize_offsets(chunks) ==
    ExclusiveSums([c \in DOMAIN chunks |-> Len(chunks[c])])
rle_chunk_compact(chunks) ==
    LET nc == Len(chunks)
        runs == FlattenSeq(chunks)
        at == rleChunkedValuesOffset(nc)
    IN  (0 :> <<nc>> \o rle_chunk_finalize_offsets(chunks)) @@ (at :> Values(runs))
        @@ (at + ValuesBytes(Len(runs)) :> Lengths(runs))

\* Mutant: lengths follow the values without alignment.
RleEstimateUnaligned(n) ==
    (IF isChunked THEN rleChunkedValuesOffset(RleChunks(n)) ELSE rleValuesOffset)
    + n * stConf.size + 4 * n
RleEstimate(n) ==
    (IF isChunked THEN rleChunkedValuesOffset(RleChunks(n)) ELSE rleValuesOffset)
    + ValuesBytes(n) + 4 * n

RleForward ==
    /\ StageReady("rle")
    /\ \E x \in StageInputs[stConf.data] :
        /\ x # <<>>
        /\ ExecutedAs(x, [n |-> Len(x)],
                      IF isChunked THEN rle_chunk_compact(rle_chunk_encode(x))
                                   ELSE rle_pack(rle_extract_runs(x)), RleEstimate(Len(x)))
\* An empty input leaves a run count of zero.
RleForwardEmpty ==
    /\ StageReady("rle")
    /\ ExecutedSized(<<>>, [n |-> 0], 0 :> <<0>>, RleEstimate(0), 4)

RlePostStreamSync ==
    LET offset == IF isChunked THEN rleChunkedValuesOffset(RleChunks(stMem.n)) ELSE rleValuesOffset
        header == stArchive[0]
        runs == IF isChunked THEN header[Len(header)] ELSE header[1]
    IN  SizedAs("rle", <<>>, offset + ValuesBytes(runs) + 4 * runs)

rle_decompress(archive) ==
    LET n == archive[0][1]
        values == Section(archive, rleValuesOffset)
        lengths == Section(archive, rleValuesOffset + ValuesBytes(n))
    IN  FlattenSeq([r \in 1..n |-> [i \in 1..lengths[r] |-> values[r]]])

\* Every chunk is cut off at its own length, whatever its runs add up to.
rle_chunk_decode(archive, n) ==
    LET nc == RleChunks(n)
        offsets == archive[0]
        runs == offsets[nc + 2]
        values == Section(archive, rleChunkedValuesOffset(nc))
        lengths == Section(archive, rleChunkedValuesOffset(nc) + ValuesBytes(runs))
        chunkLen(c) == Min({elemsPerChunk, n - (c - 1) * elemsPerChunk})
        decoded(c) == FlattenSeq([r \in 1..offsets[c + 2] - offsets[c + 1] |->
                          [i \in 1..lengths[offsets[c + 1] + r] |-> values[offsets[c + 1] + r]]])
    IN  FlattenSeq([c \in 1..nc |-> SubSeq(decoded(c), 1, chunkLen(c))])

\* The header carries cached_num_elements_, so a new object knows n too.
RleInverse ==
    /\ CanDecode("rle")
    /\ DecodedAs(IF isChunked THEN (IF stMem.n = 0 THEN <<>> ELSE rle_chunk_decode(stArchive, stMem.n))
                 ELSE rle_decompress(stArchive),
                 IF stMem.n > 0 THEN stMem.n ELSE (2 * stActual) \div stConf.size)

RleNext == RleForward \/ RleForwardEmpty \/ RlePostStreamSync \/ RleInverse
=============================================================================
