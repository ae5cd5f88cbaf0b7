------------------------------- MODULE Gpulz --------------------------------
(* GPULZStage: LZ matching inside chunks of words.  A chunk becomes one flag *)
(* bit per item and the items: a word as it is, or the length and distance   *)
(* of an earlier match; a chunk of zeros becomes nothing, one that does not  *)
(* shrink is stored raw.  The items of all chunks form one archive, or four  *)
(* streams (literals, lengths, offsets and meta).                            *)
(* stConf: [kind |-> "gpulz", data, size, eb, chunk, window, maxMatch,       *)
(* maxOffset, level, rounds, early, hash, jumps, byte, split]: chunk in      *)
(* words, hash the size of the table, `rounds` the rounds that fill it,      *)
(* jumps the bound on pointer doubling, byte the flags in a byte.            *)
(* stMem: cached_orig_bytes_, orig_unpadded_bytes_ and the stream sizes.     *)
EXTENDS StageBase

GzChunks(n) == DivUp(n, stConf.chunk)
GzChunkBytes == stConf.chunk * stConf.size
\* The input, with zeros up to a whole number of chunks.
GzPadded(x) == x \o [i \in 1..GzChunks(Len(x)) * stConf.chunk - Len(x) |-> 0]
minEncodeLength == IF stConf.size = 1 THEN 2 ELSE 1

\* Distances at which b[i] occurs within the window before i.
omask(b, i) == {o \in 1..stConf.window : o < i /\ b[i - o] = b[i]}
MatchCap(b, i) == Min({Len(b) - i + 1, stConf.maxMatch})
\* Distances that still match after len words.
Surviving(b, i, len) ==
    {o \in omask(b, i) : \A k \in 1..len - 1 : o \in omask(b, i + k)}
WindowMatch(b, i) ==
    LET lens == {len \in 1..MatchCap(b, i) : Surviving(b, i, len) # {}}
    IN  IF lens = {} THEN [len |-> 0, off |-> 0]
        ELSE [len |-> Max(lens), off |-> Min(Surviving(b, i, Max(lens)))]

gpulzHash(b, i) == (3 * b[i] + (IF i < Len(b) THEN 5 * b[i + 1] + 1 ELSE 0)) % stConf.hash
\* The table holds, per hash, the last position of the rounds before i's.
HashCandidates(b, i) ==
    LET round == Len(b) \div stConf.rounds
    IN  {j \in 1..((i - 1) \div round) * round : gpulzHash(b, j) = gpulzHash(b, i)}
CommonRun(b, i, c) ==
    Max({0} \cup {k \in 1..MatchCap(b, i) : \A j \in 0..k - 1 : b[i + j] = b[c + j]})
\* A farther candidate replaces the window's match only when it is longer.
HashMatch(b, i, m, candidates) ==
    IF m.len >= stConf.early \/ candidates = {} \/ i - Max(candidates) > stConf.maxOffset
       \/ CommonRun(b, i, Max(candidates)) <= m.len
    THEN m ELSE [len |-> CommonRun(b, i, Max(candidates)), off |-> i - Max(candidates)]
Matches(b) ==
    [i \in DOMAIN b |-> IF stConf.level = 0 THEN WindowMatch(b, i)
                        ELSE HashMatch(b, i, WindowMatch(b, i), HashCandidates(b, i))]

\* One thread walks over the chunk: a match skips the words it covers.
ItemStarts(m) ==
    FoldLeft(LAMBDA acc, i :
                IF i < acc.next THEN acc
                ELSE [next |-> i + (IF m[i].len < minEncodeLength THEN 1 ELSE m[i].len),
                      starts |-> Append(acc.starts, i)],
             [next |-> 1, starts |-> <<>>], Indices(Len(m))).starts
\* A literal takes the bytes of a word, a match two.
Literal(v) == [k \in 1..stConf.size |-> IF k = 1 THEN v ELSE 0]
ItemsOf(b, m, starts) ==
    [flags |-> [j \in DOMAIN starts |-> m[starts[j]].len >= minEncodeLength],
     data |-> FlattenSeq([j \in DOMAIN starts |->
                 IF m[starts[j]].len < minEncodeLength THEN Literal(b[starts[j]])
                 ELSE <<m[starts[j]].len, m[starts[j]].off>>])]
IsZero(b) == \A i \in DOMAIN b : b[i] = 0
\* Unused bits of the last flag byte are 0.
FlagBytes(flags) == flags \o [k \in 1..AlignTo(Len(flags), stConf.byte) - Len(flags) |-> FALSE]
gpulzEncodeKernel(b) ==
    IF IsZero(b) THEN [flags |-> <<>>, data |-> <<>>]
    ELSE CHOOSE e \in {[items EXCEPT !.flags = FlagBytes(@)] :
                          items \in UNION {{ItemsOf(b, m, ItemStarts(m))} : m \in {Matches(b)}}} : TRUE

\* The two numbers the header has for a chunk, and whether it is stored raw.
gpulzFinalizeSizes(e) ==
    LET flagBytes == Len(e.flags) \div stConf.byte
    IN  IF flagBytes + Len(e.data) >= GzChunkBytes
        THEN [raw |-> TRUE, flag |-> 0, data |-> GzChunkBytes]
        ELSE [raw |-> FALSE, flag |-> flagBytes, data |-> Len(e.data)]
CleanSize(entry) == entry.flag + entry.data
GzHeaderBytes(nc) == 8 + 8 * nc
DstOffsets(entries) ==
    [c \in DOMAIN entries |-> GzHeaderBytes(Len(entries))
        + ExclusiveSums([k \in DOMAIN entries |-> CleanSize(entries[k])])[c]]

\* A section exists where a chunk has something to store.
Store(at, s) == IF s = <<>> THEN <<>> ELSE at :> s
gpulzPackKernel(raw, encoded, entries, at) ==
    FoldLeft(LAMBDA acc, c :
                (IF entries[c].raw THEN Store(at[c], PieceOf(raw, stConf.chunk, c))
                 ELSE Store(at[c], encoded[c].flags) @@ Store(at[c] + entries[c].flag, encoded[c].data)) @@ acc,
             <<>>, Indices(Len(entries)))

\* Bytes of a chunk in each of the streams.
IsMatchBits(flags) == Cardinality({k \in DOMAIN flags : flags[k]})
gpulzSplitMetaCount(entry) == IF entry.raw THEN 0 ELSE entry.flag
gpulzSplitCount(entry, flags) ==
    IF entry.raw THEN [lit |-> GzChunkBytes, tok |-> 0]
    ELSE [lit |-> entry.data - 2 * IsMatchBits(flags), tok |-> IsMatchBits(flags)]
SplitCounts(entries, flags) ==
    [c \in DOMAIN entries |->
        gpulzSplitCount(entries[c], flags[c]) @@ [meta |-> gpulzSplitMetaCount(entries[c])]]
SplitOffsets(counts) ==
    LET sums(f) == ExclusiveSums([c \in DOMAIN counts |-> counts[c][f]])
    IN  [lit |-> sums("lit"), tok |-> sums("tok"), meta |-> sums("meta")]
\* Where the items of a chunk start in its data, from 1; past the data there
\* is no item, whatever the unused flag bits say.
ItemCount(flags) == Min({Len(flags), stConf.chunk})
ItemAt(flags) == ExclusiveSums([j \in 1..ItemCount(flags) |-> IF flags[j] THEN 2 ELSE stConf.size])
ItemsIn(flags, bytes) == {j \in 1..ItemCount(flags) : ItemAt(flags)[j] < bytes}
Chosen(flags, bytes, match) ==
    SelectSeq(Indices(ItemCount(flags)), LAMBDA j : j \in ItemsIn(flags, bytes) /\ flags[j] = match)
gpulzDestripeKernel(e, bytes, stream) ==
    LET item(j, k) == e.data[ItemAt(e.flags)[j] + k]
    IN  CASE stream = "literals" -> FlattenSeq([n \in DOMAIN Chosen(e.flags, bytes, FALSE) |->
                 [k \in 1..stConf.size |-> item(Chosen(e.flags, bytes, FALSE)[n], k)]])
          [] stream = "lengths" -> [n \in DOMAIN Chosen(e.flags, bytes, TRUE) |-> item(Chosen(e.flags, bytes, TRUE)[n], 1)]
          [] stream = "offsets" -> [n \in DOMAIN Chosen(e.flags, bytes, TRUE) |-> item(Chosen(e.flags, bytes, TRUE)[n], 2)]
          [] stream = "meta" -> e.flags
GzStreams == {"literals", "lengths", "offsets", "meta"}
StreamAt(off, stream, c) ==
    CASE stream = "literals" -> off.lit[c]
      [] stream \in {"lengths", "offsets"} -> off.tok[c]
      [] stream = "meta" -> GzHeaderBytes(Len(off.meta) - 1) + off.meta[c]
\* Every chunk writes its part of every stream.
SplitStreams(raw, encoded, entries, off) ==
    FoldLeft(LAMBDA acc, c :
                FoldSet(LAMBDA s, more :
                            Store(<<s, StreamAt(off, s, c)>>,
                                  IF ~entries[c].raw THEN gpulzDestripeKernel(encoded[c], entries[c].data, s)
                                  ELSE IF s = "literals" THEN PieceOf(raw, stConf.chunk, c) ELSE <<>>) @@ more,
                        acc, GzStreams),
             <<>>, Indices(Len(entries)))
gpulzSplitTotals(off) ==
    LET last(s) == s[Len(s)]
    IN  [lit |-> last(off.lit), tok |-> last(off.tok),
         meta |-> GzHeaderBytes(Len(off.meta) - 1) + last(off.meta)]
SplitBytes(t) == Align4(t.lit) + 2 * Align4(t.tok) + Align4(t.meta)

GzEstimate(n) ==
    LET nc == GzChunks(n)
    IN  IF stConf.split
        THEN Align4(nc * GzChunkBytes) + 2 * Align4(nc * stConf.chunk)
             + Align4(GzHeaderBytes(nc) + nc * DivUp(stConf.chunk, stConf.byte))
        ELSE Align4(nc * GzChunkBytes + GzHeaderBytes(nc))

GzExecuted(x, raw, encoded, entries) ==
    LET mem == [orig |-> Len(raw), unpadded |-> Len(x)]
    IN  IF stConf.split
        THEN \E off \in {SplitOffsets(SplitCounts(entries, [c \in DOMAIN encoded |-> encoded[c].flags]))} :
                ExecutedAs(x, mem @@ [bytes |-> SplitBytes(gpulzSplitTotals(off)), first |-> gpulzSplitTotals(off).lit],
                           (<<"meta", 0>> :> entries) @@ SplitStreams(raw, encoded, entries, off),
                           GzEstimate(Len(x)))
        ELSE \E at \in {DstOffsets(entries)} :
                ExecutedAs(x, mem @@ [bytes |-> Align4(at[Len(at)] + CleanSize(entries[Len(at)])), first |-> 1],
                           (0 :> entries) @@ gpulzPackKernel(raw, encoded, entries, at), GzEstimate(Len(x)))
GpulzForward ==
    /\ StageReady("gpulz")
    /\ \E x \in StageInputs[stConf.data] \ {<<>>} :
       \E raw \in {GzPadded(x)} :
       \E encoded \in {[c \in 1..GzChunks(Len(x)) |-> gpulzEncodeKernel(PieceOf(raw, stConf.chunk, c))] @@ <<>>} :
           GzExecuted(x, raw, encoded, [c \in DOMAIN encoded |-> gpulzFinalizeSizes(encoded[c])] @@ <<>>)
\* Nothing is written and the fields keep what the last call left.
GpulzForwardEmpty ==
    /\ StageReady("gpulz")
    /\ <<>> \in StageInputs[stConf.data]
    /\ ExecutedSized(<<>>, IF stCall = 0 THEN [orig |-> 0, unpadded |-> 0, bytes |-> 0, first |-> 0]
                           ELSE [stMem EXCEPT !.bytes = 0, !.first = 0], <<>>, GzEstimate(0), 0)
GpulzPostStreamSync == Awaited("gpulz") /\ SizedAs("gpulz", <<>>, stMem.bytes)

\* Where every word comes from: itself, or the word a match points at; the
\* pointers are doubled until none moves.
PointerJump(src) ==
    FoldLeft(LAMBDA cur, r : [q \in DOMAIN cur |-> cur[cur[q]]] @@ <<>>, src, Indices(stConf.jumps))
WordsOf(lens, pos, flags, val, dist) ==
    LET covering(q) == CHOOSE j \in DOMAIN lens : pos[j] < q /\ q <= pos[j] + lens[j]
        covered(q) == \E j \in DOMAIN lens : pos[j] < q /\ q <= pos[j] + lens[j]
        src == [q \in 1..stConf.chunk |-> IF covered(q) /\ flags[covering(q)] THEN q - dist[covering(q)] ELSE q]
        lit == [q \in 1..stConf.chunk |-> IF covered(q) /\ ~flags[covering(q)] THEN val[covering(q)] ELSE 0]
    IN  [q \in 1..stConf.chunk |-> lit[PointerJump(src)[q]]]
gpulzDecodeKernel(flags, data) ==
    LET at == ItemAt(flags)
        live == ItemsIn(flags, Len(data))
        lens == [j \in 1..ItemCount(flags) |->
                    IF j \notin live THEN 0 ELSE IF flags[j] THEN data[at[j] + 1] ELSE 1]
    IN  WordsOf(lens, ExclusiveSums(lens), flags,
                [j \in live |-> data[at[j] + 1]], [j \in {i \in live : flags[i]} |-> data[at[j] + 2]])
\* Raw and all-zero chunks are copied and cleared by a kernel of their own.
gpulzDecodePassthrough(entry, stored) ==
    IF entry.raw THEN stored ELSE [q \in 1..stConf.chunk |-> 0]
GzDecoded(entries, at) ==
    [c \in DOMAIN entries |->
        IF entries[c].raw \/ CleanSize(entries[c]) = 0
        THEN gpulzDecodePassthrough(entries[c], Section(stArchive, at[c]))
        ELSE gpulzDecodeKernel(Section(stArchive, at[c]), Section(stArchive, at[c] + entries[c].flag))]

\* The n-th literal or token of a chunk is the n-th of its part of the stream.
Nth(flags, live, j) == Cardinality({i \in live : i <= j /\ flags[i] = flags[j]})
gpulzSplitDecodeKernel(flags, bytes, lit, len, dist) ==
    LET live == ItemsIn(flags, bytes)
        lens == [j \in 1..ItemCount(flags) |->
                    IF j \notin live THEN 0 ELSE IF flags[j] THEN len[Nth(flags, live, j)] ELSE 1]
    IN  WordsOf(lens, ExclusiveSums(lens), flags,
                [j \in {i \in live : ~flags[i]} |-> lit[(Nth(flags, live, j) - 1) * stConf.size + 1]],
                [j \in {i \in live : flags[i]} |-> dist[Nth(flags, live, j)]])
\* The streams' parts are found again from the sizes and flags in meta alone.
SplitDecoded(entries) ==
    LET metaAt == ExclusiveSums([c \in DOMAIN entries |-> gpulzSplitMetaCount(entries[c])])
        flags == [c \in DOMAIN entries |->
                     IF entries[c].flag = 0 THEN <<>>
                     ELSE Section(stArchive, <<"meta", GzHeaderBytes(Len(entries)) + metaAt[c]>>)]
        off == SplitOffsets(SplitCounts(entries, flags))
        part(s, c) == Section(stArchive, <<s, StreamAt(off, s, c)>>)
    IN  [c \in DOMAIN entries |->
            IF entries[c].raw \/ CleanSize(entries[c]) = 0
            THEN gpulzDecodePassthrough(entries[c], part("literals", c))
            ELSE gpulzSplitDecodeKernel(flags[c], entries[c].data, part("literals", c),
                                        part("lengths", c), part("offsets", c))]
\* An empty first input is taken for an empty archive.
GpulzInverse ==
    /\ CanDecode("gpulz")
    /\ \E chunks \in {IF stMem.first = 0 THEN <<>>
                      ELSE IF stConf.split THEN SplitDecoded(Section(stArchive, <<"meta", 0>>))
                      ELSE GzDecoded(Section(stArchive, 0), DstOffsets(Section(stArchive, 0)))} :
       DecodedAs(SubSeq(FlattenSeq(chunks), 1, IF chunks = <<>> THEN 0 ELSE stMem.unpadded),
                 IF stMem.orig > 0 THEN stMem.orig ELSE stActual \div stConf.size)

GpulzNext == GpulzForward \/ GpulzForwardEmpty \/ GpulzPostStreamSync \/ GpulzInverse
=============================================================================
