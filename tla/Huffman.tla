------------------------------ MODULE Huffman -------------------------------
(* HuffmanStage and the PHF coder below it.  A codebook comes from the       *)
(* histogram of each call, from one call's histogram (pinned, refitted when  *)
(* the bit rate drifts), or from given frequencies; it is built on the host  *)
(* or by a kernel.  Partitions of `sublen` symbols are deflated in place,    *)
(* each by one thread, and concatenated.                                     *)
(*                                                                           *)
(* Scaled down: a cell has conf.cell bits (32), a code at most conf.field    *)
(* bits (27), the tree is walked at most conf.wide levels deep (58).         *)
EXTENDS StageBase

HeaderAlign == 128   \* PHFHEADER_FORCED_ALIGN
MetaBytes == 4       \* sizeof(PHF_METADATA), and of a cell
NoBook == [word |-> <<>>, first |-> <<>>, entry |-> <<>>, keys |-> <<>>]
HuffMem0 == [cap |-> 0, sublen |-> 0, nbit |-> <<>>, ncell |-> <<>>, book |-> NoBook,
             resident |-> FALSE, fallback |-> FALSE, justFitted |-> FALSE,
             since |-> 0, refits |-> 0, fit |-> <<0, 1>>, shiftUsed |-> 0, len |-> 0,
             meta |-> <<>>, outOfRange |-> FALSE]
-----------------------------------------------------------------------------
(* Sizes.                                                                    *)
TuneSublen(n, conf) ==
    LET want == n \div conf.target
        wider == {p \in {conf.next * 2^k : k \in 1..3} : p <= want /\ p <= conf.maxSublen}
    IN  IF want <= conf.minSublen THEN conf.minSublen ELSE Max({conf.next} \cup wider)
PartitionsOf(n, sublen) == ((n - 1) \div sublen) + 1
ReverseBookBytes(conf) == (MetaBytes * 2 * conf.cell) + (conf.size * conf.bklen)
BitstreamLen(pardeg, sublen, conf) == pardeg * DivUp(sublen * conf.field, conf.cell)
HuffEstimate(n, conf) ==
    LET sublen == TuneSublen(n, conf)
        pardeg == PartitionsOf(n, sublen)
    IN  IF n = 0 THEN 0
        ELSE HeaderAlign + ReverseBookBytes(conf) + (2 * pardeg * MetaBytes)
             + (BitstreamLen(pardeg, sublen, conf) * MetaBytes)

\* Buf(): the partition arrays live as long as the buffer does.
InitBuf(m, n, conf) ==
    LET sublen == TuneSublen(n, conf)
        fresh == [i \in 1..PartitionsOf(n, sublen) |-> 0]
    IN  [m EXCEPT !.cap = n, !.sublen = sublen, !.nbit = fresh, !.ncell = fresh,
                  !.book = NoBook, !.resident = FALSE]
\* onFinalize() allocates for the size hint, when there is one.
OnFinalize(conf) == IF conf.hint = 0 THEN HuffMem0 ELSE InitBuf(HuffMem0, conf.hint, conf)
HuffMem == IF "resident" \in DOMAIN stMem THEN stMem ELSE OnFinalize(stConf)
Buffered(m, n, conf) == IF m.cap = 0 \/ n > m.cap THEN InitBuf(m, n, conf) ELSE m

-----------------------------------------------------------------------------
(* The histogram: every warp of a block takes one slice of the input, the    *)
(* blocks take its 32-wide stripes in turn.  Symbols past the last bin are   *)
(* not counted.                                                              *)
HistogramCounts(x, conf) ==
    LET slice(w) == IF w = conf.warps - 1 THEN Len(x) ELSE (Len(x) \div conf.warps) * (w + 1)
        begin(w, b, l) == ((Len(x) \div conf.warps) * w) + (conf.lanes * b) + l
        seen == {<<w, b, l, i>> \in (0..(conf.warps - 1)) \X (0..(conf.blocks - 1))
                                    \X (0..(conf.lanes - 1)) \X (0..(Len(x) - 1)) :
                    /\ i >= begin(w, b, l)
                    /\ i < slice(w)
                    /\ (i - begin(w, b, l)) % (conf.lanes * conf.blocks) = 0}
    IN  [s \in 0..(conf.bklen - 1) |-> Cardinality({v \in seen : x[v[4] + 1] = s})] @@ <<>>

-----------------------------------------------------------------------------
(* The Huffman tree, by a binary heap of nodes.  A node carries the depth of *)
(* every symbol below it.                                                    *)
QInsert(q, n) ==
    LET last == Len(q) + 1
        up[i \in 1..last] == IF i = 1 THEN 1
                             ELSE IF q[i \div 2].freq <= n.freq THEN i ELSE up[i \div 2]
        path[i \in 0..last] == IF i = 0 THEN {} ELSE {i} \cup path[i \div 2]
        at == up[last]
        moved == {i \in path[last] : i > at}
    IN  [k \in 1..last |-> IF k = at THEN n ELSE IF k \in moved THEN q[k \div 2] ELSE q[k]] @@ <<>>

QRemoved(q) ==
    LET m == Len(q) - 1
        p == q[Len(q)]
        child(i) == IF 2 * i + 1 <= m
                    THEN IF q[2 * i + 1].freq < q[2 * i].freq THEN 2 * i + 1 ELSE 2 * i
                    ELSE 2 * i
        path[i \in 1..m] == IF 2 * i > m THEN <<i>>
                            ELSE IF p.freq <= q[child(i)].freq THEN <<i>>
                            ELSE <<i>> \o path[child(i)]
        down == path[1]
        at(k) == CHOOSE t \in DOMAIN down : down[t] = k
    IN  IF m = 0 THEN <<>>
        ELSE [k \in 1..m |-> IF k \notin {down[t] : t \in DOMAIN down} THEN q[k]
                             ELSE IF at(k) = Len(down) THEN p ELSE q[down[at(k) + 1]]] @@ <<>>

MergedNode(a, b) ==
    [freq |-> a.freq + b.freq,
     depth |-> [s \in DOMAIN a.depth |-> a.depth[s] + 1]
               @@ [s \in DOMAIN b.depth |-> b.depth[s] + 1]]
MergeTwo(q) ==
    LET rest == QRemoved(q) IN QInsert(QRemoved(rest), MergedNode(q[1], rest[1]))
\* The depth of every symbol; a symbol that does not occur has none (0), a
\* lone one is given one bit.
TreeDepths(freq) ==
    LET used == SelectSeq(Indices(Cardinality(DOMAIN freq)), LAMBDA i : freq[i - 1] > 0)
        leaf(i) == [freq |-> freq[i - 1], depth |-> (i - 1) :> 0]
        heap == FoldLeft(LAMBDA q, i : QInsert(q, leaf(i)), <<>>, used)
        root == FoldLeft(LAMBDA q, i : MergeTwo(q), heap, Indices(Len(heap) - 1))[1]
    IN  [s \in DOMAIN freq |-> IF s \in DOMAIN root.depth THEN Max({1, root.depth[s]}) ELSE 0]
        @@ <<>>

-----------------------------------------------------------------------------
(* Canonical codes, the longest first.                                       *)
FirstCodes(numl, longest, conf) ==
    LET first[l \in 0..conf.cell] ==
            IF l >= longest THEN 0 ELSE (first[l + 1] + numl[l + 1] + 1) \div 2
    IN  [l \in 0..(conf.cell - 1) |-> IF l = 0 THEN 255 ELSE first[l]] @@ <<>>
CanonicalBook(len, numl, entry, first) ==
    LET rank(s) == Cardinality({t \in DOMAIN len : t < s /\ len[t] = len[s]})
        at(s) == entry[len[s]] + rank(s)
    IN  [word |-> [s \in {t \in DOMAIN len : len[t] > 0} |-> <<first[len[s]] + rank(s), len[s]>>]
                  @@ <<>>,
         first |-> first, entry |-> entry,
         keys |-> [k \in 0..(Cardinality(DOMAIN len) - 1) |->
                      IF \E s \in DOMAIN len : len[s] > 0 /\ at(s) = k
                      THEN CHOOSE s \in DOMAIN len : len[s] > 0 /\ at(s) = k ELSE 0] @@ <<>>]
Canonize(len, conf) ==
    LET numl == [l \in 0..conf.cell |->
                    Cardinality({s \in DOMAIN len : len[s] = l /\ l > 0})] @@ <<>>
        longest == Max({len[s] : s \in DOMAIN len})
        entry == [l \in 0..(conf.cell - 1) |-> SumSeq([k \in 1..l |-> numl[k - 1]])] @@ <<>>
    IN  CanonicalBook(len, numl, entry, FirstCodes(numl, longest, conf))

\* A code that does not fit the field is marked one bit longer than it; the
\* walk over the tree throws on a code of more than conf.wide bits.
HostBookOf(depth, conf) ==
    [deep |-> \E s \in DOMAIN depth : depth[s] > conf.wide,
     book |-> Canonize([s \in DOMAIN depth |-> Min({depth[s], conf.field + 1})] @@ <<>>, conf)]
HostBook(freq, conf) == HostBookOf(TreeDepths(freq), conf)
Unusable(book, conf) == \E s \in DOMAIN book.word : book.word[s][2] > conf.field

-----------------------------------------------------------------------------
(* Where the book comes from.  Every operator yields the new fields and      *)
(* whether the call goes on.                                                 *)
GoesOn(m) == [ok |-> TRUE, mem |-> m]
Throws(m) == [ok |-> FALSE, mem |-> m]
Floored(hist, shift) ==
    LET floor == Max({1, Max({hist[s] : s \in DOMAIN hist}) \div 2^shift})
    IN  [s \in DOMAIN hist |-> Max({hist[s], floor})]
IsDegenerate(hist) ==
    LET total == MapThenSumSet(LAMBDA s : hist[s], DOMAIN hist)
    IN  \/ Cardinality({s \in DOMAIN hist : hist[s] > 0}) < 2
        \/ 1000 * Max({hist[s] : s \in DOMAIN hist}) >= 999 * total

\* setFixedBookFromFreq(): a table with a zero is refused, and a short one
\* padded with ones up to the rounded length.
SetFixedBookFromFreq(conf) ==
    IF \E i \in DOMAIN conf.freq : conf.freq[i] = 0 THEN <<>>
    ELSE [s \in 0..(AlignTo(Len(conf.freq), 4 \div conf.size) - 1) |->
             IF s < Len(conf.freq) THEN conf.freq[s + 1] ELSE 1] @@ <<>>

BuildFixedBook(m, freq, conf) ==
    IF DOMAIN freq # 0..(conf.bklen - 1) THEN Throws(m)
    ELSE LET pin(h) == IF h.deep \/ Unusable(h.book, conf) THEN Throws(m)
                       ELSE GoesOn([m EXCEPT !.book = h.book, !.resident = TRUE])
         IN  pin(HostBook(freq, conf))

\* The floor is raised until every symbol has a usable code.
BuildAdaptiveBook(m, hist, conf) ==
    LET pinned == ~IsDegenerate(hist)
        use(s, book) == GoesOn([m EXCEPT !.book = book, !.shiftUsed = s,
                                         !.resident = pinned, !.justFitted = pinned])
        fit[s \in 0..conf.shift] ==
            LET try(h) == IF h.deep THEN Throws(m)
                          ELSE IF ~Unusable(h.book, conf) THEN use(s, h.book)
                          ELSE IF s = 0 THEN Throws(m) ELSE fit[s \div 2]
            IN  try(HostBook(Floored(hist, s), conf))
    IN  fit[conf.shift]

BuildBlockBook(m, hist, conf) ==
    LET use(h) == IF h.deep THEN Throws(m)
                  ELSE IF Unusable(h.book, conf)
                  THEN BuildAdaptiveBook([m EXCEPT !.fallback = TRUE], hist, conf)
                  ELSE GoesOn([m EXCEPT !.book = h.book])
    IN  use(HostBook(hist, conf))

AdaptiveRule(m, conf) == conf.source = "adaptive" \/ m.fallback
NeedHistogram(m, conf) ==
    \/ conf.source = "block" /\ ~m.fallback
    \/ AdaptiveRule(m, conf) /\ ~m.resident
SymbolsInRange(x, conf) == \A i \in DOMAIN x : x[i] < conf.bklen

BookOnHost(m, x, conf) ==
    IF NeedHistogram(m, conf)
    THEN IF ~SymbolsInRange(x, conf) THEN Throws(m)
         ELSE IF AdaptiveRule(m, conf) THEN BuildAdaptiveBook(m, HistogramCounts(x, conf), conf)
         ELSE BuildBlockBook(m, HistogramCounts(x, conf), conf)
    ELSE LET built == IF conf.source = "fixed" /\ ~m.resident 
                      THEN BuildFixedBook(m, SetFixedBookFromFreq(conf), conf) ELSE GoesOn(m)
         IN  IF built.ok /\ conf.validate /\ ~SymbolsInRange(x, conf) THEN Throws(built.mem) ELSE built

\* The kernel builds something usable whatever happens, and reports it in
\* the book's metadata: a uniform book when the histogram cannot be used.
DeviceBook(freq, expected, source, conf) ==
    LET counted == MapThenSumSet(LAMBDA s : freq[s], DOMAIN freq)
        astray == source # "fixed" /\ counted # expected
        uniform == [s \in DOMAIN freq |-> 1]
        work(adaptive, shift, flat) ==
            IF flat THEN uniform ELSE IF adaptive THEN Floored(freq, shift) ELSE freq
        report(depth, adaptive, shift, overlong) ==
            [book |-> Canonize(depth, conf),
             meta |-> <<IF overlong THEN "overlong" ELSE IF astray /\ conf.validate THEN "range" ELSE "ok",
                        adaptive, source # "fixed" /\ IsDegenerate(freq), shift>>]
        loop[s \in 0..conf.shift, adaptive \in BOOLEAN, flat \in BOOLEAN, overlong \in BOOLEAN] ==
            LET try(depth) ==
                    IF \A t \in DOMAIN depth : depth[t] <= conf.field
                    THEN report(depth, adaptive, s, overlong)
                    ELSE IF source = "fixed" THEN loop[s, FALSE, TRUE, TRUE]
                    ELSE loop[s \div 2, TRUE, flat \/ s \div 2 = 0, overlong]
            IN  try(TreeDepths(work(adaptive, s, flat)))
    IN  loop[conf.shift, source = "adaptive", astray \/ counted = 0, FALSE]
WithDeviceBook(m, built) == GoesOn([m EXCEPT !.book = built.book, !.meta = built.meta])

BookOnDevice(m, x, conf) ==
    LET n == [m EXCEPT !.meta = <<>>, !.outOfRange = ~SymbolsInRange(x, conf)]
    IN  IF NeedHistogram(m, conf)
        THEN WithDeviceBook(n, DeviceBook(HistogramCounts(x, conf), Len(x),
                                          IF AdaptiveRule(m, conf) THEN "adaptive" ELSE "block", conf))
        ELSE IF conf.source = "fixed" /\ ~m.resident
        THEN LET use(freq) == IF DOMAIN freq # 0..(conf.bklen - 1) THEN Throws(n)
                              ELSE WithDeviceBook(n, DeviceBook(freq, Len(x), "fixed", conf))
             IN  use(SetFixedBookFromFreq(conf))
        ELSE GoesOn(n)

-----------------------------------------------------------------------------
(* Encoding.  Codes are looked up, then every thread deflates its partition  *)
(* in place: the cells overwrite the packed codes it has already read.       *)
PackedWord(w, conf) == w[1] + (w[2] * 2^conf.field)
FillCodes(x, book, conf) ==
    [i \in DOMAIN x |-> PackedWord(book.word[IF x[i] < conf.bklen THEN x[i] ELSE 0], conf)] @@ <<>>

DeflateStep(s, i, conf) ==
    LET width == s.cells[i] \div 2^conf.field
        code == s.cells[i] % 2^conf.field
        bufr == IF s.residue = conf.cell THEN 0 ELSE s.bufr
        left == width - s.residue
        r == s.residue - width
        now == bufr + (code * 2^r)
        total == s.total + width
    IN  IF width < s.residue THEN [s EXCEPT !.residue = r, !.bufr = now, !.total = total]
        ELSE IF width = s.residue
        THEN [s EXCEPT !.cells[s.ptr] = now, !.ptr = @ + 1, !.residue = conf.cell,
                       !.bufr = now, !.total = total]
        ELSE [s EXCEPT !.cells[s.ptr] = bufr + (code \div 2^left), !.ptr = @ + 1,
                       !.bufr = (code * 2^(conf.cell - left)) % 2^conf.cell,
                       !.residue = conf.cell - left, !.total = total]
Deflate(packed, conf) ==
    LET end == FoldLeft(LAMBDA s, i : DeflateStep(s, i, conf),
                        [cells |-> packed, ptr |-> 1, residue |-> conf.cell, bufr |-> 0, total |-> 0],
                        Indices(Len(packed)))
        ncell == DivUp(end.total, conf.cell)
    IN  [nbit |-> end.total, ncell |-> ncell,
         cells |-> SubSeq([end.cells EXCEPT ![end.ptr] = end.bufr], 1, ncell)]
DeflatedParts(codes, m, conf) ==
    [p \in 1..PartitionsOf(Len(codes), m.sublen) |-> Deflate(PieceOf(codes, m.sublen, p), conf)] @@ <<>>

\* A launch writes the entries of its own partitions; those of a longer
\* call stay.
WithPartitions(m, parts) ==
    [m EXCEPT !.nbit = [p \in DOMAIN parts |-> parts[p].nbit] @@ m.nbit,
              !.ncell = [p \in DOMAIN parts |-> parts[p].ncell] @@ m.ncell]

\* make_metadata() and memcpy_merge(), with the totals of the caller.  The
\* cells of partitions left by a longer call follow the live ones.
HuffArchive(m, parts, len, nbit, ncell, conf) ==
    LET pardeg == Len(parts)
        nbitAt == HeaderAlign + ReverseBookBytes(conf)
        entryAt == nbitAt + (pardeg * MetaBytes)
        bitsAt == entryAt + (pardeg * MetaBytes)
        cells == FlattenSeq([p \in 1..pardeg |-> parts[p].cells])
    IN  (0 :> <<m.sublen, pardeg, len, nbit, ncell, HeaderAlign, nbitAt, entryAt, bitsAt,
                bitsAt + (ncell * MetaBytes)>>)
        @@ (HeaderAlign :> <<m.book.first, m.book.entry, m.book.keys>>)
        @@ (nbitAt :> [p \in 1..pardeg |-> parts[p].nbit])
        @@ (entryAt :> ExclusiveSums([p \in 1..pardeg |-> parts[p].ncell]))
        @@ (bitsAt :> cells \o [i \in 1..(ncell - Len(cells)) |-> 0])

UpdateAdaptiveRate(m, len, nbit, conf) ==
    LET counted == IF m.resident /\ conf.interval > 0 THEN [m EXCEPT !.since = @ + 1] ELSE m
        drifted == nbit * m.fit[2] * conf.threshold[2] > m.fit[1] * len * conf.threshold[1]
        unpinned == [counted EXCEPT !.resident = FALSE, !.refits = @ + 1]
    IN  IF ~AdaptiveRule(m, conf) THEN m
        ELSE IF m.justFitted THEN [m EXCEPT !.fit = <<nbit, len>>, !.justFitted = FALSE, !.since = 0]
        ELSE IF m.resident /\ conf.interval > 0 /\ counted.since >= conf.interval THEN unpinned
        ELSE IF m.resident /\ conf.threshold[1] > 0 /\ m.fit[1] > 0 /\ drifted THEN unpinned
        ELSE counted

\* Totals are summed over the partitions of the buffer, not of the call; a
\* total that does not fit the bitstream is refused before the cells are packed.
EncodeOnHost(data, m, parts, conf) ==
    LET n == WithPartitions(m, parts)
        nbit == MapThenSumSet(LAMBDA p : n.nbit[p], DOMAIN n.nbit)
        ncell == MapThenSumSet(LAMBDA p : n.ncell[p], DOMAIN n.ncell)
        archive == HuffArchive(n, parts, Len(data), nbit, ncell, conf)
    IN  IF ncell > BitstreamLen(Len(n.ncell), n.sublen, conf) THEN RefusedLeaving(data, n)
        ELSE ExecutedSized(data, [UpdateAdaptiveRate(n, Len(data), nbit, conf) EXCEPT !.len = Len(data)],
                           archive, HuffEstimate(Len(data), conf), archive[0][10])

EncodeOnDevice(data, m, parts, conf) ==
    LET nbit == SumSeq([p \in DOMAIN parts |-> parts[p].nbit])
        ncell == SumSeq([p \in DOMAIN parts |-> parts[p].ncell])
    IN  ExecutedAs(data, [WithPartitions(m, parts) EXCEPT !.len = Len(data)],
                   HuffArchive(m, parts, Len(data), nbit, ncell, conf),
                   HuffEstimate(Len(data), conf))

HuffmanEncode ==
    /\ StageReady("huffman")
    /\ \E data \in StageInputs[stConf.data] :
        IF data = <<>> THEN ExecutedSized(data, HuffMem, <<>>, 0, 0)
        ELSE \E m \in {Buffered(HuffMem, Len(data), stConf)} :
             \E b \in {IF stConf.mode = "device" THEN BookOnDevice(m, data, stConf)
                       ELSE BookOnHost(m, data, stConf)} :
                IF ~b.ok THEN RefusedLeaving(data, b.mem)
                ELSE \E parts \in {DeflatedParts(FillCodes(data, b.mem.book, stConf), b.mem, stConf)} :
                        IF stConf.mode = "device" THEN EncodeOnDevice(data, b.mem, parts, stConf)
                        ELSE EncodeOnHost(data, b.mem, parts, stConf)

\* postStreamSync(): execute() calls it itself when other stages follow.
ReadMeta(m, conf) ==
    IF m.meta = <<>> THEN m
    ELSE IF m.meta[2]
    THEN [m EXCEPT !.shiftUsed = m.meta[4], !.resident = ~m.meta[3], !.justFitted = ~m.meta[3],
                   !.fallback = @ \/ conf.source = "block"]
    ELSE [m EXCEPT !.resident = @ \/ conf.source = "fixed"]
HuffmanSync ==
    /\ Awaited("huffman")
    /\ \E status \in {IF stMem.meta = <<>> THEN "ok" ELSE stMem.meta[1]} :
        IF \/ stConf.validate /\ (status = "range" \/ stMem.outOfRange)
           \/ status = "overlong"
        THEN SyncRefused("huffman")
        ELSE SizedLeaving("huffman",
                          UpdateAdaptiveRate(ReadMeta(stMem, stConf), stMem.len, stArchive[0][4], stConf),
                          stArchive[0][10])

-----------------------------------------------------------------------------
(* Decoding: a thread reads bits until the value reaches the first code of   *)
(* its length.                                                               *)
InflatePart(cells, at, nbit, book, conf) ==
    LET bit(i) == (cells[at + (i \div conf.cell) + 1] \div 2^(conf.cell - 1 - (i % conf.cell))) % 2
        decode[i \in 0..nbit, l \in 1..conf.cell, v \in Nat] ==
            LET read(w) == IF w < book[1][l] THEN decode[i + 1, l + 1, w]
                           ELSE <<book[3][book[2][l] + w - book[1][l]]>> \o decode[i + 1, 1, 0]
            IN  IF i = nbit THEN <<>> ELSE read((2 * v) + bit(i))
    IN  decode[0, 1, 0]
Inflated(header, archive, conf) ==
    FlattenSeq([p \in 1..header[2] |->
        InflatePart(archive[header[9]], archive[header[8]][p], archive[header[7]][p],
                    archive[header[6]], conf)])

HuffmanDecode ==
    /\ CanDecode("huffman")
    /\ IF stActual = 0 THEN DecodedAs(<<>>, stMem.len)
       ELSE DecodedAs(Inflated(stArchive[0], stArchive, stConf), stMem.len)

HuffmanNext == HuffmanEncode \/ HuffmanSync \/ HuffmanDecode
=============================================================================
