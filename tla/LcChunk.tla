------------------------------ MODULE LcChunk -------------------------------
(* The chunk coders of the LC family (RRE, RZE, RARE, RAZE): one thread      *)
(* block encodes a chunk of bytes in shared memory.  A coder keeps some of   *)
(* the words, compacted by prefix sums over the threads, and a bitmap that   *)
(* says which; the bitmap is compressed by repetition elimination level by   *)
(* level and the last level is stored as it is.  A byte has Fan bits (8 in   *)
(* the code), a word W bytes, a chunk C bytes; threads and warps are scaled  *)
(* the same way.                                                             *)
EXTENDS Integers, Sequences, FiniteSets, FiniteSetsExt, SequencesExt

CONSTANTS Fan,       \* bits of a byte, also the fan-out of a bitmap level
          TPB, WS,   \* threads of a block, lanes of a warp
          Garbage    \* what an uninitialised byte of shared memory may hold

ASSUME LcChunkAssumption ==
    /\ {Fan, TPB, WS} \subseteq Nat \ {0}
    /\ TPB % WS = 0 /\ TPB \div WS <= WS
    /\ Garbage \subseteq 0..2^Fan-1

LcWarps == TPB \div WS
Threads == 0..TPB-1
CeilDiv(a, b) == (a + b - 1) \div b
Bit(x, k) == (x \div 2^k) % 2 = 1
SumOver(S, Op(_)) == MapThenSumSet(Op, S)

\* A function tabulated once: TLC evaluates a constructor at every application.
Tabulated(f) == f @@ <<>>

\* Byte k of a bitmap given by its bits, a set of positions.
ByteOf(bits, k) == SumOver({j \in 0..Fan-1 : k * Fan + j \in bits}, LAMBDA j : 2^j)
BytesOf(bits, n) == Tabulated([k \in 1..n |-> ByteOf(bits, k - 1)])
BitsOf(bytes) == {i \in 0..Len(bytes)*Fan-1 : Bit(bytes[i \div Fan + 1], i % Fan)}

-----------------------------------------------------------------------------
\* Prefix sums over threads.

\* One shuffle step: every lane adds the value d lanes below it in its warp.
ShflUpAdd(v, d, width) ==
    Tabulated([l \in DOMAIN v |-> v[l] + (IF l % width >= d THEN v[l - d] ELSE 0)])
ShuffleSteps(width) ==
    SelectSeq([d \in 1..width-1 |-> d], LAMBDA d : \E e \in 0..width : d = 2^e)
ShuffleScan(v, width) ==
    FoldLeft(LAMBDA acc, d : ShflUpAdd(acc, d, width), v, ShuffleSteps(width))

CarryScan(carry) == ShuffleScan(carry, LcWarps)

\* The carries of the warps, scanned and added by the threads of later warps.
AddCarry(inWarp) ==
    LET carry == CarryScan([w \in 0..LcWarps-1 |-> inWarp[w * WS + WS - 1]])
    IN  Tabulated([t \in Threads |-> inWarp[t] + (IF t >= WS THEN carry[t \div WS - 1] ELSE 0)])
block_prefix_sum(val) == AddCarry(ShuffleScan(val, WS))

\* Number of kept words up to and including word i, as the threads compute it.
\* `kept` is a set of word indices below n, X the words of a thread.

\* Ballots and per-warp counts (one, two and four words per thread).
WarpCounts(kept, X) ==
    Tabulated([w \in 0..LcWarps-1 |-> Cardinality({i \in kept : i \div (X * WS) = w})])
RanksInWarps(kept, n, X, count, temp_w) ==
    LET warpOf(i) == i \div (X * WS)
        below(i) == {k \in kept : warpOf(k) = warpOf(i) /\ k \div X < i \div X}
        own(i) == {k \in kept : k \div X = i \div X /\ k <= i}
    IN  Tabulated([i \in 0..n-1 |-> temp_w[warpOf(i)] - count[warpOf(i)]
                                    + Cardinality(below(i)) + Cardinality(own(i))])
WarpRanks(kept, n, X) ==
    RanksInWarps(kept, n, X, WarpCounts(kept, X), CarryScan(WarpCounts(kept, X)))

\* Word i of the worker `owner`, which counted its own words: cnt, and pos the
\* inclusive prefix sum of the counts.
OwnRanks(kept, owner, cnt, pos) ==
    Tabulated([i \in DOMAIN owner |-> pos[owner[i]] - cnt[owner[i]]
                  + Cardinality({k \in kept : owner[k] = owner[i] /\ k <= i})])
OwnCounts(kept, owner, parts) ==
    Tabulated([t \in 0..parts-1 |-> Cardinality({i \in kept : owner[i] = t})])

\* Every thread counts its own X words, then block_prefix_sum.
ThreadOwner(n, X) == Tabulated([i \in 0..n-1 |-> i \div X])
ThreadRanks(kept, n, X) ==
    LET owner == ThreadOwner(n, X)
        cnt == OwnCounts(kept, owner, TPB)
    IN  OwnRanks(kept, owner, cnt, block_prefix_sum(cnt))

\* Units of `unit` words are dealt out proportionally to `parts` workers.
PartOwner(n, unit, parts) ==
    LET num == CeilDiv(n, unit)
    IN  Tabulated([i \in 0..n-1 |-> CHOOSE t \in 0..parts-1 :
            (t * num) \div parts <= i \div unit /\ i \div unit < ((t + 1) * num) \div parts])
PartRanks(kept, n, unit, parts, Scan(_)) ==
    LET owner == PartOwner(n, unit, parts)
        cnt == OwnCounts(kept, owner, parts)
    IN  OwnRanks(kept, owner, cnt, Scan(cnt))

\* Kept words are stored in rank order.
Compacted(words, kept, rank) ==
    Tabulated([p \in 1..Cardinality(kept) |-> words[(CHOOSE i \in kept : rank[i] = p) + 1]])

-----------------------------------------------------------------------------
\* Repetition elimination: a word is kept unless it equals the one before.
Previous(words, i) == IF i = 0 THEN 0 ELSE words[i]
REKept(words) == {i \in 0..Len(words)-1 : words[i + 1] # Previous(words, i)}
ZEKept(words) == {i \in 0..Len(words)-1 : words[i + 1] # 0}

d_REencodebyteshort(kept, n, X) == ThreadRanks(kept, n, X)
d_REencode1wordperthread(kept, n) == WarpRanks(kept, n, 1)
d_REencode2wordsperthread(kept, n) == WarpRanks(kept, n, 2)
d_REencode4wordsperthread(kept, n) == WarpRanks(kept, n, 4)
d_REencodeXwordsperthread(kept, n, X) == ThreadRanks(kept, n, X)

WordsPerThread(max, W) == (max \div W) \div TPB
SmallMax == 4 * TPB

d_REencode(words, max, W) ==
    LET n == Len(words)
        X == WordsPerThread(max, W)
        kept == REKept(words)
        rank == CASE W <= 2 /\ max > SmallMax /\ X >= 8 -> d_REencodebyteshort(kept, n, X)
                  [] X <= 1 -> d_REencode1wordperthread(kept, n)
                  [] X = 2 -> d_REencode2wordsperthread(kept, n)
                  [] X = 4 -> d_REencode4wordsperthread(kept, n)
                  [] OTHER -> d_REencodeXwordsperthread(kept, n, X)
    IN  [kept |-> kept, data |-> Compacted(words, kept, rank)]

\* Decoding: word i is the last kept word at or before it, 0 if there is none.
At(data, p, g) == IF p \in DOMAIN data THEN data[p] ELSE g
REWords(rank, n, data, g) ==
    Tabulated([p \in 1..n |-> IF rank[p - 1] = 0 THEN 0 ELSE At(data, rank[p - 1], g)])

d_REdecode_specialized(bits, n) == PartRanks(bits, n, WS, LcWarps, CarryScan)
d_REdecode1wordperthread(bits, n) == WarpRanks(bits, n, 1)
d_REdecode2wordsperthread(bits, n) == WarpRanks(bits, n, 2)
d_REdecode4wordsperthread(bits, n) == WarpRanks(bits, n, 4)
d_REdecodeXwordsperthread(bits, n, X) == ThreadRanks(bits, n, X)

d_REdecode_small(bits, n, max, W) ==
    LET X == WordsPerThread(max, W)
    IN  CASE X <= 1 -> d_REdecode1wordperthread(bits, n)
          [] X = 2 -> d_REdecode2wordsperthread(bits, n)
          [] X = 4 -> d_REdecode4wordsperthread(bits, n)
          [] OTHER -> d_REdecodeXwordsperthread(bits, n, X)

\* Short and byte words: threads share out bitmap units of 2 and 1 bytes.
d_REdecode(n, data, bits, max, W, g) ==
    LET inside == bits \cap 0..n-1
        rank == CASE max <= SmallMax -> d_REdecode_small(inside, n, max, W)
                  [] max > SmallMax /\ W >= 4 -> d_REdecode_specialized(inside, n)
                  [] OTHER -> PartRanks(inside, n, W * Fan, TPB, block_prefix_sum)
    IN  REWords(rank, n, data, g)

-----------------------------------------------------------------------------
\* Zero elimination: the same compaction, keeping the words that are not 0.
d_ZEencodebyteshort(kept, n, X) == ThreadRanks(kept, n, X)
d_ZEencode1wordperthread(kept, n) == WarpRanks(kept, n, 1)
d_ZEencode2wordsperthread(kept, n) == WarpRanks(kept, n, 2)
d_ZEencode4wordsperthread(kept, n) == WarpRanks(kept, n, 4)
d_ZEencodeXwordsperthread(kept, n, X) == ThreadRanks(kept, n, X)

d_ZEencode(words, max, W) ==
    LET n == Len(words)
        X == WordsPerThread(max, W)
        kept == ZEKept(words)
        rank == CASE W <= 2 /\ max > SmallMax /\ X >= 8 -> d_ZEencodebyteshort(kept, n, X)
                  [] X <= 1 -> d_ZEencode1wordperthread(kept, n)
                  [] X = 2 -> d_ZEencode2wordsperthread(kept, n)
                  [] X = 4 -> d_ZEencode4wordsperthread(kept, n)
                  [] OTHER -> d_ZEencodeXwordsperthread(kept, n, X)
    IN  [kept |-> kept, data |-> Compacted(words, kept, rank)]

d_ZEdecode_specialized(bits, n) == PartRanks(bits, n, WS, LcWarps, CarryScan)
d_ZEdecode1wordperthread(bits, n) == WarpRanks(bits, n, 1)
d_ZEdecode2wordsperthread(bits, n) == WarpRanks(bits, n, 2)
d_ZEdecode4wordsperthread(bits, n) == WarpRanks(bits, n, 4)
d_ZEdecodeXwordsperthread(bits, n, X) == ThreadRanks(bits, n, X)

d_ZEdecode_small(bits, n, max, W) ==
    LET X == WordsPerThread(max, W)
    IN  CASE X <= 1 -> d_ZEdecode1wordperthread(bits, n)
          [] X = 2 -> d_ZEdecode2wordsperthread(bits, n)
          [] X = 4 -> d_ZEdecode4wordsperthread(bits, n)
          [] OTHER -> d_ZEdecodeXwordsperthread(bits, n, X)

d_ZEdecode(n, data, bits, max, W, g) ==
    LET inside == bits \cap 0..n-1
        rank == CASE max <= SmallMax -> d_ZEdecode_small(inside, n, max, W)
                  [] max > SmallMax /\ W >= 4 -> d_ZEdecode_specialized(inside, n)
                  [] OTHER -> PartRanks(inside, n, W * Fan, TPB, block_prefix_sum)
    IN  Tabulated([p \in 1..n |-> IF p - 1 \in inside THEN At(data, rank[p - 1], g) ELSE 0])

-----------------------------------------------------------------------------
\* The bitmap hierarchy.  A coder with words of Fan bytes has one level less.
LevelBytes(C, W, k) == (C \div Fan^k) \div W
LastLevel(W) == IF W = Fan THEN 3 ELSE 4

Failed == [ok |-> FALSE, out |-> <<>>]

\* Levels k.. of the bitmap appended to `out`, which may grow to `avail` bytes.
RECURSIVE EncodeBitmap(_, _, _, _, _, _)
EncodeBitmap(bitmap, k, out, avail, C, W) ==
    IF k = LastLevel(W)
    THEN IF Len(out) >= avail - Len(bitmap) THEN Failed
                                            ELSE [ok |-> TRUE, out |-> out \o bitmap]
    ELSE LET enc == d_REencode(bitmap, LevelBytes(C, W, k), 1)
         IN  IF Len(enc.data) > avail - Len(out) THEN Failed
             ELSE EncodeBitmap(BytesOf(enc.kept, LevelBytes(C, W, k + 1)), k + 1,
                               out \o enc.data, avail, C, W)

\* Bits of level k+1 that the buffer holds; a level of no bytes is read from
\* shared memory nobody wrote.
BitsRead(bytes, n, g) ==
    BitsOf(bytes) \cup {i \in Len(bytes)*Fan..n-1 : Bit(g, i % Fan)}

\* Level k is decoded from the kept bytes that end at rpos and level k+1.
RECURSIVE DecodeBitmap(_, _, _, _, _, _, _)
DecodeBitmap(in, rpos, bytes, k, C, W, g) ==
    IF k = 0 THEN bytes
    ELSE LET start == rpos - Cardinality(BitsOf(bytes))
             n == LevelBytes(C, W, k)
         IN  DecodeBitmap(in, start,
                          d_REdecode(n, SubSeq(in, start + 1, Len(in)), BitsRead(bytes, n, g), n, 1, g),
                          k - 1, C, W, g)

ReadBitmap(in, rpos, C, W, g) ==
    LET last == LastLevel(W)
        start == rpos - LevelBytes(C, W, last)
    IN  DecodeBitmap(in, start, SubSeq(in, start + 1, rpos), last - 1, C, W, g)

-----------------------------------------------------------------------------
\* Bytes and words of a chunk.
WordAt(bytes, i, W) == SumOver(1..W, LAMBDA k : bytes[i * W + k] * 2^(Fan * (k - 1)))
WordsIn(bytes, n, W) == Tabulated([p \in 1..n |-> WordAt(bytes, p - 1, W)])
WordBytes(words, W) ==
    Tabulated([k \in 1..Len(words)*W |->
        (words[(k - 1) \div W + 1] \div 2^(Fan * ((k - 1) % W))) % 2^Fan])
Leftover(in, W) == SubSeq(in, Len(in) - (Len(in) % W) + 1, Len(in))

\* The original size, bottom byte first; a footer byte holds 8 bits.
SizeFooter(csize) == <<csize % 256, csize \div 256>>
SizeRead(in) == in[Len(in) - 1] + 256 * in[Len(in)]

\* Encode a chunk of at most C bytes with the coder's own elimination Elim.
EliminateChunk(in, C, W, Elim(_, _, _)) ==
    LET extra == Len(in) % W
        avail == C - 2 - extra
        n == Len(in) \div W
        enc == Elim(WordsIn(in, n, W), C, W)
        values == WordBytes(enc.data, W)
        levels == IF values = <<>> THEN [ok |-> TRUE, out |-> <<>>]
                  ELSE EncodeBitmap(BytesOf(enc.kept, LevelBytes(C, W, 1)), 1, values, avail, C, W)
    IN  IF Len(values) >= avail \/ ~levels.ok THEN Failed
        ELSE [ok |-> TRUE, out |-> levels.out \o Leftover(in, W) \o SizeFooter(Len(in))]

RestoreChunk(in, C, W, g, Restore(_, _, _, _, _, _)) ==
    LET csize == SizeRead(in)
        n == csize \div W
        extra == csize % W
        rpos == Len(in) - 2 - extra
        bitmap == ReadBitmap(in, rpos, C, W, g)
        words == IF rpos = 0 THEN [p \in 1..n |-> 0]
                 ELSE Restore(n, WordsIn(in, Len(in) \div W, W), BitsOf(bitmap), C, W, g)
    IN  WordBytes(words, W) \o SubSeq(in, rpos + 1, rpos + extra)

d_RRE(in, C, W) == EliminateChunk(in, C, W, d_REencode)
d_iRRE(in, C, W, g) == RestoreChunk(in, C, W, g, d_REdecode)
d_RZE(in, C, W) == EliminateChunk(in, C, W, d_ZEencode)
d_iRZE(in, C, W, g) == RestoreChunk(in, C, W, g, d_ZEdecode)

-----------------------------------------------------------------------------
\* Partial reduction (RARE, RAZE): a word whose top bits repeat those of the
\* word before (RARE) or are 0 (RAZE) stores only its bottom `keep` bits.
WordBits(W) == Fan * W
Reference(mode, words, i) == IF mode = "REPEAT" THEN Previous(words, i) ELSE 0
TopMatches(mode, words, i, keep) ==
    words[i + 1] \div 2^keep = Reference(mode, words, i) \div 2^keep
KeepOf(mode, words, W, i) == Min({k \in 0..WordBits(W) : TopMatches(mode, words, i, k)})
CountUpTo(mode, words, W, keep) ==
    Cardinality({i \in 0..Len(words)-1 : KeepOf(mode, words, W, i) <= keep})
Saving(mode, words, W, keep) == (WordBits(W) - keep) * CountUpTo(mode, words, W, keep)

\* The cut with the largest saving, the smallest one among equals.
BestKeep(mode, words, W) ==
    LET sav == Tabulated([k \in 0..WordBits(W)-1 |-> Saving(mode, words, W, k)])
    IN  CHOOSE k \in DOMAIN sav : \A j \in DOMAIN sav :
            sav[j] < sav[k] \/ (sav[j] = sav[k] /\ k <= j)

\* Words per thread, a whole number of bitmap bytes.
Ept(n) == Fan * CeilDiv(CeilDiv(n, TPB), Fan)

\* Bit position of the stored part of word i: full words first, then the
\* bottoms; each thread starts from its share of the prefix sum.
BottomAt(i, rank, n, full, W, keep) ==
    LET first == (i \div Ept(n)) * Ept(n)
        wpos1 == IF first = 0 THEN 0 ELSE rank[first - 1]
        own == {k \in first..i-1 : rank[k] = (IF k = 0 THEN 0 ELSE rank[k - 1])}
    IN  WordBits(W) * full + (first - wpos1) * keep + keep * Cardinality(own)

PRFooter(keep, csize) == <<keep>> \o SizeFooter(csize)

\* Full words, then the bottoms of the others, then the bitmap.
PRBody(words, kept, rank, keep, avail, C, W) ==
    LET n == Len(words)
        full == Cardinality(kept)
        bottoms == {BottomAt(i, rank, n, full, W, keep) + b :
                      <<i, b>> \in {<<j, c>> \in ((0..n-1) \ kept) \X (0..keep-1) : Bit(words[j + 1], c)}}
        wpos == CeilDiv(WordBits(W) * full + keep * (n - full), Fan)
        values == WordBytes(Compacted(words, kept, rank), W)
    IN  EncodeBitmap(BytesOf(kept, LevelBytes(C, W, 1)), 1,
                     Tabulated([k \in 1..wpos |-> IF k <= Len(values) THEN values[k]
                                                   ELSE ByteOf(bottoms, k - 1)]),
                     avail, C, W)

PREncodeAt(mode, in, words, keep, C, W) ==
    LET n == Len(words)
        rest == Leftover(in, W)
        kept == {i \in 0..n-1 : ~TopMatches(mode, words, i, keep)}
        unchanged == \A i \in 0..n-1 : TopMatches(mode, words, i, 0)
        saving == Saving(mode, words, W, keep)
        body == PRBody(words, kept, ThreadRanks(kept, n, Ept(n)), keep, C - 3 - Len(rest), C, W)
    IN  CASE unchanged -> [ok |-> TRUE, out |-> rest \o PRFooter(WordBits(W) + 1, Len(in))]
          [] ~unchanged /\ saving = 0 ->
                IF Len(in) + 3 >= C THEN Failed
                ELSE [ok |-> TRUE, out |-> in \o PRFooter(WordBits(W), Len(in))]
          [] ~unchanged /\ saving # 0 ->
                IF body.ok THEN [ok |-> TRUE, out |-> body.out \o rest \o PRFooter(keep, Len(in))]
                ELSE Failed

PREncodeWords(mode, in, words, C, W) ==
    PREncodeAt(mode, in, words, BestKeep(mode, words, W), C, W)
d_PRencode(mode, in, C, W) ==
    PREncodeWords(mode, in, WordsIn(in, Len(in) \div W, W), C, W)

\* Bits b.. of the stored stream as a number.
BitsAt(in, at, keep) ==
    SumOver({b \in 0..keep-1 : Bit(in[(at + b) \div Fan + 1], (at + b) % Fan)}, LAMBDA b : 2^b)

\* The n words, given the positions of the full ones.
PRWords(mode, in, n, kept, rank, keep, W) ==
    LET top(p) == IF mode = "REPEAT" /\ rank[p - 1] > 0
                  THEN (WordAt(in, rank[p - 1] - 1, W) \div 2^keep) * 2^keep
                  ELSE 0
    IN  [p \in 1..n |->
           IF p - 1 \in kept THEN WordAt(in, rank[p - 1] - 1, W)
           ELSE top(p) + BitsAt(in, BottomAt(p - 1, rank, n, Cardinality(kept), W, keep), keep)]

d_PRdecode(mode, in, C, W, g) ==
    LET keep == in[Len(in) - 2]
        n == SizeRead(in) \div W
        extra == SizeRead(in) % W
        rpos == Len(in) - 3 - extra
        restored(kept) == PRWords(mode, in, n, kept, ThreadRanks(kept, n, Ept(n)), keep, W)
        words == CASE keep = WordBits(W) + 1 -> [p \in 1..n |-> 0]
                   [] keep = WordBits(W) -> WordsIn(in, n, W)
                   [] OTHER -> restored(BitsOf(ReadBitmap(in, rpos, C, W, g)) \cap 0..n-1)
    IN  WordBytes(words, W) \o SubSeq(in, rpos + 1, rpos + extra)

d_RARE(in, C, W) == d_PRencode("REPEAT", in, C, W)
d_iRARE(in, C, W, g) == d_PRdecode("REPEAT", in, C, W, g)
d_RAZE(in, C, W) == d_PRencode("ZERO", in, C, W)
d_iRAZE(in, C, W, g) == d_PRdecode("ZERO", in, C, W, g)

-----------------------------------------------------------------------------
(* The chunk coders CLOG and HCLOG: a chunk is cut into SubChunks parts,     *)
(* each part stores its words with as many bits as its largest word needs.   *)
(* HCLOG may first map the words of a part to sign and magnitude (TCMS), one *)
(* flag bit a part.  In front of the packed words are the flags, the size of *)
(* the chunk (a short) and the widths of the parts.                          *)
CONSTANT SubChunks   \* SC, 32 in the code

ASSUME LcClogAssumption == SubChunks \in Nat \ {0} /\ SubChunks % Fan = 0

SubParts == 0..SubChunks-1
PartBeg(i, n) == (i * n) \div SubChunks
PartOf(i, n) == PartBeg(i, n)..PartBeg(i + 1, n)-1

\* 32 - clz(v), and CB: the bits that hold a width of 0..TB.
BitWidth(v) == CHOOSE k \in 0..v : v < 2^k /\ \A j \in 0..k-1 : v >= 2^j
CounterBits(W) == BitWidth(WordBits(W))

\* Two's complement to sign and magnitude, sign in the lowest bit, and back.
TCMS(v, W) == IF Bit(v, WordBits(W) - 1) THEN 2^WordBits(W) - 1 - ((2 * v) % 2^WordBits(W))
                                         ELSE 2 * v
InverseTCMS(v, W) == IF Bit(v, 0) THEN 2^WordBits(W) - 1 - (v \div 2) ELSE v \div 2

FlagBits(mode) == IF mode = "PLAIN" THEN 0 ELSE SubChunks
TagBits == 2 * Fan

LargestIn(words, S) == Max({0} \cup {words[j + 1] : j \in S})

Flagged(mode, words, i, W) ==
    LET S == PartOf(i, Len(words))
    IN  /\ mode # "PLAIN"
        /\ LargestIn([j \in DOMAIN words |-> TCMS(words[j], W)], S) < LargestIn(words, S)

\* Bits set by a value of the given width stored at a bit position.
BitsFor(v, at, width) == {at + b : b \in {b \in 0..width-1 : Bit(v, b)}}
ValueAt(bits, at, width) ==
    SumOver({b \in 0..width-1 : at + b \in bits}, LAMBDA b : 2^b)

\* Exclusive prefix sum of the bits of the parts.
PartOffset(width, i, n) ==
    SumOver(0..i-1, LAMBDA k : width[k] * Cardinality(PartOf(k, n)))

d_CLOGencode(mode, in, C, W) ==
    LET n == Len(in) \div W
        words == WordsIn(in, n, W)
        flag == Tabulated([i \in SubParts |-> Flagged(mode, words, i, W)])
        stored(i, j) == IF flag[i] THEN TCMS(words[j + 1], W) ELSE words[j + 1]
        width == Tabulated([i \in SubParts |->
                     BitWidth(Max({0} \cup {stored(i, j) : j \in PartOf(i, n)}))])
        head == FlagBits(mode) + TagBits
        base == head + CounterBits(W) * SubChunks
        newsize == CeilDiv(base + PartOffset(width, SubChunks, n), Fan)
        bits == UNION {BitsFor(width[i], head + CounterBits(W) * i, CounterBits(W))
                       \cup UNION {BitsFor(stored(i, j),
                                           base + PartOffset(width, i, n)
                                           + (j - PartBeg(i, n)) * width[i], width[i]) :
                                   j \in PartOf(i, n)} : i \in SubParts}
        flags == {i \in SubParts : flag[i]}
    IN  IF newsize + (Len(in) % W) >= C THEN Failed
        ELSE [ok |-> TRUE,
              out |-> BytesOf(flags, FlagBits(mode) \div Fan) \o SizeFooter(Len(in))
                      \o SubSeq(BytesOf(bits, newsize), head \div Fan + 1, newsize)
                      \o Leftover(in, W)]

d_CLOGdecode(mode, in, C, W) ==
    LET flagBytes == FlagBits(mode) \div Fan
        orig == in[flagBytes + 1] + 256 * in[flagBytes + 2]
        n == orig \div W
        extra == orig % W
        flags == BitsOf(SubSeq(in, 1, flagBytes))
        head == FlagBits(mode) + TagBits
        bits == {head + b : b \in BitsOf(SubSeq(in, head \div Fan + 1, Len(in)))}
        width == Tabulated([i \in SubParts |->
                     ValueAt(bits, head + CounterBits(W) * i, CounterBits(W))])
        base == head + CounterBits(W) * SubChunks
        partOf(j) == CHOOSE i \in SubParts : j \in PartOf(i, n)
        packed(i, j) == ValueAt(bits, base + PartOffset(width, i, n)
                                      + (j - PartBeg(i, n)) * width[i], width[i])
        word(j) == LET i == partOf(j)
                   IN  IF i \in flags THEN InverseTCMS(packed(i, j), W) ELSE packed(i, j)
    IN  WordBytes(Tabulated([p \in 1..n |-> word(p - 1)]), W)
        \o SubSeq(in, Len(in) - extra + 1, Len(in))

\* The aliases the stages call.
d_CLOG(in, C, W) == d_CLOGencode("PLAIN", in, C, W)
d_iCLOG(in, C, W) == d_CLOGdecode("PLAIN", in, C, W)
d_HCLOG(in, C, W) == d_CLOGencode("WITH_TCMS_FALLBACK", in, C, W)
d_iHCLOG(in, C, W) == d_CLOGdecode("WITH_TCMS_FALLBACK", in, C, W)
=============================================================================
