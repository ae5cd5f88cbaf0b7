------------------------------ MODULE MCCodecs ------------------------------
(* The codec stages on small inputs: a stage object of one configuration is  *)
(* called twice, on any two of the inputs of its kind, and every call is     *)
(* decoded.  Word widths, lanes, tiles, blocks and chunks are scaled down    *)
(* together, so that partial tiles, several warps and several chunks occur   *)
(* on inputs of about ten elements.                                          *)
EXTENDS Rle, Bitpack, GolombRice, AdaptiveLorenzo, Ginterp, Gpulz, Huffman, Szx, Bitshuffle,
        LogTransform, Structural, QuantStage, ChunkFusion

CONSTANT Kinds   \* the stages of this run

Base(kind, data, size, eb) == [kind |-> kind, data |-> data, size |-> size, eb |-> eb, rel |-> 0]
NoDims == <<0, 1, 1>>   \* dimensions left at their default

MCRle == {Base("rle", "runs", s, 0) @@ [chunk |-> c * s] : s \in {1, 2, 8}, c \in {0, 3}}

BitpackOf(size, autoBase, autoShift, autoDetect, base, shift) ==
    Base("bitpack", "small", size, 0)
    @@ [autoBase |-> autoBase, autoShift |-> autoShift, autoDetect |-> autoDetect,
        base |-> base, shift |-> shift, nbits |-> 8]
MCBitpack == {BitpackOf(1, TRUE, TRUE, TRUE, 0, 0), BitpackOf(2, TRUE, TRUE, TRUE, 0, 0),
              BitpackOf(1, FALSE, FALSE, TRUE, 0, 0), BitpackOf(2, FALSE, TRUE, TRUE, 4, 0),
              BitpackOf(2, FALSE, FALSE, FALSE, 4, 1)}

GolombOf(rebuilt) ==
    Base("golomb", "residuals", 4, 0)
    @@ [bits |-> 6, escape |-> 3, kMax |-> 4, intervals |-> 2, chunk |-> 32, rebuilt |-> rebuilt]

MCAdaptive ==
    {Base("adaptive", "narrow", 2, 0)
     @@ [bits |-> 4, block |-> b, outlier |-> o, lanes |-> 4, byte |-> 2, scalar |-> s,
         encodeTr |-> e, decodeTr |-> d] :
        b \in {4, 5, 8}, o \in BOOLEAN, s \in BOOLEAN, e \in {0, 2}, d \in {0, 3}}

MCRecode ==
    {Base("zigzag", "words", 2, 0) @@ [bits |-> 4, tail |-> t] : t \in 0..1}
    \cup {Base("negabinary", "words", 2, 0) @@ [bits |-> 4, tail |-> 0]}
    \cup {Base("difference", "words", 2, 0) @@ [bits |-> 4, chunk |-> c, tile |-> 3, mode |-> m] :
             c \in {0, 1, 4, 8, 6}, m \in {"plain", "negabinary", "zigzag"}}

LorenzoOf(data, block, centering, order, dims) ==
    Base("lorenzo", data, 1, 0)
    @@ [bits |-> 4, block |-> block, centering |-> centering, order |-> order, dims |-> dims,
        lanes |-> 2, seqFrom |-> 4, dflt |-> 4, line |-> 2]
MCLorenzo ==
    {LorenzoOf("words", b, c, o, NoDims) : b \in {0, 2, 3, 4, 6, 8, 12}, c \in BOOLEAN, o \in 1..2}
    \cup {LorenzoOf("boxes", 0, FALSE, 1, d) :
             d \in {<<3, 4, 1>>, <<4, 3, 1>>, <<3, 2, 2>>, <<2, 2, 3>>, <<1, 3, 4>>}}

TiledOf(dims, tile, predict) ==
    Base("tiled", "boxes", 2, 0) @@ [bits |-> 4, dims |-> dims, tile |-> tile, predict |-> predict]
MCTiled ==
    {TiledOf(d, t, p) : d \in {<<3, 4, 1>>, <<3, 2, 2>>, <<12, 1, 1>>},
                        t \in {<<>>, <<2, 2, 1>>, <<2, 0, 2>>, <<2, 2, 2>>}, p \in BOOLEAN}
    \cup {TiledOf(NoDims, <<4, 1, 1>>, TRUE)}

LquantOf(data, mode, eb, errorBound, den, radius, zigzag, centering, cap, dims) ==
    Base("lquant", data, 4, eb)
    @@ [errorBound |-> errorBound, den |-> den, ebMode |-> mode, base |-> 0, epsInv |-> 8,
        radius |-> radius, codeSize |-> 2, codeBits |-> 4, zigzag |-> zigzag,
        centering |-> centering, cap |-> cap, capDen |-> 4, dims |-> dims,
        tile |-> <<8, 4, 2>>, seq |-> 2, lanes |-> 2, bits |-> 20]
MCLquant ==
    {LquantOf("levels", "ABS", 2, 2, 1, r, z, c, 1, NoDims) :
        r \in {4, 8, 20}, z \in BOOLEAN, c \in BOOLEAN}
    \cup {LquantOf("grids", "ABS", 1, 1, 1, 8, z, c, 2, d) : z \in BOOLEAN, c \in BOOLEAN,
             d \in {<<3, 4, 1>>, <<6, 2, 1>>, <<0, 6, 1>>, <<3, 2, 2>>, <<2, 2, 3>>}}
    \cup {LquantOf("range8", "NOA", 2, 1, 4, 8, TRUE, FALSE, 2, NoDims),
          LquantOf("peak8", "PREL", 2, 1, 4, 8, TRUE, FALSE, 2, NoDims)}
    \* No outlier is kept: the bound is given up.
    \cup {LquantOf("levels", "ABS", 1000, 2, 1, 4, TRUE, FALSE, 0, NoDims)}

AlorenzoOf(kind, data, eb, mode, errorBound, den, order2, centering, outlier) ==
    Base(kind, data, 2, eb)
    @@ [bits |-> 8, block |-> 2, byte |-> 2, lanes |-> 2, perTile |-> 2, order2 |-> order2,
        centering |-> centering, outlier |-> outlier, scalar |-> FALSE,
        errorBound |-> errorBound, den |-> den, ebMode |-> mode, base |-> 0]
MCAlorenzo ==
    {AlorenzoOf("alorenzo", "tiles", 0, "ABS", 1, 1, o, c, out) :
        o \in BOOLEAN, c \in BOOLEAN, out \in BOOLEAN}
    \cup {AlorenzoOf("qalorenzo", "levels", 3, "ABS", 3, 1, TRUE, c, TRUE) : c \in BOOLEAN}
    \cup {AlorenzoOf("qalorenzo", "range8", 2, "NOA", 1, 4, TRUE, TRUE, FALSE)}

GinterpOf(data, ebMode, eb, errorBound, den, radius, cap, dims, levels, mode) ==
    Base("ginterp", data, 4, eb)
    @@ [errorBound |-> errorBound, den |-> den, ebMode |-> ebMode, base |-> 0,
        radius |-> radius, minRadius |-> 4, codeSize |-> 1, codeBits |-> 5, cap |-> cap,
        capDen |-> 4, dims |-> dims, levels |-> levels, stride |-> 1, mode |-> mode,
        alpha |-> 0, beta |-> 0, float |-> TRUE]
MCGinterp ==
    {GinterpOf("grid42", "ABS", 12, 12, 1, r, 4, <<6, 7, 1>>, 2, m) : m \in 0..5, r \in {0, 4}}
    \cup {GinterpOf("grid90", "ABS", 24, 24, 1, 8, 4, <<9, 10, 1>>, 3, m) : m \in {0, 2, 4}}
    \cup {GinterpOf("grid60", "ABS", 12, 12, 1, 8, 4, <<5, 4, 3>>, 2, m) : m \in 0..4}
    \cup {GinterpOf("grid54", "ABS", 24, 24, 1, 8, 4, <<9, 3, 2>>, 3, m) : m \in {0, 2, 3}}
    \cup {GinterpOf("range100", m, 25, 1, 4, 0, 4, <<3, 2, 1>>, 2, 5) : m \in {"NOA", "PREL"}}
    \cup {GinterpOf("grid42", "ABS", 12, 12, 1, 4, 1, <<0, 0, 0>>, 2, 5)}
    \cup {[GinterpOf("grid42", "ABS", 12, 12, 1, 4, 1, <<6, 7, 1>>, 2, 5) EXCEPT
              !.alpha = 1500, !.beta = 3, !.float = FALSE]}

GpulzOf(data, size, level, split) ==
    Base("gpulz", data, size, 0)
    @@ [chunk |-> 8, window |-> 3, maxMatch |-> 5, maxOffset |-> 6, level |-> level, rounds |-> 2,
        early |-> 4, hash |-> 7, jumps |-> 3, byte |-> 2, split |-> split]
MCGpulz == {GpulzOf("repeats", s, l, FALSE) : s \in {1, 2, 4}, l \in 0..1}
           \cup {GpulzOf("nonzero", s, l, TRUE) : s \in {1, 2, 4}, l \in 0..1}

HuffmanOf(data, mode, source, freq) ==
    Base("huffman", data, 2, 0)
    @@ [hint |-> IF mode = "device" THEN 30 ELSE 0, mode |-> mode, source |-> source, bklen |-> 8, freq |-> freq, cell |-> 8, field |-> 3,
        wide |-> 5, target |-> 4, minSublen |-> 3, next |-> 4, maxSublen |-> 8, warps |-> 2,
        blocks |-> 2, lanes |-> 2, shift |-> 4, threshold |-> <<6, 5>>, interval |-> 0, validate |-> TRUE]
HuffmanAll(data, mode) ==
    {HuffmanOf(data, mode, s, <<>>) : s \in {"block", "adaptive"}}
    \cup {HuffmanOf(data, mode, "fixed", f) :
             f \in {<<>>, <<5, 6, 7, 8, 9, 10, 11>>, [s \in 1..8 |-> 2^s], [s \in 1..8 |-> Min({2^s, 16})],
                    <<1, 0, 1, 1, 1, 1, 1, 1>>}}
    \cup {[HuffmanOf(data, mode, "adaptive", <<>>) EXCEPT !.interval = 1]}
MCHuffman == HuffmanAll("symbols", "host") \cup HuffmanAll("resized", "device")

SzxOf(data, eb, mode, errorBound, den, block) ==
    Base("szx", data, 4, eb) @@ [block |-> block, ebMode |-> mode, errorBound |-> errorBound, den |-> den]
MCSzx == {SzxOf("evens", e, "ABS", e, 1, b) : e \in {1, 5}, b \in {3, 8}}
         \cup {SzxOf("spread40", 5, "NOA", 1, 8, 4), SzxOf("evens", 0, "ABS", 0, 1, 4)}

BitshuffleOf(data, size, bits, block, encSmem, decSmem) ==
    Base("bitshuffle", data, size, 0)
    @@ [bits |-> bits, block |-> block, lanes |-> 4, unit |-> 8, encSmem |-> encSmem, decSmem |-> decSmem]
MCBitshuffle ==
    {BitshuffleOf("below4", 1, 2, b, 0, 0) : b \in {8, 16}}
    \cup {BitshuffleOf("below8", 2, 3, b, 0, 0) : b \in {16, 32, 24}}
    \cup {BitshuffleOf("below16", 4, 4, b, e, d) : b \in {32, 64}, e \in {0, 48, 100}, d \in {0, 100}}
    \cup {BitshuffleOf("below256", 8, 8, b, 0, 0) : b \in {64, 128}}

LogOf(errorBound, threshold, cap, minSlots) ==
    Base("log", "wide", 4, 0)
    @@ [errorBound |-> errorBound, minBound |-> 2, threshold |-> threshold, inf |-> 1024, cap |-> cap,
        capDen |-> 4, minSlots |-> minSlots, byte |-> 3]
MCLog == {LogOf(5, t, c, m) : t \in {0, 4}, c \in {1, 4}, m \in {0, 2}}
         \cup {LogOf(b, 0, 4, 2) : b \in 0..1}

MergeOf(names, header, rebuilt) ==
    Base("merge", "segments", 1, 0) @@ [names |-> names, header |-> header, rebuilt |-> rebuilt]
RoibinOf(data, dims, peaks, half, bin, eb) ==
    Base("roibin", data, 4, eb) @@ [dims |-> dims, peaks |-> peaks, half |-> half, bin |-> bin]
Peak(x, y, z) == [x |-> x, y |-> y, z |-> z]
MCStructural ==
    {Base("tupl", "below16", s, 0) @@ [block |-> b, dim |-> d] : s \in {1, 2}, b \in {5, 8, 14}, d \in 1..3}
    \cup {MergeOf(<<3, 4, 3>>, h, r) : h \in {20, 40}, r \in BOOLEAN} \cup {MergeOf(<<>>, 40, FALSE)}
    \cup {RoibinOf("field30", d, p, h, 1, 0) : h \in 0..1,
             d \in {<<5, 6, 1>>, <<5, 3, 2>>, <<0, 0, 1>>, <<7, 6, 1>>},
             p \in {<<>>, <<Peak(0, 0, 0), Peak(1, 1, 0)>>, <<Peak(4, 2, 1)>>}}
    \* Every bin is flat, or inside the box.
    \cup {RoibinOf("bins25", <<5, 5, 1>>, p, 1, 2, 0) : p \in {<<Peak(1, 1, 0)>>, <<Peak(0, 0, 0), Peak(1, 1, 0)>>}}

QuantOf(data, eb, ebMode, errorBound, den) ==
    Base("quant", data, 4, eb)
    @@ [linear |-> ebMode # "REL", ebMode |-> ebMode, errorBound |-> errorBound, den |-> den, base |-> 0,
        pow2 |-> FALSE, hp |-> FALSE, mant |-> 5, epsInv |-> 16, codeSize |-> 2, codeBits |-> 5,
        radius |-> 4, threshold |-> 5000, cap |-> 1, capDen |-> 2, dither |-> FALSE, zigzag |-> FALSE,
        inplace |-> FALSE]
MCQuantStage ==
    \* Rounding the result to a float may cost half a spacing more, unless it is reserved.
    {[QuantOf("floats", IF h THEN e ELSE e + 8, "ABS", e, 1) EXCEPT !.hp = h] :
        e \in {8, 12, 40}, h \in BOOLEAN}
    \cup {[QuantOf("floats", 8, "ABS", 12, 1) EXCEPT !.hp = h, !.pow2 = TRUE] : h \in BOOLEAN}
    \cup {[QuantOf("floats", 48, m, 1, 8) EXCEPT !.hp = h, !.base = b] :
             m \in {"NOA", "PREL"}, h \in BOOLEAN, b \in {0, 160}}
    \cup {[QuantOf("floats", 1, "ABS", 12, 1) EXCEPT ![f] = TRUE] : f \in {"dither", "zigzag", "inplace"}}
    \cup {[rel |-> 1] @@ [QuantOf("sixteenths", 0, "REL", 1, 1) EXCEPT !.dither = d, !.radius = r, !.codeBits = c, !.cap = k] :
             d \in BOOLEAN, r \in {2, 4}, c \in {4, 5}, k \in 1..2}

ChunkFusedOf(eb, radius, threshold, inplace, cap, transforms, coder) ==
    Base("chunkfused", "spikes", 4, eb)
    @@ [radius |-> radius, threshold |-> threshold, inplace |-> inplace, cap |-> cap, capDen |-> 4,
        transforms |-> transforms, coder |-> coder, bits |-> 8, chunk |-> 64, block |-> 64,
        lanes |-> 8, tile |-> 4, mode |-> "negabinary", escape |-> 4, kMax |-> 5, intervals |-> 2]
MCChunkFused ==
    {ChunkFusedOf(1, 8, 40, i, 1, <<"DiffNegabinary", "Bitshuffle32">>, c) : i \in BOOLEAN,
        c \in {"RZECoder", "RRECoder", "RARECoder", "RAZECoder", "CLOGCoder", "HCLOGCoder"}}
    \cup {ChunkFusedOf(2, 5, 64, i, 2, <<"DiffPlain">>, "GolombRiceCoder") : i \in BOOLEAN}
    \cup {ChunkFusedOf(2, 5, 12, TRUE, 2, t, "RZECoder") : t \in {<<>>, <<"Bitshuffle32">>, <<"DiffNegabinary">>}}
    \* No outlier is kept: the bound is given up.
    \cup {ChunkFusedOf(64, 1, 64, FALSE, 0, <<"DiffNegabinary", "Bitshuffle32">>, "RZECoder")}

MCAllConfigs ==
    MCRle \cup MCBitpack \cup {GolombOf(FALSE)} \cup MCAdaptive \cup MCRecode \cup MCLorenzo
    \cup MCTiled \cup MCLquant \cup MCAlorenzo \cup MCGinterp \cup MCGpulz \cup MCHuffman
    \cup MCSzx \cup MCBitshuffle \cup MCLog \cup MCStructural \cup MCQuantStage
    \cup MCChunkFused
MCConfigs == {c \in MCAllConfigs : c.kind \in Kinds}
\* Runs of their own: a decoder that is a new stage object, built from the
\* serialised header; host Huffman whose second call has fewer partitions than
\* its first; SZx whose empty call follows one of more than 64 bytes.
MCGolombRebuilt == {GolombOf(TRUE)}
MCHuffmanResized == HuffmanAll("resized", "host")
MCSzxEmptied == {SzxOf("emptied", 1, "ABS", 1, 1, 8)}

Wave(n, a, b, c) == [i \in 1..n |-> (a * i * i + b * i) % c]
Waves(m) == {<<>>, Wave(8, 7, 3, m), Wave(19, 5, 11, m), Wave(32, 37, 5, m), [i \in 1..16 |-> m - 1]}
MCNonzero ==
    {<<1, 2, 1, 2, 1, 2, 1, 2>>, <<5>>, <<7, 7, 7, 7, 7, 7, 7, 7, 7, 3, 9>>,
     [i \in 1..24 |-> IF i \in 9..16 THEN 0 ELSE i % 4], <<1, 2, 3, 4, 5, 6, 7, 8, 0, 0, 0>>,
     <<3, 4, 9, 9, 3, 4, 1, 3, 1, 1, 1, 1, 1, 1, 0, 0>>}
\* All of four partitions: host Huffman would also pack the partitions a longer
\* call left behind (the runs on MCHuffmanResized).
MCSymbols ==
    {<<>>, <<0, 0, 0, 0, 0, 0, 0, 0, 0, 0, 0, 0>>, <<1, 0, 5, 3, 4, 2, 1, 1, 1, 2, 2>>,
     <<0, 1, 1, 2, 2, 2, 2, 3, 0, 1, 8>>, <<3, 3, 3, 3, 3, 4, 4, 5, 5, 5, 1, 2>>}
MCSpikes ==
    {<<>>, [i \in 1..16 |-> 0], [i \in 1..21 |-> IF i \in {4, 5, 18} THEN 50 - 30 * (i % 4) ELSE i \div 3],
     Wave(33, 37, 5, 60), <<-63, 1, 2>>, [i \in 1..32 |-> IF i < 20 THEN ((2 * i) % 5) - 2 ELSE 7]}
MCInputs ==
    [spikes |-> MCSpikes, symbols |-> MCSymbols,
     resized |-> MCSymbols \cup {<<0, 1, 2, 3, 4, 5, 6, 7, 0, 0, 0, 0, 0, 0, 0, 0, 0, 1, 2, 3, 7>>, <<2>>},
     repeats |-> MCNonzero \cup {<<>>, Wave(10, 0, 0, 1)},
     nonzero |-> MCNonzero,
     runs |-> {<<1>>, <<1, 1, 1, 1, 2>>, <<1, 1, 1, 1, 1, 1, 2>>, <<1, 2, 3>>,
               <<5, 5, 0, 0, 0, 7, 7, 7, 7, 1, 1>>},
     small |-> {<<4, 4, 4>>, <<4, 6, 8>>, <<4, 8, 12, 4, 128>>, <<6, 250>>},
     residuals |-> {<<0, 0, 0, 0, 0, 0, 0, 0>>, <<1, -1, 0, 2, -2, -30, 0, 1, 5>>,
                    <<31, -32, 30, 29, 12, 13, 20, 1>>, <<0, 0, 0, 0, 0>>, <<7>>,
                    <<3, -3, 1, 0, 0, 0, 1, 0, 1, 2, 3, 4, 0, 0, 0, 0, 0>>},
     narrow |-> {<<7, -1, 0, 1, 0, 1, 1, 1, 0, 0>>, <<-8, 7, -3, 2>>, <<0, 0, 0, 0, 0>>,
                 <<-7, 0, 0, 0, 0, 0, 0, 0, 1>>, <<0, 3, -5, 6, 1>>},
     words |-> {<<>>, <<7, -8, 3>>, <<-1, 0, 7, 7, -8, -8, 5>>,
                <<1, 2, 3, 4, 5, 6, 7, -8, -7, -6, -5, -4, -3>>},
     boxes |-> {<<7, -8, 3, 0, 0, 1, 2, -3, -4, 5, 6, -7>>, <<1, 1, 1, 1, 2, 2, 2, 2, 3, 3, 3, 3>>},
     levels |-> {<<>>, <<3, -17, 5, 100, 101, 102, 0, 0, 9, 10, 250>>,
                 <<0, 1, 2, 3, 4, 5, 6, 7, 8, 9>>, <<-64>>},
     grids |-> {<<3, 5, 8, -2, 0, 0, 1, 2, 90, 7, 3, 4>>, <<1, 2, 3, 4, 5, 6, 7, 8, 9, 10, 11, 12>>},
     below4 |-> Waves(4), below8 |-> Waves(8), below16 |-> Waves(16), below256 |-> Waves(256),
     wide |-> {<<>>, <<8, -8, 16, 0, 2, -1, 1024, 4>>, <<3, -2, -2, -2, 512, 512, 1>>, <<0, 0, 5>>, <<-4>>,
               <<-1, -2, -4, -8, -16, -32, 64>>},
     segments |-> {<<>>, <<101, 102, 301>>, <<101, 102, 103, 201, 202, 301>>, <<201, 202>>},
     field30 |-> {Wave(30, 3, 5, 101)},
     bins25 |-> {<<90, -5, 7, 7, 1, 13, 22, 7, 7, 1, 8, 8, 4, 4, 9, 8, 8, 4, 4, 9, 2, 2, 6, 6, 3>>},
     floats |-> {<<160, -160, 0, 38, 2, 4, 22>>, <<320, 304, -16>>, <<6, 8, 10, 12, 30>>, <<62, 62>>},
     sixteenths |-> {<<16, 17, 64, 128, 3, 1, -2, -32, 511, 30>>, <<0, 16, -16, 4096, 6000>>, <<8, 8, 33, 32, 31, 9>>,
                     <<1, -1, 2, -2, 3, -5>>},
     \* SZx archives below the 64 bytes its estimate always grants: an empty call
     \* reports the size of the one before.
     evens |-> {<<>>, <<2, 4, 6, 100, -100, 8, 10, 10, 10, 4>>, <<0, 10, 4, 6, 8, 2, 4, 0>>, <<-2>>,
                <<512, 0, 0, -6, -4, -2, 30, 32, 60, 60, 62>>},
     emptied |-> {<<>>, [i \in 1..48 |-> 2 * ((37 * i) % 100)]},
     spread40 |-> {<<0, 40, 2, 4, 6, 10, 12, 14, 12>>, <<-40, 0, -2>>, <<6, 6, 6>>},
     range8 |-> {<<0, 8, 3, 1, 5>>, <<5, 5, 5>>, <<100, 108, 104>>, <<0, -8, -1>>},
     peak8 |-> {<<0, 8, 3, 1, 5>>, <<0, 0, 0>>, <<0, -8, -1>>},
     tiles |-> {<<>>, <<1, 3, 5, 7, 9, 11, 13, 15, 100, 101, 100, 101, 101, 102, -100, 3, 4, -7, -7, -7, -7>>,
                <<50, 51, 50, 51, 50, 60, 70, 80, 5>>, <<100, 100, 100, 100, 1, 9, 17, 25, 3>>},
     grid42 |-> {<<>>, Wave(42, 0, 7, 1000), Wave(42, 13, 5, 211), Wave(42, 0, 0, 1)},
     grid90 |-> {Wave(90, 0, 9, 500), Wave(90, 3, 5, 150)},
     grid60 |-> {Wave(60, 0, 11, 400), Wave(60, 3, 5, 150)},
     grid54 |-> {Wave(54, 0, 11, 400), Wave(54, 7, 1, 150)},
     range100 |-> {<<0, 100, 40, 30, 20, 99>>}]

CodecNext ==
    \/ RleNext \/ BitpackNext \/ GolombRiceNext \/ AdaptiveNext \/ RecodeNext \/ LorenzoNext
    \/ TiledLorenzoNext \/ LorenzoQuantNext \/ AdaptiveLorenzoNext \/ GinterpNext \/ GpulzNext
    \/ HuffmanNext \/ SzxNext \/ BitshuffleNext \/ LogNext \/ StructuralNext
    \/ QuantStageNext \/ ChunkFusionNext
CodecSpec == StageInit /\ [][CodecNext]_stVars
=============================================================================
