-------------------------------- MODULE Szx ---------------------------------
(* SZxStage: a block whose values lie within the bound of their midpoint is  *)
(* stored as the midpoint alone; the codes of any other block are quantised  *)
(* against the midpoint and packed at the width of the widest one.  The      *)
(* metadata of all blocks comes first, so that the decoder recomputes where  *)
(* every block starts.                                                       *)
(* stConf: [kind |-> "szx", size, block, errorBound, den, ebMode]: the bound *)
(* is errorBound / den; inputs are even, which keeps midpoints integers.     *)
(* stMem: [n, eb, blocks, total]: num_elements_, abs_eb_, fwd_num_blocks_    *)
(* and what postStreamSync() reads back: the payload's last offset and cost. *)
EXTENDS StageBase

SzxMem == stMem @@ [n |-> 0, eb |-> 0, blocks |-> 0, total |-> 0]
SzxBlocks(n) == DivUp(n, stConf.block)
kMetaBytesPerBlock == 2
SzxEstimate(n) ==
    kMetaBytesPerBlock * SzxBlocks(n) + SzxBlocks(n) * stConf.size + n * 8 + 64

\* putBits clears the zeros too: the buffer still holds an earlier archive.
putBits(u, w) == [b \in 1..w |-> (u \div 2^(b - 1)) % 2]
getBits(bits) == SumSeq([b \in DOMAIN bits |-> bits[b] * 2^(b - 1)])
zigzag64(q) == IF q < 0 THEN -2 * q - 1 ELSE 2 * q
unzigzag64(u) == IF u % 2 = 0 THEN u \div 2 ELSE -((u + 1) \div 2)
\* 64 - clz; the codes stay below 2^20.
bitWidth64(u) == IF u = 0 THEN 0 ELSE Min({w \in 1..20 : u < 2^w})
llround(num, den) ==
    LET r == (2 * AbsOf(num) + den) \div (2 * den) IN IF num < 0 THEN -r ELSE r

SzxAbsEb(x) ==
    (IF stConf.ebMode = "NOA" THEN stConf.errorBound * (Max(ToSet(x)) - Min(ToSet(x)))
                              ELSE stConf.errorBound) \div stConf.den

SzxCode(x, ref, eb) == zigzag64(llround(x - ref, 2 * eb))
\* [coded, width, ref] of a block.
ClassifyBlock(values, eb) ==
    LET ref == (Max(values) + Min(values)) \div 2
        widest == Max({SzxCode(v, ref, eb) : v \in values})
    IN  IF Max(values) - Min(values) <= 2 * eb
          THEN [coded |-> FALSE, width |-> 0, ref |-> ref]
          ELSE [coded |-> TRUE, width |-> bitWidth64(widest), ref |-> ref]
classifyKernel(blocks, eb) ==
    [b \in DOMAIN blocks |-> ClassifyBlock(ToSet(blocks[b]), eb)]

\* The payload of a block: the reference, then its codes bit by bit.
EncodeBlockSzx(block, c, eb) ==
    [ref |-> c.ref,
     codes |-> IF c.coded THEN FlattenSeq([i \in DOMAIN block |-> putBits(SzxCode(block[i], c.ref, eb), c.width)])
                          ELSE <<>>]
SzxBlockCost(c, len) == stConf.size + (IF c.coded THEN DivUp(len * c.width, 8) ELSE 0)
SzxLen(n, b) == Min({stConf.block, n - (b - 1) * stConf.block})
\* Both sides: exclusive sums of the costs the metadata tells.
costFromMetaKernel(meta, n) == ExclusiveSums([b \in DOMAIN meta |-> SzxBlockCost(meta[b], SzxLen(n, b))])

SzxArchive(blocks, meta, offsets, eb) ==
    LET start(b) == kMetaBytesPerBlock * Len(meta) + offsets[b]
    IN  (0 :> [b \in DOMAIN meta |-> [coded |-> meta[b].coded, width |-> meta[b].width]])
        @@ [at \in {start(b) : b \in DOMAIN meta} |->
              LET b == CHOOSE c \in DOMAIN meta : start(c) = at
              IN  EncodeBlockSzx(blocks[b], meta[b], eb)]

\* An empty call returns before it touches the block count of the last call.
SzxEmpty ==
    /\ StageReady("szx")
    /\ <<>> \in StageInputs[stConf.data]
    /\ ExecutedAs(<<>>, [SzxMem EXCEPT !.n = 0], <<>>, SzxEstimate(0))
\* A bound that resolves to zero is refused after num_elements_ is set.
SzxRefused ==
    /\ StageReady("szx")
    /\ \E x \in StageInputs[stConf.data] \ {<<>>} :
        /\ SzxAbsEb(x) <= 0
        /\ RefusedLeaving(x, [SzxMem EXCEPT !.n = Len(x), !.eb = SzxAbsEb(x)])
SzxForward ==
    /\ StageReady("szx")
    /\ \E x \in StageInputs[stConf.data] \ {<<>>} : \E eb \in {SzxAbsEb(x)} :
        /\ eb > 0
        /\ \E blocks \in {[b \in 1..SzxBlocks(Len(x)) |-> PieceOf(x, stConf.block, b)] @@ <<>>} :
           \E meta \in {classifyKernel(blocks, eb) @@ <<>>} :
           \E offsets \in {costFromMetaKernel(meta, Len(x))} :
               ExecutedAs(x, [n |-> Len(x), eb |-> eb, blocks |-> Len(meta), total |-> Last(offsets)],
                          SzxArchive(blocks, meta, offsets, eb), SzxEstimate(Len(x)))

SzxPostStreamSync ==
    /\ Awaited("szx")
    /\ SizedAs("szx", <<>>, kMetaBytesPerBlock * stMem.blocks + stMem.total)

SzxDecodeBlock(stored, c, eb, len) ==
    [i \in 1..len |-> IF c.coded THEN stored.ref + 2 * eb * unzigzag64(getBits(PieceOf(stored.codes, c.width, i)))
                                 ELSE stored.ref]
SzxDecoded(meta, offsets, n, eb) ==
    FlattenSeq([b \in DOMAIN meta |->
        SzxDecodeBlock(Section(stArchive, kMetaBytesPerBlock * Len(meta) + offsets[b]),
                       meta[b], eb, SzxLen(n, b))])
\* num_elements_, abs_eb_ and the block size are the header: a decoder built
\* from it has what the encoder kept.
SzxInverse ==
    /\ CanDecode("szx")
    /\ \E meta \in {SubSeq(Section(stArchive, 0), 1, SzxBlocks(stMem.n))} :
       \E offsets \in {costFromMetaKernel(meta, stMem.n)} :
           DecodedAs(SzxDecoded(meta, offsets, stMem.n, stMem.eb), stMem.n)

SzxNext == SzxEmpty \/ SzxRefused \/ SzxForward \/ SzxPostStreamSync \/ SzxInverse
=============================================================================
