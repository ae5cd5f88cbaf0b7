----------------------------- MODULE Structural -----------------------------
(* The stages that move data and do not code it.  TUPLStage regroups the     *)
(* fields of tuples within each block.  MergeStage concatenates its inputs   *)
(* and keeps their sizes.  ROIBinSplitStage copies a box around every peak   *)
(* and bins the rest; boxes overlap and are clamped at the border.           *)
(* stConf: [kind |-> "tupl", size, block, dim]; [kind |-> "merge", size,     *)
(* names, header, rebuilt], lengths of the segment names, bytes a stage      *)
(* header may take, whether the decoder is a new object; [kind |-> "roibin", *)
(* size, dims, peaks, half, bin].                                            *)
EXTENDS StageBase

TuplOk == stConf.dim >= 2 /\ stConf.block > 0 /\ stConf.block % stConf.size = 0
BlockWords == stConf.block \div stConf.size
Tuples == BlockWords \div stConf.dim
\* Where word i of a block goes, from 0; what is no whole tuple stays.
TuplIndex(i) == IF i < Tuples * stConf.dim THEN i \div stConf.dim + (i % stConf.dim) * Tuples ELSE i
tuplEncodeKernel(b) ==
    [j \in 1..BlockWords |-> b[1 + CHOOSE i \in 0..BlockWords-1 : TuplIndex(i) = j - 1]]
tuplDecodeKernel(b) == [i \in 1..BlockWords |-> b[TuplIndex(i - 1) + 1]]
TuplBlocks(x) == [c \in 1..(Len(x) \div BlockWords) |-> PieceOf(x, BlockWords, c)]
TuplTail(x) == SubSeq(x, (Len(x) \div BlockWords) * BlockWords + 1, Len(x))
TuplEncoded(blocks) == FlattenSeq([c \in DOMAIN blocks |-> tuplEncodeKernel(blocks[c])])
DecodedBlocks(blocks) == FlattenSeq([c \in DOMAIN blocks |-> tuplDecodeKernel(blocks[c])])
TuplForward ==
    /\ StageReady("tupl")
    /\ \E x \in StageInputs[stConf.data] :
        /\ x # <<>> => TuplOk
        /\ ExecutedSized(x, [n |-> Len(x)],
                         "output" :> (IF x = <<>> THEN <<>> ELSE TuplEncoded(TuplBlocks(x)) \o TuplTail(x)),
                         Len(x) * stConf.size, Len(x) * stConf.size)
TuplRefused ==
    /\ StageReady("tupl")
    /\ ~TuplOk
    /\ \E x \in StageInputs[stConf.data] \ {<<>>} : Refused(x)
TuplInverse ==
    /\ CanDecode("tupl")
    /\ \E v \in {Section(stArchive, "output")} :
        DecodedAs(IF v = <<>> THEN <<>> ELSE DecodedBlocks(TuplBlocks(v)) \o TuplTail(v), Len(v))

-----------------------------------------------------------------------------
\* An input lists the bytes of all segments, byte b of segment s as 100 s + b.
Segments == DOMAIN stConf.names
SegmentOf(x, s) == SelectSeq(x, LAMBDA v : v \div 100 = s)
MergeForward ==
    /\ StageReady("merge")
    /\ Segments # {}
    /\ \E x \in StageInputs[stConf.data] :
       \E parts \in {[s \in Segments |-> SegmentOf(x, s)] @@ <<>>} :
        ExecutedSized(x, [sizes |-> [s \in Segments |-> Len(parts[s])]],
                      "output" :> FlattenSeq([s \in Segments |-> [i \in DOMAIN parts[s] |-> parts[s][i] % 100]]),
                      Len(x), Len(x))
\* setSegmentNames() was not called.
MergeUnnamed ==
    /\ StageReady("merge")
    /\ Segments = {}
    /\ \E x \in StageInputs[stConf.data] : Refused(x)
\* A table that exceeds the header is left out, without an error.
MergeHeaderFits == 1 + 4 * Len(stConf.names) + SumSeq([s \in Segments |-> 1 + stConf.names[s]]) <= stConf.header
MergeInverse ==
    /\ CanDecode("merge")
    /\ stConf.rebuilt => MergeHeaderFits
    /\ \E off \in {ExclusiveSums(stMem.sizes)} :
       \E src \in {Section(stArchive, "output")} :
        DecodedAs(FlattenSeq([s \in Segments |->
                      [i \in 1..stMem.sizes[s] |-> 100 * s + src[off[s] + i]]]),
                  SumSeq(stMem.sizes))
\* The rebuilt stage has no segments and throws.
MergeUnreadable ==
    /\ CanDecode("merge")
    /\ stConf.rebuilt
    /\ ~MergeHeaderFits
    /\ stPhase' = "refused"
    /\ UNCHANGED <<stConf, stMem, stCall, stIn, stArchive, stActual, stEstimate, stOut, stOutEstimate>>

-----------------------------------------------------------------------------
Nx == stConf.dims[1]
Ny == stConf.dims[2]
Nz == stConf.dims[3]
Nel == Nx * Ny * Nz
Side == 2 * stConf.half + 1
clampi(v, lo, hi) == IF v < lo THEN lo ELSE IF v > hi THEN hi ELSE v
FieldIndex(x, y, z) == (z * Ny + y) * Nx + x + 1
\* The cell that entry i, from 0, of the boxes stands for.
RoiCell(peaks, i) ==
    LET pk == peaks[i \div (Side * Side) + 1]
        rem == i % (Side * Side)
    IN  FieldIndex(clampi(pk.x + (rem % Side) - stConf.half, 0, Nx - 1),
                   clampi(pk.y + (rem \div Side) - stConf.half, 0, Ny - 1),
                   IF pk.z < Nz THEN pk.z ELSE Nz - 1)
RoiCount == Len(stConf.peaks) * Side * Side
k_extract_roi(field, peaks) == [i \in 1..RoiCount |-> field[RoiCell(peaks, i - 1)]]
\* Entries of one cell are stored in any order: the first or the last stays.
k_scatter_roi(field, peaks, roi, pick) ==
    [c \in DOMAIN field |->
        LET at == {i \in 1..RoiCount : RoiCell(peaks, i - 1) = c}
        IN  IF at = {} THEN field[c] ELSE roi[IF pick = "first" THEN Min(at) ELSE Max(at)]]

BgNx == DivUp(Nx, stConf.bin)
BgNy == DivUp(Ny, stConf.bin)
BgCount == BgNx * BgNy * Nz
BinCells(i) ==
    LET z == i \div (BgNx * BgNy)
        by == (i % (BgNx * BgNy)) \div BgNx
        bx == i % BgNx
    IN  {FieldIndex(x, y, z) : x \in (bx * stConf.bin)..(Min({(bx + 1) * stConf.bin, Nx}) - 1),
                               y \in (by * stConf.bin)..(Min({(by + 1) * stConf.bin, Ny}) - 1)}
k_bin(field) ==
    [i \in 1..BgCount |-> LET cells == BinCells(i - 1)
                          IN  MapThenSumSet(LAMBDA c : field[c], cells) \div Cardinality(cells)]
k_unbin(bg) ==
    [c \in 1..Nel |->
        LET x == (c - 1) % Nx
            y == ((c - 1) \div Nx) % Ny
            z == (c - 1) \div (Nx * Ny)
        IN  bg[(z * BgNy + y \div stConf.bin) * BgNx + x \div stConf.bin + 1]]

RoibinBytes == (RoiCount + BgCount) * stConf.size + 8 * Len(stConf.peaks)
RoibinRefuses(x) == Nel = 0 \/ Len(x) < Nel
RoibinForward ==
    /\ StageReady("roibin")
    /\ \E x \in StageInputs[stConf.data] :
        /\ ~RoibinRefuses(x)
        /\ ExecutedSized(x, [n |-> 0],
                         [roi |-> k_extract_roi(x, stConf.peaks), peaks |-> stConf.peaks,
                          bg |-> IF stConf.bin = 1 THEN SubSeq(x, 1, Nel) ELSE k_bin(x)],
                         RoibinBytes, RoibinBytes)
RoibinRefused ==
    /\ StageReady("roibin")
    /\ \E x \in StageInputs[stConf.data] : RoibinRefuses(x) /\ Refused(x)
\* The header has the geometry and the number of peaks; the peaks themselves
\* are an output.  The background comes first, the boxes over it.
RoibinInverse ==
    /\ CanDecode("roibin")
    /\ \E bg \in {Section(stArchive, "bg")} :
       \E field \in {IF stConf.bin = 1 THEN bg ELSE k_unbin(bg) @@ <<>>} :
       \E pick \in {"first", "last"} :
        DecodedAs(k_scatter_roi(field, Section(stArchive, "peaks"), Section(stArchive, "roi"), pick), Nel)

StructuralNext ==
    \/ TuplForward \/ TuplRefused \/ TuplInverse
    \/ MergeForward \/ MergeUnnamed \/ MergeInverse \/ MergeUnreadable
    \/ RoibinForward \/ RoibinRefused \/ RoibinInverse
=============================================================================
