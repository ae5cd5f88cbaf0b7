------------------------------ MODULE Lorenzo -------------------------------
(* LorenzoStage: integer differences, in one dimension restarting at every   *)
(* block (optionally of second order, optionally around the block's mean,    *)
(* which goes to a port of its own) or in two and three dimensions over the  *)
(* whole array.  The inverse picks one of five prefix-sum kernels.           *)
(* stConf: [kind |-> "lorenzo", size, bits, block, centering, order, dims,   *)
(* lanes, seqFrom, dflt, line]: lanes of a warp, the block size above which  *)
(* a thread takes several elements, the default block, threads of a line.    *)
EXTENDS Recode

\* Powers of two below n, as the strides of a scan.
Strides(n) == SelectSeq(Indices(n - 1), PowerOfTwo)
Padded(v, n) == [i \in 1..n |-> IF i <= Len(v) THEN v[i] ELSE 0]
\* Inclusive scan: every element adds the one a stride before it, all at once.
StrideScan(v) ==
    FoldLeft(LAMBDA acc, d : [i \in DOMAIN acc |->
                                Wrap(acc[i] + (IF i > d THEN acc[i - d] ELSE 0))],
             v, Strides(Len(v)))
\* Passes of a scan over one block whose dead threads hold 0.
BlockScan(v, b, passes) ==
    IF passes = 2 THEN StrideScan(StrideScan(Padded(v, b))) ELSE StrideScan(Padded(v, b))
MeanOf(means, c) == IF c \in DOMAIN means THEN means[c] ELSE 0

lorenzo_delta_1d_kernel(x, b) ==
    [i \in DOMAIN x |-> Wrap(x[i] - (IF (i - 1) % b > 0 THEN x[i - 1] ELSE 0))]
lorenzo_scan_1d_kernel(x, b) ==
    [i \in DOMAIN x |-> LET c == (i - 1) \div b + 1
                        IN  BlockScan(PieceOf(x, b, c), b, 1)[i - (c - 1) * b]]
\* Blocks of one warp need no shared memory.
lorenzo_scan_1d_warp32_kernel(x) == lorenzo_scan_1d_kernel(x, stConf.lanes)
lorenzo_scan_any_kernel(x, means, b, passes) ==
    [i \in DOMAIN x |-> LET c == (i - 1) \div b + 1
                        IN  Wrap(BlockScan(PieceOf(x, b, c), b, passes)[i - (c - 1) * b]
                                 + MeanOf(means, c))]

\* One pass over a segment, `seq` elements a thread: own elements, then the
\* threads before it in the warp, then the warps before that.
\* Mutant: the warps before are not added.
SegmentPassOneWarp(v, seq) ==
    LET own(p) == SumSeq(SubSeq(v, ((p - 1) \div seq) * seq + 1, p))
        total(t) == own((t + 1) * seq)
        warp(t) == t \div stConf.lanes
        inWarp(w) == StrideScan([l \in 1..stConf.lanes |-> total(w * stConf.lanes + l - 1)])
    IN  [p \in DOMAIN v |->
            LET t == (p - 1) \div seq
            IN  Wrap(own(p) + inWarp(warp(t))[(t % stConf.lanes) + 1] - total(t))]
SegmentPass(v, seq) ==
    LET own(p) == SumSeq(SubSeq(v, ((p - 1) \div seq) * seq + 1, p))
        total(t) == own((t + 1) * seq)
        warp(t) == t \div stConf.lanes
        inWarp(w) == StrideScan([l \in 1..stConf.lanes |-> total(w * stConf.lanes + l - 1)])
        before(t) == SumSeq([w \in 1..warp(t) |-> inWarp(w - 1)[stConf.lanes]])
    IN  [p \in DOMAIN v |->
            LET t == (p - 1) \div seq
            IN  Wrap(own(p) + inWarp(warp(t))[(t % stConf.lanes) + 1] - total(t) + before(t))]
lorenzo_segmented_scan_kernel(x, means, b, seq, passes) ==
    LET scanned(c) == LET once == SegmentPass(Padded(PieceOf(x, b, c), b), seq)
                      IN  IF passes = 2 THEN SegmentPass(once, seq) ELSE once
    IN  [i \in DOMAIN x |-> LET c == (i - 1) \div b + 1
                            IN  Wrap(scanned(c)[i - (c - 1) * b] + MeanOf(means, c))]
segmentedScanShape(b) ==
    CASE b <= stConf.seqFrom -> 1
      [] b > stConf.seqFrom /\ (b \div 4) % stConf.lanes = 0 -> 4
      [] b > stConf.seqFrom /\ (b \div 4) % stConf.lanes # 0 /\ (b \div 2) % stConf.lanes = 0 -> 2
      [] OTHER -> 1
launchLorenzoSegmentedScan(x, means, b, passes) ==
    IF b % stConf.lanes # 0 THEN lorenzo_scan_any_kernel(x, means, b, passes)
    ELSE lorenzo_segmented_scan_kernel(x, means, b, segmentedScanShape(b), passes)

\* Tree sum over the threads of a block of any size, and the rounded mean.
TreeSum(v) ==
    FoldRight(LAMBDA d, acc : [i \in DOMAIN acc |->
                  IF i <= d /\ i + d <= Len(acc) THEN acc[i] + acc[i + d] ELSE acc[i]],
              Strides(Len(v)), v)[1]
RoundedMean(tot, count) ==
    IF tot >= 0 THEN (tot + count \div 2) \div count ELSE -((count \div 2 - tot) \div count)
BlockMeans(x, b) ==
    [c \in 1..DivUp(Len(x), b) |->
        RoundedMean(TreeSum(Padded(PieceOf(x, b, c), b)), Len(PieceOf(x, b, c)))]
lorenzo_delta_1d_centered_kernel(x, b, means) ==
    [i \in DOMAIN x |-> Wrap(x[i] - (IF (i - 1) % b > 0 THEN x[i - 1]
                                                        ELSE means[(i - 1) \div b + 1]))]
lorenzo2_delta_1d_kernel(x, b, means) ==
    LET v == [i \in DOMAIN x |-> Wrap(x[i] - MeanOf(means, (i - 1) \div b + 1))]
    IN  lorenzo_delta_1d_kernel(lorenzo_delta_1d_kernel(v, b), b)

-----------------------------------------------------------------------------
\* Two and three dimensions, x running fastest.
lorenzo_delta_2d_kernel(x, nx) ==
    LET at(i, dx, dy) == IF dx > (i - 1) % nx \/ dy > (i - 1) \div nx THEN 0
                         ELSE x[i - dy * nx - dx]
    IN  [i \in DOMAIN x |-> Wrap(at(i, 0, 0) - at(i, 1, 0) - at(i, 0, 1) + at(i, 1, 1))]
lorenzo_delta_3d_kernel(x, nx, ny) ==
    LET get(i, dx, dy, dz) ==
            IF dx > (i - 1) % nx \/ dy > ((i - 1) \div nx) % ny \/ dz > (i - 1) \div (nx * ny) THEN 0
            ELSE x[i - dz * nx * ny - dy * nx - dx]
    IN  [i \in DOMAIN x |->
            Wrap(get(i, 0, 0, 0) - get(i, 1, 0, 0) - get(i, 0, 1, 0) - get(i, 0, 0, 1)
                 + get(i, 1, 1, 0) + get(i, 1, 0, 1) + get(i, 0, 1, 1) - get(i, 1, 1, 1))]

\* Every line of `len` elements that are `stride` apart, tile by tile.
lorenzo_scan_line_kernel(x, len, stride) ==
    LET base(i) == (i - 1) - (((i - 1) \div stride) % len) * stride
        line(i) == [k \in 1..len |-> x[base(i) + (k - 1) * stride + 1]]
        tile(i, c) == BlockScan(PieceOf(line(i), stConf.line, c), stConf.line, 1)
        carry(i, c) == Wrap(SumSeq([k \in 1..c-1 |-> tile(i, k)[stConf.line]]))
    IN  [i \in DOMAIN x |->
            LET k == ((i - 1) \div stride) % len
                c == k \div stConf.line + 1
            IN  Wrap(tile(i, c)[(k % stConf.line) + 1] + carry(i, c))]
launchLorenzoPrefixSumKernel2D(x, nx, ny) ==
    lorenzo_scan_line_kernel(lorenzo_scan_line_kernel(x, nx, 1), ny, nx)
launchLorenzoPrefixSumKernel3D(x, nx, ny, nz) ==
    lorenzo_scan_line_kernel(launchLorenzoPrefixSumKernel2D(x, nx, ny), nz, nx * ny)

-----------------------------------------------------------------------------
centeringActive == stConf.centering /\ stConf.block > 0
Ndim == IF stConf.dims[3] > 1 THEN 3 ELSE IF stConf.dims[2] > 1 THEN 2 ELSE 1
LorenzoMeans(x) == IF centeringActive THEN BlockMeans(x, stConf.block) ELSE <<>>
LorenzoBytes(n) ==
    n * stConf.size + (IF centeringActive THEN DivUp(n, stConf.block) * stConf.size ELSE 0)

executeBlockModeForward(x, means) ==
    CASE stConf.order = 2 -> lorenzo2_delta_1d_kernel(x, stConf.block, means)
      [] stConf.order = 1 /\ stConf.centering -> lorenzo_delta_1d_centered_kernel(x, stConf.block, means)
      [] stConf.order = 1 /\ ~stConf.centering -> lorenzo_delta_1d_kernel(x, stConf.block)
executeBlockModeInverse(v, means) ==
    IF stConf.order = 1 /\ ~stConf.centering /\ stConf.block = stConf.lanes
    THEN lorenzo_scan_1d_warp32_kernel(v)
    ELSE launchLorenzoSegmentedScan(v, means, stConf.block, stConf.order)
executeNDModeForward(x) ==
    CASE Ndim = 3 -> lorenzo_delta_3d_kernel(x, stConf.dims[1], stConf.dims[2])
      [] Ndim = 2 -> lorenzo_delta_2d_kernel(x, stConf.dims[1])
      [] Ndim = 1 -> lorenzo_delta_1d_kernel(x, stConf.dflt)
executeNDModeInverse(v) ==
    CASE Ndim = 3 -> launchLorenzoPrefixSumKernel3D(v, stConf.dims[1], stConf.dims[2], stConf.dims[3])
      [] Ndim = 2 -> launchLorenzoPrefixSumKernel2D(v, stConf.dims[1], stConf.dims[2])
      [] Ndim = 1 -> lorenzo_scan_1d_kernel(v, stConf.dflt)

LorenzoRefuses == stConf.block = 0 /\ (stConf.centering \/ stConf.order = 2)
LorenzoForward ==
    /\ StageReady("lorenzo")
    /\ ~LorenzoRefuses
    /\ \E x \in StageInputs[stConf.data] : \E means \in {LorenzoMeans(x)} :
        ExecutedSized(x, [n |-> 0],
                      ("output" :> IF stConf.block > 0 THEN executeBlockModeForward(x, means)
                                                       ELSE executeNDModeForward(x))
                      @@ ("means" :> means),
                      LorenzoBytes(Len(x)), LorenzoBytes(Len(x)))
LorenzoRefused ==
    /\ StageReady("lorenzo")
    /\ LorenzoRefuses
    /\ \E x \in StageInputs[stConf.data] \ {<<>>} : Refused(x)
LorenzoInverse ==
    /\ CanDecode("lorenzo")
    /\ \E v \in {Section(stArchive, "output")} :
        DecodedAs(IF stConf.block > 0 THEN executeBlockModeInverse(v, Section(stArchive, "means"))
                                      ELSE executeNDModeInverse(v),
                  Len(v))

LorenzoNext == LorenzoForward \/ LorenzoRefused \/ LorenzoInverse
=============================================================================
