----------------------------- MODULE QuantStage -----------------------------
(* QuantizerStage outside its outlier kernels: how the bound of a call is    *)
(* resolved (ABS, range- or peak-relative, power of two, high precision),    *)
(* the linear mode that has codes and no outliers, and the point-wise        *)
(* relative mode that quantises logarithms.                                  *)
(* stConf: [kind |-> "quant", size, linear, ebMode, errorBound, den, base,   *)
(* pow2, hp, mant, epsInv, codeSize, codeBits, radius, threshold, cap,       *)
(* capDen, dither, zigzag, inplace].  The bound is errorBound / den, a float *)
(* has `mant` bits.  Linear values are even integers, so that half a float   *)
(* spacing is an integer; relative ones count sixteenths, with epsilon 1:    *)
(* a bin is a factor of 4.                                                   *)
(* stMem: [eb, n, count, overflow]: computed_abs_eb_, num_elements_ and the  *)
(* device counter and flag.                                                  *)
EXTENDS LorenzoQuant

FloorLog2(v) == Max({k \in 0..20 : 2^k <= v})
\* Distance to the next float, and the float nearest to v (ties to even).
Spacing(v) == IF v = 0 THEN 2 ELSE Max({2, 2^Max({0, FloorLog2(v) + 1 - stConf.mant})})
NearestFloat(v) ==
    LET s == Spacing(AbsOf(v))
        below == AbsOf(v) \div s
        rest == 2 * (AbsOf(v) % s)
        steps == IF rest > s \/ (rest = s /\ below % 2 = 1) THEN below + 1 ELSE below
    IN  IF v < 0 THEN -(steps * s) ELSE steps * s

DataAbsMax(x) == Max({AbsOf(x[i]) : i \in DOMAIN x})
floorPowerOfTwo(v) == 2^FloorLog2(v)
\* The bound as asked for: a value base of zero falls back to ABS.
RequestedEb(x) ==
    IF stConf.ebMode = "ABS" \/ ValueBase(x) <= 0 THEN stConf.errorBound
    ELSE (stConf.errorBound * ValueBase(x)) \div stConf.den
\* Half a float spacing at the far end of the reconstructed data.
Reserve(x, eb) == Spacing(DataAbsMax(x) + eb) \div 2
EffectiveEb(x, eb) ==
    CASE stConf.pow2 -> floorPowerOfTwo(eb)
      [] ~stConf.pow2 /\ stConf.hp -> eb - Reserve(x, eb)
      [] OTHER -> eb
\* No bound below the spacing of the data itself; a precomputed base skips
\* the scan that would tell.
BelowDataSpacing(x, eb) ==
    /\ stConf.ebMode # "ABS" /\ stConf.base <= 0
    /\ ~stConf.hp /\ ~stConf.pow2
    /\ DataAbsMax(x) > eb * stConf.epsInv
BoundThrows(x, eb) ==
    \/ BelowDataSpacing(x, eb)
    \/ eb <= 0
    \/ stConf.hp /\ ~stConf.pow2 /\ Reserve(x, eb) >= eb

ConfigThrows ==
    \/ stConf.dither /\ (stConf.linear \/ stConf.inplace)
    \/ stConf.hp /\ ~stConf.linear
    \/ stConf.pow2 /\ stConf.ebMode = "REL"
    \/ stConf.linear /\ (stConf.ebMode = "REL" \/ stConf.inplace \/ stConf.zigzag)

-----------------------------------------------------------------------------
InCodeRange(q) == q >= -(2^(stConf.codeBits - 1)) /\ q < 2^(stConf.codeBits - 1)
quantizer_linear_fwd_kernel(x, eb) ==
    [i \in DOMAIN x |-> LET q == RoundDiv(x[i], 2 * eb)
                        IN  IF InCodeRange(q) THEN Unsigned(q, stConf.codeBits) ELSE 0]
LinearOverflows(x, eb) == \E i \in DOMAIN x : ~InCodeRange(RoundDiv(x[i], 2 * eb))
\* Computed in double, stored as float.
quantizer_linear_inv_kernel(codes, eb) ==
    [i \in DOMAIN codes |-> NearestFloat(Signed(codes[i], stConf.codeBits) * 2 * eb)]

\* An empty input is left out: after a linear call it writes past the end of
\* actual_output_sizes_.
QuantLinearForward ==
    /\ StageReady("quant")
    /\ stConf.linear /\ ~ConfigThrows
    /\ \E x \in StageInputs[stConf.data] \ {<<>>} : \E asked \in {RequestedEb(x)} :
        /\ ~BoundThrows(x, asked)
        /\ \E eb \in {EffectiveEb(x, asked)} :
            ExecutedAs(x, [eb |-> eb, n |-> Len(x), count |-> 0, overflow |-> LinearOverflows(x, eb)],
                       "codes" :> quantizer_linear_fwd_kernel(x, eb), Len(x) * stConf.codeSize)
QuantRefused ==
    /\ StageReady("quant")
    /\ \E x \in StageInputs[stConf.data] \ {<<>>} :
        /\ ConfigThrows \/ (stConf.ebMode # "REL" /\ BoundThrows(x, RequestedEb(x)))
        /\ Refused(x)

-----------------------------------------------------------------------------
\* 16 stands for 1: bin b is the magnitude 16 * 4^b = 4^(b + 2).
BinMagnitude(b) == 4^(b + 2)
\* rint(log2(a) / 2): of two nearest bins, the even one.
LogBin(a) ==
    LET near == {b \in -2..6 : BinMagnitude(b) <= 2 * a /\ a <= 2 * BinMagnitude(b)}
    IN  CHOOSE b \in near : Cardinality(near) = 2 => b % 2 = 0
pack_rel_code(b, neg) == 4 * AbsOf(b) + (IF b < 0 THEN 2 ELSE 0) + (IF neg THEN 1 ELSE 0) + 1
unpack_rel_bin(code) == LET a == (code - 1) \div 4 IN IF ((code - 1) \div 2) % 2 = 1 THEN -a ELSE a
\* Half a bin either way, by element: the magnitude doubled or halved.
Dithered(magnitude, i) ==
    IF stConf.dither /\ i % 3 = 0 THEN 2 * magnitude
    ELSE IF stConf.dither /\ i % 3 = 1 THEN magnitude \div 2
    ELSE magnitude
RelRepresentable(x, i) ==
    /\ AbsOf(x) < stConf.threshold
    /\ x # 0
    /\ LET b == LogBin(AbsOf(x))
           recon == Dithered(BinMagnitude(b), i)
       IN  /\ AbsOf(b) < stConf.radius
           /\ pack_rel_code(b, x < 0) < 2^stConf.codeBits
           /\ recon * 2 >= AbsOf(x)
           /\ recon <= 2 * AbsOf(x)
quantizer_rel_fwd_kernel(x) ==
    [i \in DOMAIN x |-> IF RelRepresentable(x[i], i) THEN pack_rel_code(LogBin(AbsOf(x[i])), x[i] < 0) ELSE 0]
RelSlotOrders(x) ==
    LET ascending == SelectSeq(Indices(Len(x)), LAMBDA i : ~RelRepresentable(x[i], i))
    IN  {ascending, Reverse(ascending)}
RelBytes(n, outliers) == n * stConf.codeSize + outliers * (stConf.size + 4)

QuantRelForward ==
    /\ StageReady("quant")
    /\ stConf.ebMode = "REL" /\ ~ConfigThrows
    /\ \E x \in StageInputs[stConf.data] \ {<<>>} : \E order \in RelSlotOrders(x) :
        LET room == getMaxOutlierCount(Len(x))
            slots == 1..Min({room, Len(order)})
        IN  ExecutedAs(x, [eb |-> 0, n |-> Len(x), count |-> Len(order), overflow |-> FALSE],
                       [codes |-> quantizer_rel_fwd_kernel(x),
                        outlier_vals |-> [s \in slots |-> x[order[s]]],
                        outlier_idxs |-> [s \in slots |-> order[s]]],
                       RelBytes(Len(x), room))
\* Outputs are zeroed, then dequantised, then the outliers put in place.
quantizer_rel_inv_kernel(codes) ==
    [i \in DOMAIN codes |->
        IF codes[i] = 0 THEN 0
        ELSE LET m == Dithered(BinMagnitude(unpack_rel_bin(codes[i])), i)
             IN  IF (codes[i] - 1) % 2 = 1 THEN -m ELSE m]
AssignOutliers(out, vals, idxs) ==
    [i \in DOMAIN out |-> LET slot == {s \in DOMAIN idxs : idxs[s] = i}
                          IN  IF slot = {} THEN out[i] ELSE vals[CHOOSE s \in slot : TRUE]]

\* Codes that wrapped, or outliers that were lost without being given up.
QuantSyncThrowsNow ==
    \/ stMem.overflow
    \/ stMem.count > getMaxOutlierCount(stMem.n) /\ stConf.cap > 0
QuantPostStreamSync ==
    /\ Awaited("quant")
    /\ ~QuantSyncThrowsNow
    /\ SizedAs("quant", <<>>,
               IF stConf.linear THEN stMem.n * stConf.codeSize
               ELSE RelBytes(stMem.n, Min({stMem.count, getMaxOutlierCount(stMem.n)})))
QuantSyncThrows == Awaited("quant") /\ QuantSyncThrowsNow /\ SyncRefused("quant")
\* computed_abs_eb_, the modes and the outlier count are the header.
QuantInverse ==
    /\ CanDecode("quant")
    /\ \E codes \in {Section(stArchive, "codes")} :
       LET kept == Min({stMem.count, getMaxOutlierCount(stMem.n)})
       IN  DecodedAs(IF stConf.linear THEN quantizer_linear_inv_kernel(codes, stMem.eb)
                     ELSE AssignOutliers(quantizer_rel_inv_kernel(codes),
                                         SubSeq(Section(stArchive, "outlier_vals"), 1, kept),
                                         SubSeq(Section(stArchive, "outlier_idxs"), 1, kept)), stMem.n)

QuantStageNext ==
    \/ QuantLinearForward \/ QuantRelForward \/ QuantRefused
    \/ QuantPostStreamSync \/ QuantSyncThrows \/ QuantInverse
=============================================================================
