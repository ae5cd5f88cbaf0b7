----------------------------- MODULE Quantizer ------------------------------
(* The quantizer stage, forward and inverse: one GPU thread per element      *)
(* encodes its value or claims a slot of the outlier list with an atomic     *)
(* add; after the stream has synchronised the host reads the counter and     *)
(* accepts or refuses the call; the inverse dequantizes and scatters as many *)
(* outliers as the header records.  Values are integers in units where the   *)
(* error bound is Eb, so rounding to a bin is exact; floating-point rounding *)
(* of the scale is not modelled.                                             *)
EXTENDS Integers, FiniteSets, FiniteSetsExt

CONSTANTS Elements,      \* 1..n, the elements of a call
          WarpOf,        \* [Elements -> warps], lanes that may converge
          Eb,            \* the absolute error bound
          Radius,        \* quant_radius
          CodeBits,      \* width of TCode
          Threshold,     \* outlier_threshold
          Dither,        \* [Elements -> Int], ditherUnit(i, seed) * dither_amp
          RawBase,       \* raw IEEE bits of a value are above every zigzag code
          QConfigs,      \* the configurations of the stage
          QInputs,       \* the inputs the first call may get
          QSecondInputs  \* and the second call

QConfigSet == [mode : {"split", "fused", "inplace", "linear"}, zigzag : BOOLEAN,
               dither : BOOLEAN, max : Nat, optOut : BOOLEAN]

\* The raw bits of an input do not look like a zigzag code (quantizer.cu:139-141).
\* Radius <= 2^(CodeBits - 1) is a precondition on the caller: setQuantRadius()
\* (quantizer.h:478) stores any value, and only the documentation says that codes
\* are below 2 * quant_radius (docs/stages/quantizer.md:232) and that the radius must
\* fit the code type (docs/stages/lorenzo_quant.md:49, for the same setting).
ASSUME QuantizerAssumption ==
    /\ IsFiniteSet(Elements) /\ Elements \subseteq Int
    /\ Eb \in Nat \ {0} /\ Radius \in Nat \ {0} /\ CodeBits \in Nat \ {0}
    /\ Radius <= 2^(CodeBits - 1)
    /\ Threshold \in Int /\ RawBase \in Int
    /\ \A i \in Elements : Dither[i] \in -Eb..Eb
    /\ QConfigs \subseteq QConfigSet
    /\ \A in \in QInputs \cup QSecondInputs :
          /\ in \in [Elements -> Int]
          /\ \A i \in Elements : RawBase + in[i] >= 2 * Radius

VARIABLES qConf,       \* the configuration of the stage
          qIn,         \* input of the call
          qCall,       \* which call
          qPhase,      \* "kernel", "decode", "refused", "decoded"
          qPc,         \* each thread: "start", "claimed", "done"
          slotOf,      \* slot a thread got from atomicAdd
          codes,       \* the code array
          outlierVals, outlierIdxs,   \* outlier list, slots 0..max-1
          outlierCount,               \* device counter (scratch)
          linearOverflow,             \* device flag (scratch)
          actualOutlierCount,         \* what the header records
          qOut                        \* output of the inverse

qVars == <<qConf, qIn, qCall, qPhase, qPc, slotOf, codes, outlierVals, outlierIdxs,
           outlierCount, linearOverflow, actualOutlierCount, qOut>>

Step == 2 * Eb
HalfRange == 2^(CodeBits - 1)
CodeRange == 2 * HalfRange
AbsVal(x) == IF x < 0 THEN -x ELSE x

\* quantRound: nearest bin, ties to even.
QuantRound(x) ==
    LET lo == x \div Step
        twice == 2 * (x % Step)
    IN  CASE twice < Step -> lo
          [] twice > Step -> lo + 1
          [] OTHER -> IF lo % 2 = 0 THEN lo ELSE lo + 1

\* Zigzag<SCode>::encode and decode, and the two's-complement view of TCode.
ZigzagEncode(q) == (IF q >= 0 THEN 2 * q ELSE -2 * q - 1) % CodeRange
ZigzagDecode(u) == IF u % 2 = 0 THEN u \div 2 ELSE -((u + 1) \div 2)
ToTwos(q) == q % CodeRange
FromTwos(c) == IF c >= HalfRange THEN c - CodeRange ELSE c

EncodeBin(q) == IF qConf.zigzag THEN ZigzagEncode(q) ELSE ToTwos(q)
DecodeBin(c) == IF qConf.zigzag THEN ZigzagDecode(c) ELSE FromTwos(c)

InRadius(x) ==
    /\ QuantRound(x) > -Radius
    /\ QuantRound(x) < Radius
    /\ AbsVal(x) < Threshold

DitherOf(i) == IF qConf.dither THEN Dither[i] ELSE 0

\* With dithering an element is kept only if what the inverse will compute is
\* still within the bound.
DitherFits(i, x) == AbsVal(x - (QuantRound(x) * Step + DitherOf(i))) <= Eb

\* Mutant: the reconstruction is not checked.
RepresentableIgnoringDither(i) == InRadius(qIn[i])
Representable(i) == InRadius(qIn[i]) /\ (qConf.dither => DitherFits(i, qIn[i]))

FitsCode(q) == q >= -(HalfRange) /\ q < HalfRange

Split == qConf.mode \in {"split", "fused"}

QInit ==
    /\ qConf \in QConfigs
    /\ qIn \in QInputs
    /\ qCall = 1
    /\ qPhase = "kernel"
    /\ qPc = [i \in Elements |-> "start"]
    /\ slotOf = [i \in Elements |-> 0]
    /\ codes = [i \in Elements |-> 0]
    /\ outlierVals = [s \in 0..qConf.max-1 |-> 0]
    /\ outlierIdxs = [s \in 0..qConf.max-1 |-> 1]
    /\ outlierCount = 0
    /\ linearOverflow = FALSE
    /\ actualOutlierCount = 0
    /\ qOut = [i \in Elements |-> 0]

\* A thread whose element has a code: split, fused, in-place or linear.
EncodeElement(i) ==
    /\ qPhase = "kernel"
    /\ qPc[i] = "start"
    /\ LET q == QuantRound(qIn[i])
       IN  CASE Split ->
                  /\ Representable(i)
                  /\ codes' = [codes EXCEPT ![i] = EncodeBin(q)]
                  /\ UNCHANGED linearOverflow
             [] qConf.mode = "inplace" ->
                  /\ codes' = [codes EXCEPT ![i] = IF InRadius(qIn[i]) THEN ZigzagEncode(q)
                                                                     ELSE RawBase + qIn[i]]
                  /\ UNCHANGED linearOverflow
             [] qConf.mode = "linear" ->
                  /\ codes' = [codes EXCEPT ![i] = IF FitsCode(q) THEN ToTwos(q) ELSE 0]
                  /\ linearOverflow' = (linearOverflow \/ ~FitsCode(q))
    /\ qPc' = [qPc EXCEPT ![i] = "done"]
    /\ UNCHANGED <<qConf, qIn, qCall, qPhase, slotOf, outlierVals, outlierIdxs,
                   outlierCount, actualOutlierCount, qOut>>

\* Lanes S of one warp claim consecutive slots with one atomic add; the staged
\* kernel claims one slot at a time.
RankBelow(S, i) == Cardinality({j \in S : j < i})
ClaimSlots(S) ==
    /\ qPhase = "kernel"
    /\ Split
    /\ S # {}
    /\ \A i \in S : qPc[i] = "start" /\ ~Representable(i)
    /\ codes' = [i \in Elements |-> IF i \in S THEN 0 ELSE codes[i]]
    /\ slotOf' = [i \in Elements |-> IF i \in S THEN outlierCount + RankBelow(S, i) ELSE slotOf[i]]
    /\ outlierCount' = outlierCount + Cardinality(S)
    /\ qPc' = [i \in Elements |-> IF i \in S THEN "claimed" ELSE qPc[i]]
    /\ UNCHANGED <<qConf, qIn, qCall, qPhase, outlierVals, outlierIdxs,
                   linearOverflow, actualOutlierCount, qOut>>

ClaimStaged(i) == qConf.mode = "split" /\ ClaimSlots({i})

\* __activemask() is whatever part of the warp's outlier lanes has converged.
ClaimFused(S) ==
    /\ qConf.mode = "fused"
    /\ Cardinality({WarpOf[i] : i \in S}) = 1
    /\ ClaimSlots(S)

\* The claimed slot is written unless the list is full.
WriteOutlier(i) ==
    /\ qPhase = "kernel"
    /\ qPc[i] = "claimed"
    /\ outlierVals' = [s \in DOMAIN outlierVals |->
                         IF s = slotOf[i] THEN qIn[i] ELSE outlierVals[s]]
    /\ outlierIdxs' = [s \in DOMAIN outlierIdxs |->
                         IF s = slotOf[i] THEN i ELSE outlierIdxs[s]]
    /\ qPc' = [qPc EXCEPT ![i] = "done"]
    /\ UNCHANGED <<qConf, qIn, qCall, qPhase, slotOf, codes, outlierCount,
                   linearOverflow, actualOutlierCount, qOut>>

KernelOver == qPhase = "kernel" /\ \A i \in Elements : qPc[i] = "done"

\* postStreamSync(), and for a fused group the runner: the linear flag or more
\* outliers than fit refuse the call, unless outlier_capacity is 0.
OverflowRefused ==
    \/ qConf.mode = "linear" /\ linearOverflow
    \/ Split /\ outlierCount > qConf.max /\ ~qConf.optOut

\* Mutant: one slot too many.
RecordedCountOneMore(n) == IF n >= qConf.max THEN qConf.max ELSE n + 1
RecordedCount(n) == IF n > qConf.max THEN qConf.max ELSE n

PostStreamSync ==
    /\ KernelOver
    /\ ~OverflowRefused
    /\ actualOutlierCount' = IF Split THEN RecordedCount(outlierCount) ELSE actualOutlierCount
    /\ qPhase' = "decode"
    /\ UNCHANGED <<qConf, qIn, qCall, qPc, slotOf, codes, outlierVals, outlierIdxs,
                   outlierCount, linearOverflow, qOut>>

PostStreamSyncThrows ==
    /\ KernelOver
    /\ OverflowRefused
    /\ qPhase' = "refused"
    /\ UNCHANGED <<qConf, qIn, qCall, qPc, slotOf, codes, outlierVals, outlierIdxs,
                   outlierCount, linearOverflow, actualOutlierCount, qOut>>

\* The three inverse kernels.
Dequantized(i) ==
    CASE Split -> DecodeBin(codes[i]) * Step + DitherOf(i)
      [] qConf.mode = "inplace" ->
            IF codes[i] \div 2 >= Radius THEN codes[i] - RawBase ELSE ZigzagDecode(codes[i]) * Step
      [] qConf.mode = "linear" -> FromTwos(codes[i]) * Step

\* scatter_assign_kernel over the recorded outliers.
Scattered(out) ==
    [i \in Elements |->
        IF Split /\ \E s \in 0..actualOutlierCount-1 : outlierIdxs[s] = i
        THEN outlierVals[CHOOSE s \in 0..actualOutlierCount-1 : outlierIdxs[s] = i]
        ELSE out[i]]

InverseExecute ==
    /\ qPhase = "decode"
    /\ qOut' = Scattered([i \in Elements |-> Dequantized(i)])
    /\ qPhase' = "decoded"
    /\ UNCHANGED <<qConf, qIn, qCall, qPc, slotOf, codes, outlierVals, outlierIdxs,
                   outlierCount, linearOverflow, actualOutlierCount>>

\* Mutant: the counter of the last call is kept.
CountKept == outlierCount

\* Before a launch the host clears the scratch; lists and header keep their values.
CountBeforeLaunch == 0

NextCompress ==
    /\ qPhase \in {"decoded", "refused"}
    /\ qCall = 1
    /\ qCall' = 2
    /\ qIn' \in QSecondInputs
    /\ qPhase' = "kernel"
    /\ qPc' = [i \in Elements |-> "start"]
    /\ outlierCount' = CountBeforeLaunch
    /\ linearOverflow' = FALSE
    /\ UNCHANGED <<qConf, slotOf, codes, outlierVals, outlierIdxs, actualOutlierCount, qOut>>

QNext ==
    \/ \E i \in Elements : EncodeElement(i) \/ ClaimStaged(i) \/ WriteOutlier(i)
    \/ \E S \in SUBSET Elements : ClaimFused(S)
    \/ PostStreamSync
    \/ PostStreamSyncThrows
    \/ InverseExecute
    \/ NextCompress

QSpec == QInit /\ [][QNext]_qVars

-----------------------------------------------------------------------------
QOutliers == {i \in Elements : Split /\ ~Representable(i)}

(* The error bound holds for every element of a call that was accepted, and  *)
(* an outlier is reproduced exactly, whichever order the threads claimed     *)
(* slots in and whatever the previous call left in the lists.  The one       *)
(* exception is asked for: outlier_capacity 0 drops the outliers.            *)
ErrorBounded ==
    qPhase = "decoded" =>
        \A i \in Elements :
            \/ AbsVal(qOut[i] - qIn[i]) <= (IF i \in QOutliers THEN 0 ELSE Eb)
            \/ qConf.optOut /\ i \in QOutliers

(* A call is refused only for its own data: more outliers than the list      *)
(* holds, or a bin the code type cannot hold, never for what an earlier call *)
(* left in the counter or the flag.                                          *)
RefusedForCause ==
    qPhase = "refused" =>
        \/ Cardinality(QOutliers) > qConf.max
        \/ qConf.mode = "linear" /\ \E i \in Elements : ~FitsCode(QuantRound(qIn[i]))

(* The header never makes the inverse scatter a slot this call did not write.*)
RecordedSlotsWritten ==
    qPhase \in {"decode", "decoded"} /\ Split =>
        \A s \in 0..actualOutlierCount-1 : outlierIdxs[s] \in QOutliers
=============================================================================
