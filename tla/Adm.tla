-------------------------------- MODULE Adm ---------------------------------
(* The ADM stage, u16 and u32: every warp maps its values to one-byte codes  *)
(* relative to the warp's mean and to a unary signal of how many DiffSteps   *)
(* lie between a value and the mean.  Signals are bit strings per lane,      *)
(* stored with the length of the longest one of the warp; short inputs use   *)
(* the decoupled look-back (AdmScan), long ones go through d_bit_signals, a  *)
(* library scan and adm_concat.  Sizes are scaled: ByteBits bits a byte,     *)
(* AdmChunk values a lane, AdmLanes lanes a warp, and CounterRange for the   *)
(* uint8_t counters of the decoder.                                          *)
EXTENDS Integers, Sequences, FiniteSets, FiniteSetsExt, SequencesExt

CONSTANTS DiffStep,      \* 126 in the code
          AdmChunk,      \* kChunk
          AdmLanes,      \* kBlockThreads
          ByteBits,      \* 8 in the code
          CounterRange,  \* 2^8: local_signal is a uint8_t
          SumRange,      \* 2^32: local_sum is a uint32_t
          Widths,        \* subset of {16, 32}: compress_u16, compress_u32
          Paths,         \* subset of {"decoupled", "thrust"}
          AdmInputs,     \* sequences of values
          AdmTails       \* what the memory behind the input may hold

ASSUME AdmMapAssumption ==
    /\ {DiffStep, AdmChunk, AdmLanes, ByteBits, CounterRange, SumRange} \subseteq Nat \ {0}
    /\ CounterRange = AdmChunk * 2 * ByteBits
    /\ \A s \in AdmInputs : s \in Seq(Nat)
    /\ \A t \in AdmTails : t \in Seq(Nat) /\ Len(t) >= AdmChunk

VARIABLES amWidth, amPath, amIn,
          amTail,         \* values in memory behind the last element
          amPhase,        \* "start", "mapped", "packed", "refused", "decoded"
          amCodes,        \* d_codes: one per value
          amCenters,      \* d_centers: one per warp
          amLengths,      \* d_signal_length, in bytes
          amBitSignals,   \* d_bit_signals: warp, lane -> bits
          amConcat,       \* d_concat_signals: warp, lane -> bits
          amOut

amVars == <<amWidth, amPath, amIn, amTail, amPhase, amCodes, amCenters, amLengths,
            amBitSignals, amConcat, amOut>>

MaxSignalBytes == IF amWidth = 16 THEN 2 ELSE 4
Capacity == AdmChunk * MaxSignalBytes * ByteBits
WarpElems == AdmChunk * AdmLanes
AdmWarps == 0..((Len(amIn) + WarpElems - 1) \div WarpElems)-1
AdmLaneSet == 0..AdmLanes-1
BytesFor(bits) == (bits + ByteBits - 1) \div ByteBits

\* Elements are read in vectors of 16 bytes, half a lane's elements for u16 and
\* a quarter for u32: the last vector reaches behind the input.
VectorElems == Max({1, AdmChunk \div (IF amWidth = 16 THEN 2 ELSE 4)})
ReadEnd == ((Len(amIn) + VectorElems - 1) \div VectorElems) * VectorElems
Value(i) == IF i <= Len(amIn) THEN amIn[i] ELSE amTail[i - Len(amIn)]

\* The elements, 1-based, that a lane encodes.
LaneElems(w, l) ==
    {i \in 1..ReadEnd : (i - 1) \div AdmChunk = w * AdmLanes + l}
WarpOfElem(i) == (i - 1) \div WarpElems

Center(w) ==
    LET own == {i \in 1..Len(amIn) : WarpOfElem(i) = w}
    IN  (MapThenSumSet(LAMBDA i : amIn[i], own) % SumRange) \div Cardinality(own)

\* ADM_ENCODE: the number of signal bits and the code of a value.
AbsDiff(i, c) == IF Value(i) > c THEN Value(i) - c ELSE c - Value(i)
OutputIdx(i, c) ==
    IF Value(i) = c THEN 1 ELSE (AbsDiff(i, c) + DiffStep - 1) \div DiffStep
CodeOf(i, c) ==
    LET r == AbsDiff(i, c) + DiffStep - OutputIdx(i, c) * DiffStep
    IN  CASE Value(i) = c -> 1
          [] Value(i) > c -> 2 * r
          [] Value(i) < c -> 2 * r + 1

\* The signal bits of each value of a warp, and of some of its values together:
\* bit_offset of a lane, and where the 1 of each value goes.
SignalBits(w) == [i \in 1..ReadEnd |-> OutputIdx(i, Center(w))]
BitOffset(w, S) == MapThenSumSet(LAMBDA i : SignalBits(w)[i], S)
Overflows(w, l) == BitOffset(w, LaneElems(w, l)) > Capacity
LengthOf(w) == BytesFor(Max({BitOffset(w, LaneElems(w, l)) : l \in AdmLaneSet}))

\* Mutant: no padding behind the last value.
LaneBitsUnpadded(w, l) ==
    LET own == LaneElems(w, l)
        starts == {BitOffset(w, {j \in own : j < i}) : i \in own}
    IN  [b \in 1..Capacity |-> IF b - 1 \in starts THEN 1 ELSE 0]

\* The lane's bits: a 1 starts each value, the current byte is padded with 1s.
LaneBits(w, l) ==
    LET own == LaneElems(w, l)
        bitOffset == BitOffset(w, own)
        starts == {BitOffset(w, {j \in own : j < i}) : i \in own}
        padded == bitOffset..((bitOffset \div ByteBits + 1) * ByteBits)-1
    IN  [b \in 1..Capacity |-> IF b - 1 \in starts \cup padded THEN 1 ELSE 0]

AdmMapInit ==
    /\ amWidth \in Widths
    /\ amPath \in Paths
    /\ amIn \in AdmInputs
    /\ amTail \in AdmTails
    /\ amPhase = "start"
    /\ amCodes = <<>>
    /\ amCenters = <<>>
    /\ amLengths = <<>>
    /\ amBitSignals = <<>>
    /\ amConcat = <<>>
    /\ amOut = <<>>

Encoded ==
    /\ amCodes' = [i \in 1..Len(amIn) |-> CodeOf(i, Center(WarpOfElem(i)))]
    /\ amCenters' = [w \in AdmWarps |-> Center(w)]
    /\ amLengths' = [w \in AdmWarps |-> LengthOf(w)]

SomeOverflow == \E w \in AdmWarps, l \in AdmLaneSet : Overflows(w, l)

\* Any lane with more bits than its buffer raises the flag, the host throws.
CompressRefused ==
    /\ amPhase = "start"
    /\ SomeOverflow
    /\ amPhase' = "refused"
    /\ UNCHANGED <<amWidth, amPath, amIn, amTail, amCodes, amCenters, amLengths, amBitSignals,
                   amConcat, amOut>>

\* adm_map_decoupled: each lane writes max_bits bytes at its resolved offset.
MapDecoupled ==
    /\ amPhase = "start"
    /\ amPath = "decoupled"
    /\ ~SomeOverflow
    /\ Encoded
    /\ amConcat' = [w \in AdmWarps |-> [l \in AdmLaneSet |->
                       SubSeq(LaneBits(w, l), 1, LengthOf(w) * ByteBits)]]
    /\ amPhase' = "packed"
    /\ UNCHANGED <<amWidth, amPath, amIn, amTail, amBitSignals, amOut>>

\* Bytes the Thrust kernel copies to d_bit_signals: (max_bits + 7) / 8 units,
\* of 8 bytes (int2) for u16 and of one byte for u32.
CopiedBytes(length) == ((length + 7) \div 8) * (IF amWidth = 16 THEN 8 ELSE 1)

\* adm_map_thrust, into the zeroed d_bit_signals.
MapThrust ==
    /\ amPhase = "start"
    /\ amPath = "thrust"
    /\ ~SomeOverflow
    /\ Encoded
    /\ amBitSignals' = [w \in AdmWarps |-> [l \in AdmLaneSet |->
                          [b \in 1..Capacity |->
                             IF b <= CopiedBytes(LengthOf(w)) * ByteBits THEN LaneBits(w, l)[b] ELSE 0]]]
    /\ amPhase' = "mapped"
    /\ UNCHANGED <<amWidth, amPath, amIn, amTail, amConcat, amOut>>

\* exclusiveScan and adm_concat.
Concat ==
    /\ amPhase = "mapped"
    /\ amConcat' = [w \in AdmWarps |-> [l \in AdmLaneSet |->
                       SubSeq(amBitSignals[w][l], 1, amLengths[w] * ByteBits)]]
    /\ amPhase' = "packed"
    /\ UNCHANGED <<amWidth, amPath, amIn, amTail, amCodes, amCenters, amLengths, amBitSignals, amOut>>

\* adm_decompress: the k-th 1 of a lane starts value k, the 0s behind it are
\* counted in a uint8_t.
SignalOf(bits, k) ==
    LET one(b) == Cardinality({a \in 1..b : bits[a] = 1})
    IN  Cardinality({b \in DOMAIN bits : bits[b] = 0 /\ one(b) = k}) % CounterRange

\* The arithmetic is int, the result truncated to the width.
Restored(i) ==
    LET w == WarpOfElem(i)
        l == ((i - 1) \div AdmChunk) % AdmLanes
        k == ((i - 1) % AdmChunk) + 1
        code == amCodes[i]
        diff == code \div 2 + SignalOf(amConcat[w][l], k) * DiffStep
    IN  IF code % 2 = 1 THEN amCenters[w] - diff ELSE amCenters[w] + diff

AdmDecompress ==
    /\ amPhase = "packed"
    /\ amOut' = [i \in 1..Len(amIn) |-> Restored(i)]
    /\ amPhase' = "decoded"
    /\ UNCHANGED <<amWidth, amPath, amIn, amTail, amCodes, amCenters, amLengths, amBitSignals, amConcat>>

AdmMapNext == CompressRefused \/ MapDecoupled \/ MapThrust \/ Concat \/ AdmDecompress

AdmMapSpec == AdmMapInit /\ [][AdmMapNext]_amVars

-----------------------------------------------------------------------------
(* ADM is lossless or refuses the input: a value far from the mean either    *)
(* throws or comes back exactly, on the look-back and on the Thrust path.    *)
AdmLossless == amPhase = "decoded" => amOut = amIn
=============================================================================
