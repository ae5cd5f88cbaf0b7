------------------------------ MODULE Bitpack -------------------------------
(* BitpackStage: every element, less a base and shifted right, is stored in  *)
(* a power of two of bits.  Base, shift and width are configured or derived  *)
(* from the data, in that order, and travel in the header.                   *)
(* stConf: [kind |-> "bitpack", size, autoBase, autoShift, autoDetect, base, *)
(* shift, nbits]; stMem: [n, base, shift, nbits].                            *)
EXTENDS StageBase

FullBits == 8 * stConf.size
bitpackFwdTransform(v, base, shift) == Unsigned(v - base, FullBits) \div 2^shift
bitpackInvTransform(v, base, shift) == Unsigned(Unsigned(v * 2^shift, FullBits) + base, FullBits)

\* Elements of fewer than 8 bits share a byte, the first in its low bits.
bitpackEncodeSubByte(v, nbits) ==
    LET per == 8 \div nbits
        Slot(byte, k) == byte * per + k
    IN  [b \in 1..DivUp(Len(v) * nbits, 8) |->
            SumSeq([k \in 1..per |-> IF Slot(b - 1, k) <= Len(v)
                                     THEN (v[Slot(b - 1, k)] % 2^nbits) * 2^((k - 1) * nbits)
                                     ELSE 0])]
bitpackDecodeSubByte(bytes, n, nbits) ==
    LET per == 8 \div nbits
    IN  [i \in 1..n |-> (bytes[(i - 1) \div per + 1] \div 2^(((i - 1) % per) * nbits)) % 2^nbits]
\* Others take whole bytes, the low one first.
bitpackEncodeMultiByte(v, nbits) ==
    LET per == nbits \div 8
    IN  [b \in 1..Len(v) * per |->
            ((v[(b - 1) \div per + 1] % 2^nbits) \div 2^(8 * ((b - 1) % per))) % 256]
bitpackDecodeMultiByte(bytes, n, nbits) ==
    LET per == nbits \div 8
    IN  [i \in 1..n |-> SumSeq([b \in 1..per |-> bytes[(i - 1) * per + b] * 2^(8 * (b - 1))])]

\* Trailing zeros of the OR of all elements less the base; 0 if that is 0.
detectShift(x, base) ==
    LET less == {Unsigned(x[i] - base, FullBits) : i \in DOMAIN x}
    IN  IF less = {0} THEN 0
        ELSE Max({k \in 0..FullBits-1 : \A v \in less : v % 2^k = 0})
nbits_for_max(m) == Min({b \in {1, 2, 4, 8, 16} : m < 2^b /\ b < FullBits} \cup {FullBits})

BitpackEstimate(n) == IF stConf.autoDetect THEN n * stConf.size ELSE DivUp(n * stConf.nbits, 8)

BitpackParameters(x) ==
    LET values == {x[i] : i \in DOMAIN x}
        base == IF stConf.autoBase THEN Min(values) ELSE stConf.base
        shift == IF stConf.autoShift THEN detectShift(x, base) ELSE stConf.shift
    IN  [n |-> Len(x), base |-> base, shift |-> shift,
         nbits |-> IF stConf.autoDetect THEN nbits_for_max(bitpackFwdTransform(Max(values), base, shift))
                                        ELSE stConf.nbits]

launchEncode(v, nbits) == IF nbits < 8 THEN bitpackEncodeSubByte(v, nbits) ELSE bitpackEncodeMultiByte(v, nbits)
launchDecode(bytes, n, nbits) ==
    IF nbits < 8 THEN bitpackDecodeSubByte(bytes, n, nbits) ELSE bitpackDecodeMultiByte(bytes, n, nbits)

BitpackForward ==
    /\ StageReady("bitpack")
    /\ \E x \in StageInputs[stConf.data] : \E p \in {BitpackParameters(x)} :
        /\ x # <<>>
        /\ ExecutedSized(x, p, 0 :> launchEncode([i \in DOMAIN x |-> bitpackFwdTransform(x[i], p.base, p.shift)], p.nbits),
                         BitpackEstimate(Len(x)), DivUp(Len(x) * p.nbits, 8))
\* An empty input leaves the derived parameters of the last call in place.
BitpackForwardEmpty ==
    /\ StageReady("bitpack")
    /\ ExecutedSized(<<>>, [stMem EXCEPT !.n = 0], <<>>, 0, 0)

\* The header has all of stMem: a rebuilt stage decodes with the same values.
BitpackInverse ==
    /\ CanDecode("bitpack")
    /\ LET p == stMem
           v == launchDecode(Section(stArchive, 0), p.n, p.nbits)
       IN  IF p.n = 0 THEN DecodedAs(<<>>, 0)
           ELSE DecodedAs([i \in 1..p.n |-> bitpackInvTransform(v[i], p.base, p.shift)],
                          DivUp(stActual * 8, p.nbits))

BitpackNext == BitpackForward \/ BitpackForwardEmpty \/ BitpackInverse
=============================================================================
