-------------------------- MODULE LifecycleProofs ---------------------------
(* The calls on a pipeline, for every set of configurations and input sizes  *)
(* and every number of calls and faults: what the fields of a pipeline mean  *)
(* between two calls, and the properties that follow from it.                *)
EXTENDS Lifecycle, Integers, TLAPS

-----------------------------------------------------------------------------
(***************************************************************************)
(* The inductive invariant.                                                *)
(***************************************************************************)
Kinds == {"none", "actual", "placeholder"}
Modes == {"none", "eager", "capturing", "replay"}
MetaSet == [kind : Kinds, call : 0..MaxCalls]
BlobSet == [size : Nat, source : Nat, mode : Modes]

CallTypeOK ==
    /\ cfg \in Configs
    /\ calls \in 0..MaxCalls /\ faults \in 0..MaxFaults
    /\ attempted \in 0..calls
    /\ meta \in MetaSet
    /\ live \in 0..calls
    /\ params \in (0..calls) \cup {Mixed}
    /\ outputs \subseteq 0..calls

FlagTypeOK ==
    /\ finalized \in BOOLEAN /\ isCompressed \in BOOLEAN /\ wasCompressed \in BOOLEAN
    /\ graphCaptured \in BOOLEAN /\ captureMode \in BOOLEAN
    /\ profiling \in BOOLEAN /\ poolManaged \in BOOLEAN

SizeTypeOK ==
    /\ inputSize \in Nat /\ sourceSize \in Nat /\ originalSize \in Nat
    /\ padCapacity \in Nat /\ cache \in Nat
    /\ blobs \in [1..MaxCalls -> BlobSet]

LifeTypeOK == CallTypeOK /\ FlagTypeOK /\ SizeTypeOK

\* A graph is captured only where finalize() has set up its input slot.
GraphInv ==
    /\ finalized => GraphModePossible
    /\ graphCaptured => finalized /\ cfg.graph

\* A compress() leaves a blob under its own number and nothing else does; the
\* source it ran on is the slot of the graph or the padded input.
BlobInv ==
    \A k \in 1..MaxCalls :
        /\ k > calls => blobs[k] = NoBlob
        /\ blobs[k].mode = "replay" => Hint > 0 /\ blobs[k].size <= Hint
        /\ blobs[k].source = IF blobs[k].mode = "replay" THEN Hint
                             ELSE RoundUp(blobs[k].size, cfg.align)

\* Sizes recorded with metadata agree; real metadata describe the live buffers.
MetaInv ==
    /\ ~finalized => meta = NoMeta
    /\ live > 0 => blobs[live].size > 0
    /\ meta.kind # "none" => inputSize = sourceSize
    /\ meta.kind = "actual" =>
         /\ live = meta.call /\ live > 0
         /\ isCompressed
         /\ sourceSize = blobs[live].source
         /\ params \in {live, Mixed}

\* original_input_size_ is what the last compress() left there, if that call made
\* a blob.
SizedInv ==
    attempted > 0 /\ blobs[attempted].size > 0 =>
        originalSize = PreparedOriginal(blobs[attempted].size)

\* Every header written is of one compress().
ArchiveInv ==
    \A h \in archive :
        /\ h.meta \in MetaSet /\ h.source \in Nat
        /\ h.params \in (0..calls) \cup {Mixed} /\ h.data \in 0..calls
        /\ h.meta.kind = "actual" =>
             /\ h.data = h.meta.call /\ h.data > 0
             /\ h.source = blobs[h.data].source
             /\ h.params \in {h.data, Mixed}

\* What the last decompress() returned, in terms of the fields it left alone.
ReturnInv ==
    last.op = "decompress" /\ last.ok =>
        /\ last.blob \in 0..calls
        /\ last.meta = meta
        /\ last.blob > 0 =>
             /\ \E size \in {PlannedSize, blobs[last.blob].source} : last.size = Trimmed(size)
             /\ blobs[last.blob].size > 0
             /\ (meta = [kind |-> "actual", call |-> last.blob] /\ params # Mixed) => last.right

LifeInv ==
    /\ LifeTypeOK /\ GraphInv /\ BlobInv /\ MetaInv /\ SizedInv /\ ArchiveInv
    /\ ReturnInv

-----------------------------------------------------------------------------
(***************************************************************************)
(* Sizes.                                                                  *)
(***************************************************************************)

\* Rounding up to the alignment: at least the input, a multiple of the
\* alignment, and the input itself when nothing is to be padded.
LEMMA RoundUpFacts ==
    \A n \in Nat, a \in Nat \ {0} :
        /\ RoundUp(n, a) \in Nat /\ RoundUp(n, a) >= n
        /\ RoundUp(n, a) % a = 0
        /\ n % a = 0 => RoundUp(n, a) = n
<1> SUFFICES ASSUME NEW n \in Nat, NEW a \in Nat \ {0}
             PROVE  /\ RoundUp(n, a) \in Nat /\ RoundUp(n, a) >= n
                    /\ RoundUp(n, a) % a = 0
                    /\ n % a = 0 => RoundUp(n, a) = n
  OBVIOUS
<1> DEFINE m == n + a - 1
<1>1. m \in Nat /\ m \div a \in Nat /\ m = (m \div a) * a + (m % a) /\ m % a \in 0..a-1
  OBVIOUS
<1>2. ((m \div a) * a) % a = 0 /\ (m \div a) * a \in Nat
  BY <1>1
<1>3. ASSUME n % a = 0 PROVE (m \div a) * a = n
  <2>1. n \div a \in Int /\ n = (n \div a) * a
    BY <1>3
  <2>2. m \div a = n \div a
    BY <2>1
  <2> QED
    BY <2>1, <2>2
<1>4. (m \div a) * a >= n
  BY <1>1
<1> QED
  BY <1>2, <1>3, <1>4 DEF RoundUp

\* The fields of a configuration that sizes are computed from.
LEMMA ConfigFacts ==
    \A c \in Configs : c.hint \in Nat /\ c.align \in Nat \ {0}
  BY LifecycleAssumption DEF ConfigSet

\* What compress() computes from the size it is given.
LEMMA SizeFacts ==
    ASSUME cfg \in Configs
    PROVE  /\ Hint \in Nat /\ Hint % cfg.align = 0 /\ (cfg.hint > 0 => Hint > 0)
           /\ \A n \in Nat : /\ RoundUp(n, cfg.align) \in Nat
                             /\ RoundUp(n, cfg.align) >= n
                             /\ PreparedSource(n) \in Nat
                             /\ PreparedOriginal(n) \in Nat
                             /\ PreparedOriginal(n) = 0 => n = 0 \/ ~Padded(n)
                             /\ ~Padded(n) => RoundUp(n, cfg.align) = n
                             /\ Padded(n) => RoundUp(n, cfg.align) # n /\ Hint # n
<1>1. cfg.hint \in Nat /\ cfg.align \in Nat \ {0}
  BY ConfigFacts
<1>2. Hint \in Nat /\ Hint % cfg.align = 0 /\ (cfg.hint > 0 => Hint > 0)
  BY <1>1, RoundUpFacts DEF Hint
<1>3. \A n \in Nat : ~Padded(n) => n % cfg.align = 0
  BY <1>1 DEF Padded
<1> QED
  BY SMTT(60), <1>1, <1>2, <1>3, RoundUpFacts DEF PreparedSource, PreparedOriginal, Padded

\* Numbers of calls.
LEMMA CallTypeOKStep == LifeInv /\ LifeNext => CallTypeOK'
<1> SUFFICES ASSUME LifeInv, LifeNext
             PROVE  CallTypeOK'
  OBVIOUS
<1> USE LifecycleAssumption
        DEF LifeInv, LifeTypeOK, CallTypeOK, MetaSet, Kinds, NoMeta, Mixed, flagVars,
            sizeVars, dataVars, graphVars, outVars
<1>1. ASSUME Finalize PROVE CallTypeOK'
  BY <1>1 DEF Finalize, Finalizes
<1>2. ASSUME FinalizeAndWarmup PROVE CallTypeOK'
  BY <1>2 DEF FinalizeAndWarmup, Finalizes, WarmupReturns
<1>3. ASSUME FinalizeWarmupThrows PROVE CallTypeOK'
  BY <1>3 DEF FinalizeWarmupThrows, Finalizes, Fault
<1>4. ASSUME FinalizeThrows PROVE CallTypeOK'
  BY <1>4 DEF FinalizeThrows, Refused
<1>5. ASSUME Warmup PROVE CallTypeOK'
  BY <1>5 DEF Warmup, Call, WarmupReturns
<1>6. ASSUME WarmupFails PROVE CallTypeOK'
  BY <1>6 DEF WarmupFails, Call, WarmupThrows, Fault, CompressFails,
     PrepareFails, PadAfter
<1>7. ASSUME CaptureGraph PROVE CallTypeOK'
  <2>1. CASE CaptureReturns
    BY <1>7, <2>1 DEF CaptureGraph, Call, CaptureReturns
  <2>2. CASE CaptureRefused
    BY <1>7, <2>2 DEF CaptureGraph, Call, CaptureRefused, Fault
  <2>3. CASE CaptureBreaks
    BY <1>7, <2>3 DEF CaptureGraph, Call, CaptureBreaks, Fault
  <2> QED
    BY <1>7, <2>1, <2>2, <2>3 DEF CaptureGraph
<1>8. ASSUME CaptureTooEarlyOrLate PROVE CallTypeOK'
  BY <1>8 DEF CaptureTooEarlyOrLate, Call, Refused
<1>9. ASSUME Reset PROVE CallTypeOK'
  BY <1>9 DEF Reset, Call
<1>10. ASSUME SetPoolManagedDecompOutput PROVE CallTypeOK'
  BY <1>10 DEF SetPoolManagedDecompOutput, Call
<1>11. ASSUME NEW n \in Sizes,
              CompressReturns(n)
       PROVE  CallTypeOK'
  BY <1>11 DEF CompressReturns, Call, CompressRuns, PadAfter
<1>12. ASSUME NEW n \in Sizes,
              CompressThrows(n)
       PROVE  CallTypeOK'
  BY <1>12 DEF CompressThrows, Call, CompressFails, PadAfter, Fault
<1>13. ASSUME NEW n \in Sizes,
              CompressRejects(n)
       PROVE  CallTypeOK'
  BY <1>13 DEF CompressRejects, Call, Fault, PrepareFails, PadAfter
<1>14. ASSUME NEW n \in Sizes,
              PrepareInverse(n)
       PROVE  CallTypeOK'
  BY <1>14 DEF PrepareInverse, Call
<1>15. ASSUME NEW variant \in Variants,
              DecompressNotReady(variant)
       PROVE  CallTypeOK'
  BY <1>15 DEF DecompressNotReady, Call, Refused
<1>16. ASSUME NEW variant \in Variants, NEW b \in 0..MaxCalls, NEW capacity \in Capacities(variant),
              DecompressReturns(b, variant, capacity)
       PROVE  CallTypeOK'
  BY <1>16 DEF DecompressReturns, Call, OutputsAfter
<1>17. ASSUME NEW variant \in Variants, NEW b \in 0..MaxCalls, NEW capacity \in Capacities(variant),
              DecompressThrows(b, variant, capacity)
       PROVE  CallTypeOK'
  BY <1>17 DEF DecompressThrows, Call, Fault, OutputsAfter
<1>18. ASSUME WriteToFile PROVE CallTypeOK'
  BY <1>18 DEF WriteToFile, Call
<1>19. ASSUME WriteRefused PROVE CallTypeOK'
  BY <1>19 DEF WriteRefused, Call, Refused
<1>20. ASSUME PrimeMismatch PROVE CallTypeOK'
  BY <1>20 DEF PrimeMismatch, Call, Fault
<1>21. ASSUME NEW h \in archive,
              PrimeInverseFromHeader(h)
       PROVE  CallTypeOK'
  BY <1>21 DEF PrimeInverseFromHeader, Call, ArchiveInv
<1>22. ASSUME NEW h \in archive,
              DecompressFromFile(h)
       PROVE  CallTypeOK'
  BY <1>22 DEF DecompressFromFile, Call, OutputsAfter
<1>23. ASSUME NEW h \in archive,
              DecompressFromFileFails(h)
       PROVE  CallTypeOK'
  BY <1>23 DEF DecompressFromFileFails, Call, Fault
<1> QED
  BY <1>1, <1>2, <1>3, <1>4, <1>5, <1>6, <1>7, <1>8, <1>9, <1>10, <1>11, <1>12,
      <1>13, <1>14, <1>15, <1>16, <1>17, <1>18, <1>19, <1>20, <1>21, <1>22, <1>23
  DEF LifeNext

\* Flags.
LEMMA FlagTypeOKStep == LifeInv /\ LifeNext => FlagTypeOK'
<1> SUFFICES ASSUME LifeInv, LifeNext
             PROVE  FlagTypeOK'
  OBVIOUS
<1> USE LifecycleAssumption
        DEF LifeInv, LifeTypeOK, FlagTypeOK, flagVars, sizeVars, dataVars, graphVars,
            outVars
<1>1. ASSUME Finalize PROVE FlagTypeOK'
  BY <1>1 DEF Finalize, Finalizes
<1>2. ASSUME FinalizeAndWarmup PROVE FlagTypeOK'
  BY <1>2 DEF FinalizeAndWarmup, Finalizes, WarmupReturns
<1>3. ASSUME FinalizeWarmupThrows PROVE FlagTypeOK'
  BY <1>3 DEF FinalizeWarmupThrows, Finalizes, Fault
<1>4. ASSUME FinalizeThrows PROVE FlagTypeOK'
  BY <1>4 DEF FinalizeThrows, Refused
<1>5. ASSUME Warmup PROVE FlagTypeOK'
  BY <1>5 DEF Warmup, Call, WarmupReturns
<1>6. ASSUME WarmupFails PROVE FlagTypeOK'
  BY <1>6 DEF WarmupFails, Call, WarmupThrows, Fault, CompressFails,
     PrepareFails, PadAfter
<1>7. ASSUME CaptureGraph PROVE FlagTypeOK'
  <2>1. CASE CaptureReturns
    BY <1>7, <2>1, Zenon DEF CaptureGraph, Call, CaptureReturns
  <2>2. CASE CaptureRefused
    BY <1>7, <2>2, Zenon DEF CaptureGraph, Call, CaptureRefused, Fault
  <2>3. CASE CaptureBreaks
    BY <1>7, <2>3, Zenon DEF CaptureGraph, Call, CaptureBreaks, Fault
  <2> QED
    BY <1>7, <2>1, <2>2, <2>3 DEF CaptureGraph
<1>8. ASSUME CaptureTooEarlyOrLate PROVE FlagTypeOK'
  BY <1>8 DEF CaptureTooEarlyOrLate, Call, Refused
<1>9. ASSUME Reset PROVE FlagTypeOK'
  BY <1>9 DEF Reset, Call
<1>10. ASSUME SetPoolManagedDecompOutput PROVE FlagTypeOK'
  BY <1>10 DEF SetPoolManagedDecompOutput, Call
<1>11. ASSUME NEW n \in Sizes,
              CompressReturns(n)
       PROVE  FlagTypeOK'
  BY <1>11 DEF CompressReturns, Call, CompressRuns, PadAfter
<1>12. ASSUME NEW n \in Sizes,
              CompressThrows(n)
       PROVE  FlagTypeOK'
  BY <1>12 DEF CompressThrows, Call, CompressFails, PadAfter, Fault
<1>13. ASSUME NEW n \in Sizes,
              CompressRejects(n)
       PROVE  FlagTypeOK'
  BY <1>13 DEF CompressRejects, Call, Fault, PrepareFails, PadAfter
<1>14. ASSUME NEW n \in Sizes,
              PrepareInverse(n)
       PROVE  FlagTypeOK'
  BY <1>14 DEF PrepareInverse, Call
<1>15. ASSUME NEW variant \in Variants,
              DecompressNotReady(variant)
       PROVE  FlagTypeOK'
  BY <1>15 DEF DecompressNotReady, Call, Refused
<1>16. ASSUME NEW variant \in Variants, NEW b \in 0..MaxCalls, NEW capacity \in Capacities(variant),
              DecompressReturns(b, variant, capacity)
       PROVE  FlagTypeOK'
  BY <1>16 DEF DecompressReturns, Call
<1>17. ASSUME NEW variant \in Variants, NEW b \in 0..MaxCalls, NEW capacity \in Capacities(variant),
              DecompressThrows(b, variant, capacity)
       PROVE  FlagTypeOK'
  BY <1>17 DEF DecompressThrows, Call, Fault
<1>18. ASSUME WriteToFile PROVE FlagTypeOK'
  BY <1>18 DEF WriteToFile, Call
<1>19. ASSUME WriteRefused PROVE FlagTypeOK'
  BY <1>19 DEF WriteRefused, Call, Refused
<1>20. ASSUME PrimeMismatch PROVE FlagTypeOK'
  BY <1>20 DEF PrimeMismatch, Call, Fault
<1>21. ASSUME NEW h \in archive,
              PrimeInverseFromHeader(h)
       PROVE  FlagTypeOK'
  BY <1>21 DEF PrimeInverseFromHeader, Call
<1>22. ASSUME NEW h \in archive,
              DecompressFromFile(h)
       PROVE  FlagTypeOK'
  BY <1>22 DEF DecompressFromFile, Call
<1>23. ASSUME NEW h \in archive,
              DecompressFromFileFails(h)
       PROVE  FlagTypeOK'
  BY <1>23 DEF DecompressFromFileFails, Call, Fault
<1> QED
  BY <1>1, <1>2, <1>3, <1>4, <1>5, <1>6, <1>7, <1>8, <1>9, <1>10, <1>11, <1>12,
      <1>13, <1>14, <1>15, <1>16, <1>17, <1>18, <1>19, <1>20, <1>21, <1>22, <1>23
  DEF LifeNext

\* Sizes.
LEMMA SizeTypeOKStep == LifeInv /\ LifeNext => SizeTypeOK'
<1> SUFFICES ASSUME LifeInv, LifeNext
             PROVE  SizeTypeOK'
  OBVIOUS
<1> USE LifecycleAssumption, SizeFacts
        DEF LifeInv, LifeTypeOK, CallTypeOK, SizeTypeOK, BlobSet, Modes, flagVars,
            sizeVars, dataVars, graphVars, outVars
<1>p. ASSUME NEW n \in Nat, PrepareFails(n)
      PROVE  originalSize' \in Nat /\ padCapacity' \in Nat
  <2>1. PadAfter(n) \in Nat /\ PreparedOriginal(n) \in Nat
    BY DEF PadAfter
  <2>2. CASE graphCaptured /\ originalSize' = PreparedOriginal(n) /\ padCapacity' = padCapacity
    BY <2>1, <2>2
  <2> HIDE DEF LifeInv, LifeTypeOK, CallTypeOK, SizeTypeOK
  <2>z. 0 \in Nat
    OBVIOUS
  <2>3. CASE originalSize' = 0 /\ (padCapacity' = PadAfter(n) \/ padCapacity' = 0)
    BY Zenon, <2>1, <2>3, <2>z
  <2> QED
    BY Zenon, <1>p, <2>2, <2>3 DEF PrepareFails
<1>1. ASSUME Finalize PROVE SizeTypeOK'
  BY <1>1 DEF Finalize, Finalizes
<1>2. ASSUME FinalizeAndWarmup PROVE SizeTypeOK'
  BY <1>2 DEF FinalizeAndWarmup, Finalizes, WarmupReturns
<1>3. ASSUME FinalizeWarmupThrows PROVE SizeTypeOK'
  BY <1>3 DEF FinalizeWarmupThrows, Finalizes, Fault
<1>4. ASSUME FinalizeThrows PROVE SizeTypeOK'
  BY <1>4 DEF FinalizeThrows, Refused
<1>5. ASSUME Warmup PROVE SizeTypeOK'
  BY <1>5 DEF Warmup, Call, WarmupReturns
<1>6. ASSUME WarmupFails PROVE SizeTypeOK'
  <2>1. CASE CompressFails(Hint, 0)
    BY <1>6, <2>1 DEF WarmupFails, CompressFails, PadAfter, Call, Fault, WarmupThrows
  <2>2. CASE PrepareFails(Hint) /\ UNCHANGED <<inputSize, sourceSize>>
    BY <1>6, <2>2, <1>p DEF WarmupFails, Call, Fault, WarmupThrows
  <2> QED
    BY <1>6, <2>1, <2>2 DEF WarmupFails, WarmupThrows
<1>7. ASSUME CaptureGraph PROVE SizeTypeOK'
  BY <1>7 DEF CaptureGraph, Call, CaptureReturns, CaptureRefused, CaptureBreaks, Fault
<1>8. ASSUME CaptureTooEarlyOrLate PROVE SizeTypeOK'
  BY <1>8 DEF CaptureTooEarlyOrLate, Call, Refused
<1>9. ASSUME Reset PROVE SizeTypeOK'
  BY <1>9 DEF Reset, Call
<1>10. ASSUME SetPoolManagedDecompOutput PROVE SizeTypeOK'
  BY <1>10 DEF SetPoolManagedDecompOutput, Call
<1>11. ASSUME NEW n \in Sizes,
              CompressReturns(n)
       PROVE  SizeTypeOK'
  BY <1>11 DEF CompressReturns, Call, CompressRuns, PadAfter, Mode
<1>12. ASSUME NEW n \in Sizes,
              CompressThrows(n)
       PROVE  SizeTypeOK'
  BY <1>12 DEF CompressThrows, Call, CompressFails, PadAfter, Fault
<1>13. ASSUME NEW n \in Sizes,
              CompressRejects(n)
       PROVE  SizeTypeOK'
  BY <1>13, <1>p DEF CompressRejects, Call, Fault
<1>14. ASSUME NEW n \in Sizes,
              PrepareInverse(n)
       PROVE  SizeTypeOK'
  BY <1>14 DEF PrepareInverse, Call
<1>15. ASSUME NEW variant \in Variants,
              DecompressNotReady(variant)
       PROVE  SizeTypeOK'
  BY <1>15 DEF DecompressNotReady, Call, Refused
<1>16. ASSUME NEW variant \in Variants, NEW b \in 0..MaxCalls, NEW capacity \in Capacities(variant),
              DecompressReturns(b, variant, capacity)
       PROVE  SizeTypeOK'
  BY <1>16 DEF DecompressReturns, Call, CacheAfter, PlannedSize
<1>17. ASSUME NEW variant \in Variants, NEW b \in 0..MaxCalls, NEW capacity \in Capacities(variant),
              DecompressThrows(b, variant, capacity)
       PROVE  SizeTypeOK'
  BY <1>17 DEF DecompressThrows, Call, Fault, CacheAfter, PlannedSize
<1>18. ASSUME WriteToFile PROVE SizeTypeOK'
  BY <1>18 DEF WriteToFile, Call
<1>19. ASSUME WriteRefused PROVE SizeTypeOK'
  BY <1>19 DEF WriteRefused, Call, Refused
<1>20. ASSUME PrimeMismatch PROVE SizeTypeOK'
  BY <1>20 DEF PrimeMismatch, Call, Fault
<1>21. ASSUME NEW h \in archive,
              PrimeInverseFromHeader(h)
       PROVE  SizeTypeOK'
  BY <1>21 DEF PrimeInverseFromHeader, Call, ArchiveInv
<1>22. ASSUME NEW h \in archive,
              DecompressFromFile(h)
       PROVE  SizeTypeOK'
  BY <1>22 DEF DecompressFromFile, Call
<1>23. ASSUME NEW h \in archive,
              DecompressFromFileFails(h)
       PROVE  SizeTypeOK'
  BY <1>23 DEF DecompressFromFileFails, Call, Fault
<1> QED
  BY <1>1, <1>2, <1>3, <1>4, <1>5, <1>6, <1>7, <1>8, <1>9, <1>10, <1>11, <1>12,
      <1>13, <1>14, <1>15, <1>16, <1>17, <1>18, <1>19, <1>20, <1>21, <1>22, <1>23
  DEF LifeNext

\* A graph needs the slot finalize() sets up.
LEMMA GraphInvStep == LifeInv /\ LifeNext => GraphInv'
<1> SUFFICES ASSUME LifeInv, LifeNext
             PROVE  GraphInv'
  OBVIOUS
<1> USE LifecycleAssumption
        DEF LifeInv, GraphInv, GraphModePossible, flagVars, sizeVars, dataVars,
            graphVars, outVars
<1>1. ASSUME Finalize PROVE GraphInv'
  BY <1>1 DEF Finalize, Finalizes
<1>2. ASSUME FinalizeAndWarmup PROVE GraphInv'
  BY <1>2 DEF FinalizeAndWarmup, Finalizes, WarmupReturns
<1>3. ASSUME FinalizeWarmupThrows PROVE GraphInv'
  BY <1>3 DEF FinalizeWarmupThrows, Finalizes, Fault
<1>4. ASSUME FinalizeThrows PROVE GraphInv'
  BY <1>4 DEF FinalizeThrows, Refused
<1>5. ASSUME Warmup PROVE GraphInv'
  BY <1>5 DEF Warmup, Call, WarmupReturns
<1>6. ASSUME WarmupFails PROVE GraphInv'
  BY <1>6 DEF WarmupFails, Call, WarmupThrows, Fault, CompressFails,
     PrepareFails, PadAfter
<1>7. ASSUME CaptureGraph PROVE GraphInv'
  BY <1>7 DEF CaptureGraph, Call, CaptureReturns, CaptureRefused, CaptureBreaks, Fault
<1>8. ASSUME CaptureTooEarlyOrLate PROVE GraphInv'
  BY <1>8 DEF CaptureTooEarlyOrLate, Call, Refused
<1>9. ASSUME Reset PROVE GraphInv'
  BY <1>9 DEF Reset, Call
<1>10. ASSUME SetPoolManagedDecompOutput PROVE GraphInv'
  BY <1>10 DEF SetPoolManagedDecompOutput, Call
<1>11. ASSUME NEW n \in Sizes,
              CompressReturns(n)
       PROVE  GraphInv'
  BY <1>11 DEF CompressReturns, Call, CompressRuns, PadAfter
<1>12. ASSUME NEW n \in Sizes,
              CompressThrows(n)
       PROVE  GraphInv'
  BY <1>12 DEF CompressThrows, Call, CompressFails, PadAfter, Fault
<1>13. ASSUME NEW n \in Sizes,
              CompressRejects(n)
       PROVE  GraphInv'
  BY <1>13 DEF CompressRejects, Call, Fault, PrepareFails, PadAfter
<1>14. ASSUME NEW n \in Sizes,
              PrepareInverse(n)
       PROVE  GraphInv'
  BY <1>14 DEF PrepareInverse, Call
<1>15. ASSUME NEW variant \in Variants,
              DecompressNotReady(variant)
       PROVE  GraphInv'
  BY <1>15 DEF DecompressNotReady, Call, Refused
<1>16. ASSUME NEW variant \in Variants, NEW b \in 0..MaxCalls, NEW capacity \in Capacities(variant),
              DecompressReturns(b, variant, capacity)
       PROVE  GraphInv'
  BY <1>16 DEF DecompressReturns, Call
<1>17. ASSUME NEW variant \in Variants, NEW b \in 0..MaxCalls, NEW capacity \in Capacities(variant),
              DecompressThrows(b, variant, capacity)
       PROVE  GraphInv'
  BY <1>17 DEF DecompressThrows, Call, Fault
<1>18. ASSUME WriteToFile PROVE GraphInv'
  BY <1>18 DEF WriteToFile, Call
<1>19. ASSUME WriteRefused PROVE GraphInv'
  BY <1>19 DEF WriteRefused, Call, Refused
<1>20. ASSUME PrimeMismatch PROVE GraphInv'
  BY <1>20 DEF PrimeMismatch, Call, Fault
<1>21. ASSUME NEW h \in archive,
              PrimeInverseFromHeader(h)
       PROVE  GraphInv'
  BY <1>21 DEF PrimeInverseFromHeader, Call
<1>22. ASSUME NEW h \in archive,
              DecompressFromFile(h)
       PROVE  GraphInv'
  BY <1>22 DEF DecompressFromFile, Call
<1>23. ASSUME NEW h \in archive,
              DecompressFromFileFails(h)
       PROVE  GraphInv'
  BY <1>23 DEF DecompressFromFileFails, Call, Fault
<1> QED
  BY <1>1, <1>2, <1>3, <1>4, <1>5, <1>6, <1>7, <1>8, <1>9, <1>10, <1>11, <1>12,
      <1>13, <1>14, <1>15, <1>16, <1>17, <1>18, <1>19, <1>20, <1>21, <1>22, <1>23
  DEF LifeNext

\* Blobs are made by compress() alone.
LEMMA BlobInvStep == LifeInv /\ LifeNext => BlobInv'
<1> SUFFICES ASSUME LifeInv, LifeNext
             PROVE  BlobInv'
  OBVIOUS
<1> USE LifecycleAssumption, SizeFacts
        DEF LifeInv, LifeTypeOK, CallTypeOK, SizeTypeOK, BlobInv, Hint, flagVars,
            sizeVars, dataVars, graphVars, outVars
<1>1. ASSUME Finalize PROVE BlobInv'
  BY <1>1 DEF Finalize, Finalizes
<1>2. ASSUME FinalizeAndWarmup PROVE BlobInv'
  BY <1>2 DEF FinalizeAndWarmup, Finalizes, WarmupReturns
<1>3. ASSUME FinalizeWarmupThrows PROVE BlobInv'
  BY <1>3 DEF FinalizeWarmupThrows, Finalizes, Fault
<1>4. ASSUME FinalizeThrows PROVE BlobInv'
  BY <1>4 DEF FinalizeThrows, Refused
<1>5. ASSUME Warmup PROVE BlobInv'
  BY <1>5 DEF Warmup, Call, WarmupReturns
<1>6. ASSUME WarmupFails PROVE BlobInv'
  BY <1>6 DEF WarmupFails, Call, WarmupThrows, Fault, CompressFails,
     PrepareFails, PadAfter
<1>7. ASSUME CaptureGraph PROVE BlobInv'
  <2>1. CASE CaptureReturns
    BY <1>7, <2>1 DEF CaptureGraph, Call, CaptureReturns
  <2>2. CASE CaptureRefused
    BY <1>7, <2>2 DEF CaptureGraph, Call, CaptureRefused, Fault
  <2>3. CASE CaptureBreaks
    BY <1>7, <2>3 DEF CaptureGraph, Call, CaptureBreaks, Fault
  <2> QED
    BY <1>7, <2>1, <2>2, <2>3 DEF CaptureGraph
<1>8. ASSUME CaptureTooEarlyOrLate PROVE BlobInv'
  BY <1>8 DEF CaptureTooEarlyOrLate, Call, Refused
<1>9. ASSUME Reset PROVE BlobInv'
  BY <1>9 DEF Reset, Call
<1>10. ASSUME SetPoolManagedDecompOutput PROVE BlobInv'
  BY <1>10 DEF SetPoolManagedDecompOutput, Call
<1>11. ASSUME NEW n \in Sizes,
              CompressReturns(n)
       PROVE  BlobInv'
  <2> DEFINE blob == [size |-> n, source |-> PreparedSource(n), mode |-> Mode]
  <2>0. calls \in 0..MaxCalls /\ MaxCalls \in Nat
    OBVIOUS
  <2>1. calls' = calls + 1 /\ calls' \in 1..MaxCalls /\ cfg' = cfg
    <3> HIDE DEF LifeInv, LifeTypeOK, CallTypeOK, SizeTypeOK, BlobInv
    <3> QED
      BY <1>11, <2>0 DEF CompressReturns, Call
  <2>2. blobs' = [blobs EXCEPT ![calls'] = blob]
    BY <1>11 DEF CompressReturns
  <2>3. \A k \in 1..MaxCalls : blobs'[k] = IF k = calls' THEN blob ELSE blobs[k]
    BY <2>1, <2>2
  <2>4. graphCaptured => Hint > 0 /\ n <= Hint
    BY <1>11 DEF CompressReturns, TooLarge, GraphInv, GraphModePossible
  <2>5. blob.mode = "replay" <=> graphCaptured
    BY DEF Mode
  <2>6. blob.source = IF blob.mode = "replay" THEN Hint ELSE RoundUp(blob.size, cfg.align)
    BY <2>5 DEF PreparedSource
  <2>7. ASSUME NEW k \in 1..MaxCalls
        PROVE  /\ k > calls' => blobs'[k] = NoBlob
               /\ blobs'[k].mode = "replay" => Hint > 0 /\ blobs'[k].size <= Hint
               /\ blobs'[k].source = IF blobs'[k].mode = "replay" THEN Hint
                                      ELSE RoundUp(blobs'[k].size, cfg.align)
    <3> HIDE DEF Hint
    <3>1. CASE k = calls'
      <4>1. blobs'[k] = blob /\ blob.size = n
        BY <3>1, <2>3
      <4>2. ~(k > calls')
        BY <3>1, <2>1
      <4> HIDE DEF blob, LifeInv, LifeTypeOK, CallTypeOK, SizeTypeOK, BlobInv
      <4> QED
        BY Zenon, <4>1, <4>2, <2>4, <2>5, <2>6
    <3>2. CASE k # calls'
      <4>1. blobs'[k] = blobs[k]
        BY <3>2, <2>3
      <4>2. /\ k > calls => blobs[k] = NoBlob
            /\ blobs[k].mode = "replay" => Hint > 0 /\ blobs[k].size <= Hint
            /\ blobs[k].source = IF blobs[k].mode = "replay" THEN Hint
                                 ELSE RoundUp(blobs[k].size, cfg.align)
        BY DEF BlobInv
      <4>3. k > calls' => k > calls
        BY <2>1
      <4> HIDE DEF LifeInv, BlobInv
      <4> QED
        BY Zenon, <4>1, <4>2, <4>3
    <3> QED
      BY <3>1, <3>2
  <2> QED
    BY <2>1, <2>7
<1>12. ASSUME NEW n \in Sizes,
              CompressThrows(n)
       PROVE  BlobInv'
  BY <1>12 DEF CompressThrows, Call, CompressFails, PadAfter, Fault
<1>13. ASSUME NEW n \in Sizes,
              CompressRejects(n)
       PROVE  BlobInv'
  BY <1>13 DEF CompressRejects, Call, Fault, PrepareFails, PadAfter
<1>14. ASSUME NEW n \in Sizes,
              PrepareInverse(n)
       PROVE  BlobInv'
  BY <1>14 DEF PrepareInverse, Call
<1>15. ASSUME NEW variant \in Variants,
              DecompressNotReady(variant)
       PROVE  BlobInv'
  BY <1>15 DEF DecompressNotReady, Call, Refused
<1>16. ASSUME NEW variant \in Variants, NEW b \in 0..MaxCalls, NEW capacity \in Capacities(variant),
              DecompressReturns(b, variant, capacity)
       PROVE  BlobInv'
  BY <1>16 DEF DecompressReturns, Call
<1>17. ASSUME NEW variant \in Variants, NEW b \in 0..MaxCalls, NEW capacity \in Capacities(variant),
              DecompressThrows(b, variant, capacity)
       PROVE  BlobInv'
  BY <1>17 DEF DecompressThrows, Call, Fault
<1>18. ASSUME WriteToFile PROVE BlobInv'
  BY <1>18 DEF WriteToFile, Call
<1>19. ASSUME WriteRefused PROVE BlobInv'
  BY <1>19 DEF WriteRefused, Call, Refused
<1>20. ASSUME PrimeMismatch PROVE BlobInv'
  BY <1>20 DEF PrimeMismatch, Call, Fault
<1>21. ASSUME NEW h \in archive,
              PrimeInverseFromHeader(h)
       PROVE  BlobInv'
  BY <1>21 DEF PrimeInverseFromHeader, Call
<1>22. ASSUME NEW h \in archive,
              DecompressFromFile(h)
       PROVE  BlobInv'
  BY <1>22 DEF DecompressFromFile, Call
<1>23. ASSUME NEW h \in archive,
              DecompressFromFileFails(h)
       PROVE  BlobInv'
  BY <1>23 DEF DecompressFromFileFails, Call, Fault
<1> QED
  BY <1>1, <1>2, <1>3, <1>4, <1>5, <1>6, <1>7, <1>8, <1>9, <1>10, <1>11, <1>12,
      <1>13, <1>14, <1>15, <1>16, <1>17, <1>18, <1>19, <1>20, <1>21, <1>22, <1>23
  DEF LifeNext

\* Metadata and the fields they describe.
LEMMA MetaInvStep == LifeInv /\ LifeNext => MetaInv'
<1> SUFFICES ASSUME LifeInv, LifeNext
             PROVE  MetaInv'
  OBVIOUS
<1> USE LifecycleAssumption
        DEF LifeInv, LifeTypeOK, CallTypeOK, SizeTypeOK, MetaInv, BlobInv, NoMeta,
            NoBlob, MetaSet, Kinds, Mixed, flagVars, sizeVars, dataVars, graphVars,
            outVars
<1>1. ASSUME Finalize PROVE MetaInv'
  BY <1>1 DEF Finalize, Finalizes
<1>2. ASSUME FinalizeAndWarmup PROVE MetaInv'
  BY <1>2 DEF FinalizeAndWarmup, Finalizes, WarmupReturns
<1>3. ASSUME FinalizeWarmupThrows PROVE MetaInv'
  BY <1>3 DEF FinalizeWarmupThrows, Finalizes, Fault
<1>4. ASSUME FinalizeThrows PROVE MetaInv'
  BY <1>4 DEF FinalizeThrows, Refused
<1>5. ASSUME Warmup PROVE MetaInv'
  BY <1>5 DEF Warmup, Call, WarmupReturns
<1>6. ASSUME WarmupFails PROVE MetaInv'
  <2>1. CASE CompressFails(Hint, 0)
    BY <1>6, <2>1 DEF WarmupFails, CompressFails
  <2>2. CASE UNCHANGED <<isCompressed, inputSize, sourceSize, meta, live, params>>
    BY <1>6, <2>2 DEF WarmupFails
  <2> QED
    BY <1>6, <2>1, <2>2 DEF WarmupFails, WarmupThrows
<1>7. ASSUME CaptureGraph PROVE MetaInv'
  BY <1>7 DEF CaptureGraph, Call, CaptureReturns, CaptureRefused, CaptureBreaks, Fault
<1>8. ASSUME CaptureTooEarlyOrLate PROVE MetaInv'
  BY <1>8 DEF CaptureTooEarlyOrLate, Call, Refused
<1>9. ASSUME Reset PROVE MetaInv'
  BY <1>9 DEF Reset, Call
<1>10. ASSUME SetPoolManagedDecompOutput PROVE MetaInv'
  BY <1>10 DEF SetPoolManagedDecompOutput, Call
<1>11. ASSUME NEW n \in Sizes,
              CompressReturns(n)
       PROVE  MetaInv'
  BY <1>11 DEF CompressReturns, Call, CompressRuns, PadAfter
<1>12. ASSUME NEW n \in Sizes,
              CompressThrows(n)
       PROVE  MetaInv'
  BY <1>12 DEF CompressThrows, Call, CompressFails, PadAfter, Fault
<1>13. ASSUME NEW n \in Sizes,
              CompressRejects(n)
       PROVE  MetaInv'
  BY <1>13 DEF CompressRejects, Call, Fault, PrepareFails, PadAfter
<1>14. ASSUME NEW n \in Sizes,
              PrepareInverse(n)
       PROVE  MetaInv'
  BY <1>14 DEF PrepareInverse, Call
<1>15. ASSUME NEW variant \in Variants,
              DecompressNotReady(variant)
       PROVE  MetaInv'
  BY <1>15 DEF DecompressNotReady, Call, Refused
<1>16. ASSUME NEW variant \in Variants, NEW b \in 0..MaxCalls, NEW capacity \in Capacities(variant),
              DecompressReturns(b, variant, capacity)
       PROVE  MetaInv'
  BY <1>16 DEF DecompressReturns, Call
<1>17. ASSUME NEW variant \in Variants, NEW b \in 0..MaxCalls, NEW capacity \in Capacities(variant),
              DecompressThrows(b, variant, capacity)
       PROVE  MetaInv'
  BY <1>17 DEF DecompressThrows, Call, Fault
<1>18. ASSUME WriteToFile PROVE MetaInv'
  BY <1>18 DEF WriteToFile, Call
<1>19. ASSUME WriteRefused PROVE MetaInv'
  BY <1>19 DEF WriteRefused, Call, Refused
<1>20. ASSUME PrimeMismatch PROVE MetaInv'
  BY <1>20 DEF PrimeMismatch, Call, Fault
<1>21. ASSUME NEW h \in archive,
              PrimeInverseFromHeader(h)
       PROVE  MetaInv'
  BY <1>21 DEF PrimeInverseFromHeader, Call
<1>22. ASSUME NEW h \in archive,
              DecompressFromFile(h)
       PROVE  MetaInv'
  BY <1>22 DEF DecompressFromFile, Call
<1>23. ASSUME NEW h \in archive,
              DecompressFromFileFails(h)
       PROVE  MetaInv'
  BY <1>23 DEF DecompressFromFileFails, Call, Fault
<1> QED
  BY <1>1, <1>2, <1>3, <1>4, <1>5, <1>6, <1>7, <1>8, <1>9, <1>10, <1>11, <1>12,
      <1>13, <1>14, <1>15, <1>16, <1>17, <1>18, <1>19, <1>20, <1>21, <1>22, <1>23
  DEF LifeNext

\* The original size.
LEMMA SizedInvStep == LifeInv /\ LifeNext => SizedInv'
<1> SUFFICES ASSUME LifeInv, LifeNext
             PROVE  SizedInv'
  OBVIOUS
<1> USE LifecycleAssumption, SizeFacts
        DEF LifeInv, LifeTypeOK, CallTypeOK, SizeTypeOK, SizedInv, BlobInv, NoBlob,
            PreparedOriginal, Padded, flagVars, sizeVars, dataVars, graphVars, outVars
<1>1. ASSUME Finalize PROVE SizedInv'
  BY <1>1 DEF Finalize, Finalizes
<1>2. ASSUME FinalizeAndWarmup PROVE SizedInv'
  BY <1>2 DEF FinalizeAndWarmup, Finalizes, WarmupReturns
<1>3. ASSUME FinalizeWarmupThrows PROVE SizedInv'
  BY <1>3 DEF FinalizeWarmupThrows, Finalizes, Fault
<1>4. ASSUME FinalizeThrows PROVE SizedInv'
  BY <1>4 DEF FinalizeThrows, Refused
<1>5. ASSUME Warmup PROVE SizedInv'
  BY <1>5 DEF Warmup, Call, WarmupReturns
<1>6. ASSUME WarmupFails PROVE SizedInv'
  BY <1>6 DEF WarmupFails, Call, WarmupThrows, Fault, CompressFails,
     PrepareFails, PadAfter
<1>7. ASSUME CaptureGraph PROVE SizedInv'
  BY <1>7 DEF CaptureGraph, Call, CaptureReturns, CaptureRefused, CaptureBreaks, Fault
<1>8. ASSUME CaptureTooEarlyOrLate PROVE SizedInv'
  BY <1>8 DEF CaptureTooEarlyOrLate, Call, Refused
<1>9. ASSUME Reset PROVE SizedInv'
  BY <1>9 DEF Reset, Call
<1>10. ASSUME SetPoolManagedDecompOutput PROVE SizedInv'
  BY <1>10 DEF SetPoolManagedDecompOutput, Call
<1>11. ASSUME NEW n \in Sizes,
              CompressReturns(n)
       PROVE  SizedInv'
  BY SMTT(60), <1>11 DEF CompressReturns, Call, CompressRuns, PadAfter
<1>12. ASSUME NEW n \in Sizes,
              CompressThrows(n)
       PROVE  SizedInv'
  BY SMTT(60), <1>12 DEF CompressThrows, Call, CompressFails, PadAfter, Fault
<1>13. ASSUME NEW n \in Sizes,
              CompressRejects(n)
       PROVE  SizedInv'
  BY SMTT(60), <1>13 DEF CompressRejects, Call, Fault, PrepareFails, PadAfter
<1>14. ASSUME NEW n \in Sizes,
              PrepareInverse(n)
       PROVE  SizedInv'
  BY <1>14 DEF PrepareInverse, Call
<1>15. ASSUME NEW variant \in Variants,
              DecompressNotReady(variant)
       PROVE  SizedInv'
  BY <1>15 DEF DecompressNotReady, Call, Refused
<1>16. ASSUME NEW variant \in Variants, NEW b \in 0..MaxCalls, NEW capacity \in Capacities(variant),
              DecompressReturns(b, variant, capacity)
       PROVE  SizedInv'
  BY <1>16 DEF DecompressReturns, Call
<1>17. ASSUME NEW variant \in Variants, NEW b \in 0..MaxCalls, NEW capacity \in Capacities(variant),
              DecompressThrows(b, variant, capacity)
       PROVE  SizedInv'
  BY <1>17 DEF DecompressThrows, Call, Fault
<1>18. ASSUME WriteToFile PROVE SizedInv'
  BY <1>18 DEF WriteToFile, Call
<1>19. ASSUME WriteRefused PROVE SizedInv'
  BY <1>19 DEF WriteRefused, Call, Refused
<1>20. ASSUME PrimeMismatch PROVE SizedInv'
  BY <1>20 DEF PrimeMismatch, Call, Fault
<1>21. ASSUME NEW h \in archive,
              PrimeInverseFromHeader(h)
       PROVE  SizedInv'
  BY <1>21 DEF PrimeInverseFromHeader, Call
<1>22. ASSUME NEW h \in archive,
              DecompressFromFile(h)
       PROVE  SizedInv'
  BY <1>22 DEF DecompressFromFile, Call
<1>23. ASSUME NEW h \in archive,
              DecompressFromFileFails(h)
       PROVE  SizedInv'
  BY <1>23 DEF DecompressFromFileFails, Call, Fault
<1> QED
  BY <1>1, <1>2, <1>3, <1>4, <1>5, <1>6, <1>7, <1>8, <1>9, <1>10, <1>11, <1>12,
      <1>13, <1>14, <1>15, <1>16, <1>17, <1>18, <1>19, <1>20, <1>21, <1>22, <1>23
  DEF LifeNext

\* The headers, the calls they are of and the blobs of these calls stay.
KeepsArchive ==
    /\ archive' = archive
    /\ calls' \in Nat /\ calls <= calls'
    /\ \A k \in 1..calls : blobs'[k] = blobs[k]

LEMMA ArchiveKept ==
    ASSUME LifeInv, KeepsArchive
    PROVE  ArchiveInv'
<1>1. calls \in Nat
  BY DEF LifeInv, LifeTypeOK, CallTypeOK
<1> SUFFICES ASSUME NEW h \in archive
             PROVE  /\ h.meta \in MetaSet /\ h.source \in Nat
                    /\ h.params \in (0..calls') \cup {Mixed} /\ h.data \in 0..calls'
                    /\ h.meta.kind = "actual" =>
                         /\ h.data = h.meta.call /\ h.data > 0
                         /\ h.source = blobs'[h.data].source
                         /\ h.params \in {h.data, Mixed}
  BY Zenon DEF ArchiveInv, KeepsArchive
<1>2. /\ h.meta \in MetaSet /\ h.source \in Nat
      /\ h.params \in (0..calls) \cup {Mixed} /\ h.data \in 0..calls
      /\ h.meta.kind = "actual" =>
           /\ h.data = h.meta.call /\ h.data > 0
           /\ h.source = blobs[h.data].source
           /\ h.params \in {h.data, Mixed}
  BY Zenon DEF LifeInv, ArchiveInv
<1>3. h.params \in (0..calls') \cup {Mixed} /\ h.data \in 0..calls'
  BY <1>1, <1>2 DEF KeepsArchive
<1>4. h.data > 0 => blobs'[h.data] = blobs[h.data]
  BY <1>1, <1>2 DEF KeepsArchive
<1> QED
  BY Zenon, <1>2, <1>3, <1>4

\* Headers.
LEMMA ArchiveInvStep == LifeInv /\ LifeNext => ArchiveInv'
<1> SUFFICES ASSUME LifeInv, LifeNext
             PROVE  ArchiveInv'
  OBVIOUS
<1> USE LifecycleAssumption
        DEF flagVars, sizeVars, dataVars, graphVars, outVars
<1>c. calls \in Nat /\ calls <= MaxCalls /\ DOMAIN blobs = 1..MaxCalls
  BY DEF LifeInv, LifeTypeOK, CallTypeOK, SizeTypeOK
<1>1. ASSUME Finalize PROVE KeepsArchive
  BY <1>1, <1>c DEF KeepsArchive, Finalize, Finalizes
<1>2. ASSUME FinalizeAndWarmup PROVE KeepsArchive
  BY <1>2, <1>c DEF KeepsArchive, FinalizeAndWarmup, Finalizes, WarmupReturns
<1>3. ASSUME FinalizeWarmupThrows PROVE KeepsArchive
  BY <1>3, <1>c DEF KeepsArchive, FinalizeWarmupThrows, Finalizes, Fault
<1>4. ASSUME FinalizeThrows PROVE KeepsArchive
  BY <1>4, <1>c DEF KeepsArchive, FinalizeThrows, Refused
<1>5. ASSUME Warmup PROVE KeepsArchive
  BY <1>5, <1>c DEF KeepsArchive, Warmup, Call, WarmupReturns
<1>6. ASSUME WarmupFails PROVE KeepsArchive
  BY <1>6, <1>c DEF KeepsArchive, WarmupFails, Call, WarmupThrows, Fault, CompressFails,
     PrepareFails, PadAfter
<1>7. ASSUME CaptureGraph PROVE KeepsArchive
  BY <1>7, <1>c DEF KeepsArchive, CaptureGraph, Call, CaptureReturns, CaptureRefused, CaptureBreaks, Fault
<1>8. ASSUME CaptureTooEarlyOrLate PROVE KeepsArchive
  BY <1>8, <1>c DEF KeepsArchive, CaptureTooEarlyOrLate, Call, Refused
<1>9. ASSUME Reset PROVE KeepsArchive
  BY <1>9, <1>c DEF KeepsArchive, Reset, Call
<1>10. ASSUME SetPoolManagedDecompOutput PROVE KeepsArchive
  BY <1>10, <1>c DEF KeepsArchive, SetPoolManagedDecompOutput, Call
<1>11. ASSUME NEW n \in Sizes,
              CompressReturns(n)
       PROVE  KeepsArchive
  BY <1>11, <1>c DEF KeepsArchive, CompressReturns, Call, CompressRuns, PadAfter
<1>12. ASSUME NEW n \in Sizes,
              CompressThrows(n)
       PROVE  KeepsArchive
  BY <1>12, <1>c DEF KeepsArchive, CompressThrows, Call, CompressFails, PadAfter, Fault
<1>13. ASSUME NEW n \in Sizes,
              CompressRejects(n)
       PROVE  KeepsArchive
  BY <1>13, <1>c DEF KeepsArchive, CompressRejects, Call, Fault, PrepareFails, PadAfter
<1>14. ASSUME NEW n \in Sizes,
              PrepareInverse(n)
       PROVE  KeepsArchive
  BY <1>14, <1>c DEF KeepsArchive, PrepareInverse, Call
<1>15. ASSUME NEW variant \in Variants,
              DecompressNotReady(variant)
       PROVE  KeepsArchive
  BY <1>15, <1>c DEF KeepsArchive, DecompressNotReady, Call, Refused
<1>16. ASSUME NEW variant \in Variants, NEW b \in 0..MaxCalls, NEW capacity \in Capacities(variant),
              DecompressReturns(b, variant, capacity)
       PROVE  KeepsArchive
  BY <1>16, <1>c DEF KeepsArchive, DecompressReturns, Call
<1>17. ASSUME NEW variant \in Variants, NEW b \in 0..MaxCalls, NEW capacity \in Capacities(variant),
              DecompressThrows(b, variant, capacity)
       PROVE  KeepsArchive
  BY <1>17, <1>c DEF KeepsArchive, DecompressThrows, Call, Fault
<1>18. ASSUME WriteToFile PROVE ArchiveInv'
  BY SMTT(60), <1>18 DEF LifeInv, LifeTypeOK, CallTypeOK, SizeTypeOK, ArchiveInv, Mixed,
     WriteToFile, Call, MetaInv, CanWrite
<1>19. ASSUME WriteRefused PROVE KeepsArchive
  BY <1>19, <1>c DEF KeepsArchive, WriteRefused, Call, Refused
<1>20. ASSUME PrimeMismatch PROVE KeepsArchive
  BY <1>20, <1>c DEF KeepsArchive, PrimeMismatch, Call, Fault
<1>21. ASSUME NEW h \in archive,
              PrimeInverseFromHeader(h)
       PROVE  KeepsArchive
  BY <1>21, <1>c DEF KeepsArchive, PrimeInverseFromHeader, Call
<1>22. ASSUME NEW h \in archive,
              DecompressFromFile(h)
       PROVE  KeepsArchive
  BY <1>22, <1>c DEF KeepsArchive, DecompressFromFile, Call
<1>23. ASSUME NEW h \in archive,
              DecompressFromFileFails(h)
       PROVE  KeepsArchive
  BY <1>23, <1>c DEF KeepsArchive, DecompressFromFileFails, Call, Fault
<1>k. KeepsArchive => ArchiveInv'
  BY ArchiveKept
<1> HIDE DEF flagVars, sizeVars, dataVars, graphVars, outVars
<1> QED
  BY <1>k, <1>1, <1>2, <1>3, <1>4, <1>5, <1>6, <1>7, <1>8, <1>9, <1>10, <1>11, <1>12,
      <1>13, <1>14, <1>15, <1>16, <1>17, <1>18, <1>19, <1>20, <1>21, <1>22, <1>23
  DEF LifeNext

\* What decompress() returned.
LEMMA ReturnInvStep == LifeInv /\ LifeNext => ReturnInv'
<1> SUFFICES ASSUME LifeInv, LifeNext
             PROVE  ReturnInv'
  OBVIOUS
<1> USE LifecycleAssumption
        DEF LifeInv, LifeTypeOK, CallTypeOK, ReturnInv, Nothing, flagVars, sizeVars,
            dataVars, graphVars, outVars
<1>1. ASSUME Finalize PROVE ReturnInv'
  BY <1>1 DEF Finalize, Finalizes
<1>2. ASSUME FinalizeAndWarmup PROVE ReturnInv'
  BY <1>2 DEF FinalizeAndWarmup, Finalizes, WarmupReturns
<1>3. ASSUME FinalizeWarmupThrows PROVE ReturnInv'
  BY <1>3 DEF FinalizeWarmupThrows, Finalizes, Fault
<1>4. ASSUME FinalizeThrows PROVE ReturnInv'
  BY <1>4 DEF FinalizeThrows, Refused
<1>5. ASSUME Warmup PROVE ReturnInv'
  BY <1>5 DEF Warmup, Call, WarmupReturns
<1>6. ASSUME WarmupFails PROVE ReturnInv'
  BY <1>6 DEF WarmupFails, Call, WarmupThrows, Fault, CompressFails,
     PrepareFails, PadAfter
<1>7. ASSUME CaptureGraph PROVE ReturnInv'
  BY <1>7 DEF CaptureGraph, Call, CaptureReturns, CaptureRefused, CaptureBreaks, Fault
<1>8. ASSUME CaptureTooEarlyOrLate PROVE ReturnInv'
  BY <1>8 DEF CaptureTooEarlyOrLate, Call, Refused
<1>9. ASSUME Reset PROVE ReturnInv'
  BY <1>9 DEF Reset, Call
<1>10. ASSUME SetPoolManagedDecompOutput PROVE ReturnInv'
  BY <1>10 DEF SetPoolManagedDecompOutput, Call
<1>11. ASSUME NEW n \in Sizes,
              CompressReturns(n)
       PROVE  ReturnInv'
  BY <1>11 DEF CompressReturns, Call, CompressRuns, PadAfter
<1>12. ASSUME NEW n \in Sizes,
              CompressThrows(n)
       PROVE  ReturnInv'
  BY <1>12 DEF CompressThrows, Call, CompressFails, PadAfter, Fault
<1>13. ASSUME NEW n \in Sizes,
              CompressRejects(n)
       PROVE  ReturnInv'
  BY <1>13 DEF CompressRejects, Call, Fault, PrepareFails, PadAfter
<1>14. ASSUME NEW n \in Sizes,
              PrepareInverse(n)
       PROVE  ReturnInv'
  BY <1>14 DEF PrepareInverse, Call
<1>15. ASSUME NEW variant \in Variants,
              DecompressNotReady(variant)
       PROVE  ReturnInv'
  BY <1>15 DEF DecompressNotReady, Call, Refused
<1>16. ASSUME NEW variant \in Variants, NEW b \in 0..MaxCalls, NEW capacity \in Capacities(variant),
              DecompressReturns(b, variant, capacity)
       PROVE  ReturnInv'
  <2>1. PICK size \in ReportedSizes(b, variant) :
          last' = [Nothing EXCEPT !.op = "decompress", !.blob = Decoded(b),
                     !.size = Trimmed(size), !.meta = meta,
                     !.right = DecodesRight(b) /\ cache' = PlannedSize]
    BY <1>16 DEF DecompressReturns
  <2>2. /\ last'.blob = Decoded(b) /\ last'.size = Trimmed(size) /\ last'.meta = meta
        /\ last'.right = (DecodesRight(b) /\ cache' = PlannedSize)
    BY <2>1
  <2>3. /\ UNCHANGED <<sizeVars, dataVars>> /\ calls' = calls + 1 /\ calls < MaxCalls
        /\ cache' = PlannedSize
        /\ b > 0 => blobs[b].size > 0
    BY <1>16 DEF DecompressReturns, Call, CacheAfter
  <2>4. /\ Decoded(b) \in 0..calls
        /\ Decoded(b) > 0 => blobs[Decoded(b)].size > 0
    BY <2>3 DEF Decoded, MetaInv, BlobInv, NoBlob
  <2>5. size \in {PlannedSize, blobs[Decoded(b)].source} \/ Decoded(b) = 0
    BY DEF ReportedSizes
  <2>6. PlannedSize' = PlannedSize /\ Trimmed(size)' = Trimmed(size)
    BY <2>3 DEF PlannedSize, Trimmed
  <2>7. (/\ Decoded(b) > 0 /\ params # Mixed
         /\ meta = [kind |-> "actual", call |-> Decoded(b)]) => DecodesRight(b)
    BY DEF DecodesRight, Decoded, MetaInv
  <2>8. last'.blob > 0 => \E z \in {PlannedSize', blobs'[last'.blob].source} : last'.size = Trimmed(z)'
    BY <2>2, <2>3, <2>5, <2>6 DEF Trimmed
  <2>9. (last'.blob > 0 /\ meta' = [kind |-> "actual", call |-> last'.blob] /\ params' # Mixed')
           => last'.right
    BY <2>2, <2>3, <2>7 DEF Mixed
  <2> QED
    BY <2>2, <2>3, <2>4, <2>8, <2>9
<1>17. ASSUME NEW variant \in Variants, NEW b \in 0..MaxCalls, NEW capacity \in Capacities(variant),
              DecompressThrows(b, variant, capacity)
       PROVE  ReturnInv'
  BY <1>17 DEF DecompressThrows, Call, Fault
<1>18. ASSUME WriteToFile PROVE ReturnInv'
  BY <1>18 DEF WriteToFile, Call
<1>19. ASSUME WriteRefused PROVE ReturnInv'
  BY <1>19 DEF WriteRefused, Call, Refused
<1>20. ASSUME PrimeMismatch PROVE ReturnInv'
  BY <1>20 DEF PrimeMismatch, Call, Fault
<1>21. ASSUME NEW h \in archive,
              PrimeInverseFromHeader(h)
       PROVE  ReturnInv'
  BY <1>21 DEF PrimeInverseFromHeader, Call
<1>22. ASSUME NEW h \in archive,
              DecompressFromFile(h)
       PROVE  ReturnInv'
  BY <1>22 DEF DecompressFromFile, Call
<1>23. ASSUME NEW h \in archive,
              DecompressFromFileFails(h)
       PROVE  ReturnInv'
  BY <1>23 DEF DecompressFromFileFails, Call, Fault
<1> QED
  BY <1>1, <1>2, <1>3, <1>4, <1>5, <1>6, <1>7, <1>8, <1>9, <1>10, <1>11, <1>12,
      <1>13, <1>14, <1>15, <1>16, <1>17, <1>18, <1>19, <1>20, <1>21, <1>22, <1>23
  DEF LifeNext

-----------------------------------------------------------------------------
(***************************************************************************)
(* The theorems.                                                           *)
(***************************************************************************)

\* A new pipeline: no blob, no metadata, no header.
LEMMA LifeInvInit == LifeInit => LifeInv
<1> SUFFICES ASSUME LifeInit
             PROVE  LifeInv
  OBVIOUS
<1> USE LifecycleAssumption DEF LifeInit, NoMeta, NoBlob
<1>1. CallTypeOK /\ SizeTypeOK
  BY DEF CallTypeOK, SizeTypeOK, MetaSet, Kinds, BlobSet, Modes
<1>5. FlagTypeOK
  BY Zenon DEF FlagTypeOK
<1>2. GraphInv /\ MetaInv /\ SizedInv /\ ArchiveInv
  BY DEF GraphInv, MetaInv, SizedInv, ArchiveInv
<1>3. BlobInv
  <2>1. cfg.align \in Nat \ {0}
    BY ConfigFacts
  <2>2. 0 % cfg.align = 0
    BY <2>1
  <2>3. RoundUp(0, cfg.align) = 0
    BY <2>1, <2>2, RoundUpFacts
  <2> QED
    BY <2>3 DEF BlobInv
<1>4. ReturnInv
  BY DEF ReturnInv, Nothing
<1> QED
  BY <1>1, <1>2, <1>3, <1>4, <1>5 DEF LifeInv, LifeTypeOK

\* A step that changes nothing.
LEMMA LifeInvStutter ==
    ASSUME LifeInv, UNCHANGED lifeVars
    PROVE  LifeInv'
<1> USE DEF lifeVars, flagVars, sizeVars, dataVars, graphVars, outVars, LifeInv
<1>1. LifeTypeOK'
  BY DEF LifeTypeOK, CallTypeOK, FlagTypeOK, SizeTypeOK, Mixed
<1>2. GraphInv' /\ MetaInv'
  BY DEF GraphInv, GraphModePossible, MetaInv, Mixed
<1>3. SizedInv' /\ ArchiveInv'
  BY DEF SizedInv, PreparedOriginal, Padded, ArchiveInv, Mixed
<1>4. BlobInv' /\ ReturnInv'
  BY DEF BlobInv, Hint, ReturnInv, PlannedSize, Trimmed, Mixed
<1> QED
  BY <1>1, <1>2, <1>3, <1>4

\* What the fields of a pipeline mean holds between any two calls, whichever
\* calls were made and whichever of them failed.
THEOREM LifecycleInvariant == LifeSpec => []LifeInv
<1>1. LifeInv /\ [LifeNext]_lifeVars => LifeInv'
  <2> SUFFICES ASSUME LifeInv, [LifeNext]_lifeVars
               PROVE  LifeInv'
    OBVIOUS
  <2>1. CASE LifeNext
    BY <2>1, CallTypeOKStep, FlagTypeOKStep, SizeTypeOKStep, GraphInvStep, BlobInvStep,
       MetaInvStep, SizedInvStep, ArchiveInvStep, ReturnInvStep
       DEF LifeInv, LifeTypeOK
  <2>2. CASE UNCHANGED lifeVars
    BY <2>2, LifeInvStutter
  <2> QED
    BY <2>1, <2>2
<1> QED
  BY <1>1, LifeInvInit, PTL DEF LifeSpec

\* buffer_metadata_ with real sizes always describes the DAG's live output
\* buffers and the source size of the compress() that filled them.
THEOREM MetadataCorrect == LifeSpec => []MetadataDescribesLive
<1>1. LifeInv => MetadataDescribesLive
  BY DEF LifeInv, MetaInv, MetadataDescribesLive
<1> QED
  BY <1>1, LifecycleInvariant, PTL

\* Where no graph was replayed and compress() was not called again since,
\* decompress() of the blob the metadata are about returns as many bytes as the
\* application passed to compress(): the padding is cut off and nothing else.
THEOREM EagerRoundTripSizeCorrect == LifeSpec => []EagerRoundTripSize
<1>1. LifeInv => EagerRoundTripSize
  <2> DEFINE k == last.blob
  <2> SUFFICES ASSUME LifeInv, last.op = "decompress", last.ok, k > 0,
                      last.meta = [kind |-> "actual", call |-> k],
                      attempted = k, blobs[k].mode # "replay"
               PROVE  last.size = blobs[k].size
    BY DEF EagerRoundTripSize, RoundTripSize, DecodedOwnBlob
  <2> USE LifecycleAssumption DEF LifeInv, LifeTypeOK, CallTypeOK, SizeTypeOK
  <2>1. /\ k \in 1..MaxCalls /\ meta = [kind |-> "actual", call |-> k]
        /\ blobs[k].size > 0
        /\ \E size \in {PlannedSize, blobs[k].source} : last.size = Trimmed(size)
    BY DEF ReturnInv
  <2>2. live = k /\ sourceSize = blobs[k].source /\ inputSize = sourceSize
    BY <2>1 DEF MetaInv
  <2>3. PlannedSize = blobs[k].source
    BY <2>2 DEF PlannedSize
  <2>4. last.size = Trimmed(blobs[k].source)
    BY <2>1, <2>3
  <2>5. originalSize = PreparedOriginal(blobs[k].size)
    BY <2>1 DEF SizedInv
  <2> DEFINE n == blobs[k].size
  <2>6. n \in Nat /\ n > 0
    BY <2>1 DEF BlobSet
  <2>7. blobs[k].source = RoundUp(n, cfg.align)
    BY <2>1 DEF BlobInv
  <2> HIDE DEF n, k
  <2>8. CASE Padded(n)
    <3>1. originalSize = n
      BY <2>5, <2>8 DEF PreparedOriginal, n
    <3>2. cfg \in Configs
      OBVIOUS
    <3> HIDE DEF LifeInv, LifeTypeOK, CallTypeOK, SizeTypeOK
    <3>3. RoundUp(n, cfg.align) \in Nat /\ RoundUp(n, cfg.align) >= n /\ RoundUp(n, cfg.align) # n
      BY <2>6, <2>8, <3>2, SizeFacts
    <3>4. RoundUp(n, cfg.align) > n
      BY <2>6, <3>3
    <3> QED
      BY <2>4, <2>6, <2>7, <3>1, <3>3, <3>4 DEF Trimmed, n
  <2>9. CASE ~Padded(n)
    <3>1. originalSize = 0 /\ blobs[k].source = n
      BY <2>5, <2>6, <2>7, <2>9, SizeFacts DEF PreparedOriginal, n
    <3> QED
      BY <2>4, <2>6, <3>1 DEF Trimmed, n
  <2> QED
    BY <2>8, <2>9 DEF n, k
<1> QED
  BY <1>1, LifecycleInvariant, PTL

\* A decompress() of the blob the pipeline's state is about runs on that blob's
\* sizes and parameters, unless a refused header or a capture mixed the latter.
THEOREM RoundTripRightCorrect == LifeSpec => []RoundTripRight
<1>1. LifeInv => RoundTripRight
  BY DEF LifeInv, ReturnInv, DecodedOwnBlob, RoundTripRight
<1> QED
  BY <1>1, LifecycleInvariant, PTL

\* A file with real sizes has payload, sizes and parameters of one compress().
THEOREM ArchivesCorrect == LifeSpec => []ArchiveConsistent
<1>1. LifeInv => ArchiveConsistent
  BY DEF LifeInv, ArchiveInv, ArchiveConsistent
<1> QED
  BY <1>1, LifecycleInvariant, PTL
=============================================================================
