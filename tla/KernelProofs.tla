---------------------------- MODULE KernelProofs ----------------------------
(***************************************************************************)
(* What the kernels that run in many thread blocks guarantee.              *)
(*                                                                         *)
(* The two single-pass kernels that find their offsets by looking back     *)
(* implement the exclusive scan.  First the decoupled look-back of ADM,    *)
(* for every number of thread blocks, warps a block, calls and signal      *)
(* lengths: the inductive invariant, the monotone slots, the refinement.   *)
(* Then the warp-wide look-back of the fused kernels, for every number of  *)
(* blocks, tiles, window lanes and launches and every block cost: each     *)
(* tile finds the sum of the costs before it, whatever mix of aggregates   *)
(* and prefixes its lanes saw.                                             *)
(*                                                                         *)
(* Then the quantizer, for every error bound, radius, code width, set of   *)
(* elements and configuration: the arithmetic of bins and codes, the slots *)
(* of the outlier list, and the properties of accepted and refused calls.  *)
(*                                                                         *)
(* Last ADM's signals: what a u16 call stores restores every value.        *)
(***************************************************************************)
EXTENDS AdmScan, LookBack, Quantizer, Adm, SumLemmas, SequenceTheorems

-----------------------------------------------------------------------------
(***************************************************************************)
(* ADM.                                                                    *)
(***************************************************************************)

\* The sums the host's layout promises, at the launch that runs.
LEMMA SumFacts ==
  ASSUME admLaunch \in Calls
  PROVE  /\ \A c \in 0..NumAdmBlocks : Start(c) \in Nat
         /\ Start(0) = 0
         /\ \A c \in AdmBlocks : Start(c+1) = Before[admLaunch][c][WarpsPerBlock]
         /\ \A c \in AdmBlocks, w \in 0..WarpsPerBlock : Before[admLaunch][c][w] \in Nat
         /\ \A c \in AdmBlocks, w \in Warps :
               /\ SignalLength[admLaunch][c][w] \in Nat
               /\ Before[admLaunch][c][w+1]
                     = Before[admLaunch][c][w] + SignalLength[admLaunch][c][w]
<1> USE AdmAssumption, BeforeAssumption DEF AdmBlocks, Warps
<1>1. Before[admLaunch] \in [0..NumAdmBlocks -> [0..WarpsPerBlock -> Nat]]
  OBVIOUS
<1>2. SignalLength[admLaunch] \in [AdmBlocks -> [Warps -> Nat]]
  OBVIOUS
<1>3. \A c \in 0..NumAdmBlocks : Start(c) \in Nat
  BY <1>1 DEF Start
<1>4. Start(0) = 0 /\ \A c \in AdmBlocks : Start(c+1) = Before[admLaunch][c][WarpsPerBlock]
  BY DEF Start
<1>5. \A c \in AdmBlocks, w \in 0..WarpsPerBlock : Before[admLaunch][c][w] \in Nat
  BY <1>1
<1>6. \A c \in AdmBlocks, w \in Warps : SignalLength[admLaunch][c][w] \in Nat
  BY <1>2
<1>7. \A c \in AdmBlocks, w \in Warps :
        Before[admLaunch][c][w+1] = Before[admLaunch][c][w] + SignalLength[admLaunch][c][w]
  OBVIOUS
<1> QED
  BY <1>3, <1>4, <1>5, <1>6, <1>7

\* The scan inside a block, kept by the steps that leave its variables alone.
LEMMA WarpSumsFrame ==
  ASSUME WarpSums, UNCHANGED <<admLaunch, warpIdx, running, warpExcl>>,
         \A c \in AdmBlocks : Summed(c)' <=> Summed(c)
  PROVE  WarpSums'
<1> SUFFICES ASSUME NEW c \in AdmBlocks
             PROVE  /\ warpIdx'[c] = WarpsPerBlock <=> Summed(c)'
                    /\ running'[c] + Start(c)' = Before[admLaunch'][c][warpIdx'[c]]
                    /\ \A w \in Warps : w < warpIdx'[c] =>
                          warpExcl'[c][w] + Start(c)' = Before[admLaunch'][c][w]
  BY Zenon DEF WarpSums
<1>1. Start(c)' = Start(c)
  BY DEF Start
<1> QED
  BY <1>1 DEF WarpSums

\* Offsets, kept by the steps before the last of a block.
LEMMA OffsetsFrame ==
  ASSUME OffsetsWritten, UNCHANGED <<admLaunch, cmpOffset>>,
         \A c \in AdmBlocks : admPc'[c] = "done" <=> admPc[c] = "done"
  PROVE  OffsetsWritten'
  BY DEF OffsetsWritten

LEMMA InitEstablishes == AdmInit => AdmInv
<1> SUFFICES ASSUME AdmInit PROVE AdmInv
  OBVIOUS
<1> USE AdmAssumption
<1>1. AdmTypeOK
  BY DEF AdmInit, AdmTypeOK, AdmBlocks, Warps, Calls, Pcs, Cleared, ClearedLocals, NoOffsets, None
<1>2. WarpSums
  <2> SUFFICES ASSUME NEW c \in AdmBlocks
               PROVE  /\ warpIdx[c] = WarpsPerBlock <=> Summed(c)
                      /\ running[c] + Start(c) = Before[admLaunch][c][warpIdx[c]]
                      /\ \A w \in Warps : w < warpIdx[c] =>
                            warpExcl[c][w] + Start(c) = Before[admLaunch][c][w]
    BY Zenon DEF WarpSums
  <2>1. warpIdx[c] = 0 /\ running[c] = 0 /\ ~Summed(c)
    BY DEF AdmInit, ClearedLocals, Summed
  <2>2. Start(c) \in Nat
    BY SumFacts, <1>1 DEF AdmTypeOK, AdmBlocks
  <2> QED
    BY <2>1, <2>2 DEF Start, Warps
<1>3. TotalsPublished
  BY DEF AdmInit, TotalsPublished, Totalled, Summed, Announced, AdmBlocks, Cleared
<1>4. ResolvedPublished
  BY DEF AdmInit, ResolvedPublished, AdmBlocks, Cleared
<1>5. LookBackSums
  BY DEF AdmInit, LookBackSums, Resolving, AdmBlocks
<1>6. OffsetsWritten
  BY DEF AdmInit, OffsetsWritten, NoOffsets, AdmBlocks
<1> QED
  BY <1>1, <1>2, <1>3, <1>4, <1>5, <1>6 DEF AdmInv

LEMMA DispatchBlockPreserves ==
  ASSUME AdmInv, NEW b \in AdmBlocks, DispatchBlock(b)
  PROVE  AdmInv'
<1>0. AdmTypeOK /\ WarpSums /\ TotalsPublished /\ ResolvedPublished /\ LookBackSums /\ OffsetsWritten
  BY DEF AdmInv
<1>1. AdmTypeOK'
  BY <1>0, AdmAssumption DEF DispatchBlock, AdmTypeOK, AdmBlocks, Warps, Calls, Pcs, None
<1>2. WarpSums'
  <2>1. \A c \in AdmBlocks : Summed(c)' <=> Summed(c)
    BY <1>0 DEF DispatchBlock, AdmTypeOK, Summed
  <2> QED
    BY <1>0, <2>1, WarpSumsFrame DEF DispatchBlock
<1>3. TotalsPublished'
  BY <1>0, <1>1 DEF DispatchBlock, AdmTypeOK, WarpSums, TotalsPublished, Start, Summed, Totalled, Announced, AdmBlocks, Warps, Calls, Pcs
<1>4. ResolvedPublished'
  BY <1>0, <1>1 DEF DispatchBlock, AdmTypeOK, ResolvedPublished, LookBackSums, TotalsPublished, Start, Summed, Totalled, Announced, Resolving, AdmBlocks, Warps, Calls, Pcs
<1>5. LookBackSums'
  BY <1>0, <1>1 DEF DispatchBlock, AdmTypeOK, ResolvedPublished, LookBackSums, TotalsPublished, Start, Summed, Totalled, Announced, Resolving, AdmBlocks, Warps, Calls, Pcs
<1>6. OffsetsWritten'
  BY <1>0, OffsetsFrame DEF DispatchBlock, AdmTypeOK
<1> QED
  BY <1>1, <1>2, <1>3, <1>4, <1>5, <1>6 DEF AdmInv

LEMMA PublishTotalPreserves ==
  ASSUME AdmInv, NEW b \in AdmBlocks, PublishTotal(b)
  PROVE  AdmInv'
<1>0. AdmTypeOK /\ WarpSums /\ TotalsPublished /\ ResolvedPublished /\ LookBackSums /\ OffsetsWritten
  BY DEF AdmInv
<1>1. AdmTypeOK'
  BY <1>0, AdmAssumption DEF PublishTotal, AdmTypeOK, AdmBlocks, Warps, Calls, Pcs, None
<1>2. WarpSums'
  <2>1. \A c \in AdmBlocks : Summed(c)' <=> Summed(c)
    BY <1>0 DEF PublishTotal, AdmTypeOK, Summed
  <2> QED
    BY <1>0, <2>1, WarpSumsFrame DEF PublishTotal
<1>3. TotalsPublished'
  <2> SUFFICES ASSUME NEW c \in AdmBlocks
               PROVE  /\ Totalled(c)' => locOffset'[c+1] + Start(c)' = Start(c+1)'
                      /\ prefixState'[c+1] # 0 => Announced(c)'
                      /\ admPc'[c] = "first" => c = 0
    BY Zenon DEF TotalsPublished
  <2>1. CASE c # b
    <3>1. admPc'[c] = admPc[c] /\ prefixState' = prefixState /\ admLaunch' = admLaunch
      BY <1>0, <2>1 DEF PublishTotal, AdmTypeOK
    <3>2. locOffset'[c+1] = locOffset[c+1]
      BY <1>0, <2>1, AdmAssumption DEF PublishTotal, AdmTypeOK, AdmBlocks
    <3>3. Start(c)' = Start(c) /\ Start(c+1)' = Start(c+1)
      BY <3>1 DEF Start
    <3>4. (Totalled(c)' <=> Totalled(c)) /\ (Announced(c)' <=> Announced(c))
      BY <3>1 DEF Totalled, Announced, Summed
    <3> QED
      BY <1>0, <3>1, <3>2, <3>3, <3>4 DEF TotalsPublished
  <2>2. CASE c = b
    <3>1. running[b] + Start(b) = Start(b+1)
      <4>1. warpIdx[b] = WarpsPerBlock
        BY <1>0 DEF PublishTotal, WarpSums, Summed
      <4> QED
        BY <1>0, <4>1, SumFacts DEF AdmTypeOK, WarpSums
    <3>2. locOffset'[b+1] = running[b]
      BY <1>0, AdmAssumption DEF PublishTotal, AdmTypeOK, AdmBlocks
    <3>3. Start(b)' = Start(b) /\ Start(b+1)' = Start(b+1)
      BY DEF PublishTotal, Start
    <3>4. prefixState'[b+1] = 0
      BY <1>0 DEF PublishTotal, AdmTypeOK, TotalsPublished, Announced, Totalled
    <3>5. admPc'[b] = "first" => b = 0
      BY <1>0 DEF PublishTotal, AdmTypeOK
    <3> QED
      BY <2>2, <3>1, <3>2, <3>3, <3>4, <3>5
  <2> QED
    BY <2>1, <2>2
<1>4. ResolvedPublished'
  BY <1>0, <1>1 DEF PublishTotal, AdmTypeOK, ResolvedPublished, LookBackSums, TotalsPublished, Start, Summed, Totalled, Announced, Resolving, AdmBlocks, Warps, Calls, Pcs
<1>5. LookBackSums'
  BY <1>0, <1>1 DEF PublishTotal, AdmTypeOK, ResolvedPublished, LookBackSums, TotalsPublished, Start, Summed, Totalled, Announced, Resolving, AdmBlocks, Warps, Calls, Pcs
<1>6. OffsetsWritten'
  BY <1>0, OffsetsFrame DEF PublishTotal, AdmTypeOK
<1> QED
  BY <1>1, <1>2, <1>3, <1>4, <1>5, <1>6 DEF AdmInv

LEMMA ResolveFirstPreserves ==
  ASSUME AdmInv, NEW b \in AdmBlocks, ResolveFirst(b)
  PROVE  AdmInv'
<1>0. AdmTypeOK /\ WarpSums /\ TotalsPublished /\ ResolvedPublished /\ LookBackSums /\ OffsetsWritten
  BY DEF AdmInv
<1>1. AdmTypeOK'
  <2>1. prefixState' \in [0..NumAdmBlocks -> 0..2]
    BY <1>0, AdmAssumption DEF ResolveFirst, AdmTypeOK, AdmBlocks, Warps, Pcs
  <2>2. admPc' \in [AdmBlocks -> Pcs]
    BY <1>0, AdmAssumption DEF ResolveFirst, AdmTypeOK, AdmBlocks, Warps, Pcs
  <2> QED
    BY <1>0, <2>1, <2>2 DEF ResolveFirst, AdmTypeOK
<1>2. WarpSums'
  <2>1. \A c \in AdmBlocks : Summed(c)' <=> Summed(c)
    BY <1>0 DEF ResolveFirst, AdmTypeOK, Summed
  <2> QED
    BY <1>0, <2>1, WarpSumsFrame DEF ResolveFirst
<1>3. TotalsPublished'
  BY <1>0, <1>1 DEF ResolveFirst, AdmTypeOK, WarpSums, TotalsPublished, Start, Summed, Totalled, Announced, AdmBlocks, Warps, Calls, Pcs
<1>4. ResolvedPublished'
  BY <1>0, <1>1 DEF ResolveFirst, AdmTypeOK, ResolvedPublished, LookBackSums, TotalsPublished, Start, Summed, Totalled, Announced, Resolving, AdmBlocks, Warps, Calls, Pcs
<1>5. LookBackSums'
  BY <1>0, <1>1 DEF ResolveFirst, AdmTypeOK, ResolvedPublished, LookBackSums, TotalsPublished, Start, Summed, Totalled, Announced, Resolving, AdmBlocks, Warps, Calls, Pcs
<1>6. OffsetsWritten'
  BY <1>0, OffsetsFrame DEF ResolveFirst, AdmTypeOK
<1> QED
  BY <1>1, <1>2, <1>3, <1>4, <1>5, <1>6 DEF AdmInv

LEMMA AnnounceTotalPreserves ==
  ASSUME AdmInv, NEW b \in AdmBlocks, AnnounceTotal(b)
  PROVE  AdmInv'
<1>0. AdmTypeOK /\ WarpSums /\ TotalsPublished /\ ResolvedPublished /\ LookBackSums /\ OffsetsWritten
  BY DEF AdmInv
<1>1. AdmTypeOK'
  <2>1. prefixState' \in [0..NumAdmBlocks -> 0..2]
    BY <1>0, AdmAssumption DEF AnnounceTotal, AdmTypeOK, AdmBlocks, Warps, Pcs
  <2>2. lookback' \in [AdmBlocks -> 0..NumAdmBlocks]
    <3>1. b \in 0..NumAdmBlocks
      BY AdmAssumption DEF AdmBlocks
    <3> QED
      BY <1>0, <3>1 DEF AnnounceTotal, AdmTypeOK
  <2>3. locExcl' \in [AdmBlocks -> Nat]
    BY <1>0, AdmAssumption DEF AnnounceTotal, AdmTypeOK, AdmBlocks, Warps, Pcs
  <2>4. admPc' \in [AdmBlocks -> Pcs]
    BY <1>0, AdmAssumption DEF AnnounceTotal, AdmTypeOK, AdmBlocks, Warps, Pcs
  <2> QED
    BY <1>0, <2>1, <2>2, <2>3, <2>4 DEF AnnounceTotal, AdmTypeOK
<1>2. WarpSums'
  <2>1. \A c \in AdmBlocks : Summed(c)' <=> Summed(c)
    BY <1>0 DEF AnnounceTotal, AdmTypeOK, Summed
  <2> QED
    BY <1>0, <2>1, WarpSumsFrame DEF AnnounceTotal
<1>3. TotalsPublished'
  BY <1>0, <1>1 DEF AnnounceTotal, AdmTypeOK, WarpSums, TotalsPublished, Start, Summed, Totalled, Announced, AdmBlocks, Warps, Calls, Pcs
<1>4. ResolvedPublished'
  BY <1>0, <1>1 DEF AnnounceTotal, AdmTypeOK, ResolvedPublished, LookBackSums, TotalsPublished, Start, Summed, Totalled, Announced, Resolving, AdmBlocks, Warps, Calls, Pcs
<1>5. LookBackSums'
  <2> SUFFICES ASSUME NEW c \in AdmBlocks
               PROVE  /\ admPc'[c] \in {"spin", "add"} =>
                           /\ lookback'[c] \in 1..c
                           /\ locExcl'[c] + Start(lookback[c])' = Start(c)'
                      /\ admPc'[c] = "add" =>
                           /\ status'[c] # 0
                           /\ prefixState'[lookback'[c]] # 0
                           /\ status'[c] = 2 => prefixState'[lookback'[c]] = 2
                      /\ admPc'[c] \in {"spin", "add"} /\ lookback'[c] < c => prefixState'[c] # 0
                      /\ admPc'[c] \in {"resolve", "flag"} => c # 0 /\ prefixState'[c] # 0
                      /\ Resolving(c)' => locExcl'[c] = Start(c)'
    BY Zenon DEF LookBackSums
  <2>0. admLaunch' = admLaunch /\ \A s \in 0..NumAdmBlocks : Start(s) \in Nat
    BY <1>0, SumFacts DEF AnnounceTotal, AdmTypeOK
  <2>1. CASE c # b
    <3>1. /\ admPc'[c] = admPc[c] /\ lookback'[c] = lookback[c]
          /\ locExcl'[c] = locExcl[c] /\ status'[c] = status[c]
      BY <1>0, <2>1 DEF AnnounceTotal, AdmTypeOK
    <3>2. prefixState[b+1] = 0
      BY <1>0 DEF AnnounceTotal, AdmTypeOK, TotalsPublished, Announced
    <3>3. \A s \in 0..NumAdmBlocks : prefixState[s] # 0 => prefixState'[s] = prefixState[s]
      BY <1>0, <3>2, AdmAssumption DEF AnnounceTotal, AdmTypeOK, AdmBlocks
    <3>4. c \in 0..NumAdmBlocks /\ lookback[c] \in 0..NumAdmBlocks
      <4>1. c \in 0..NumAdmBlocks
        BY AdmAssumption DEF AdmBlocks
      <4>2. lookback[c] \in 0..NumAdmBlocks
        BY <1>0 DEF AdmTypeOK
      <4> QED
        BY <4>1, <4>2
    <3>5. Start(c)' = Start(c) /\ Start(lookback[c])' = Start(lookback[c])
      BY <2>0, <3>1 DEF Start
    <3>6. Resolving(c)' <=> Resolving(c)
      BY <3>1 DEF Resolving
    <3> QED
      BY <1>0, <3>1, <3>3, <3>4, <3>5, <3>6 DEF LookBackSums
  <2>2. CASE c = b
    <3>1. /\ admPc'[b] = (IF b = 0 THEN "write" ELSE "spin")
          /\ lookback'[b] = b /\ locExcl'[b] = 0
      BY <1>0 DEF AnnounceTotal, AdmTypeOK
    <3>2. Start(0) = 0 /\ Start(b)' = Start(b) /\ Start(b) \in Nat
      <4>1. Start(0) = 0
        BY <1>0, SumFacts DEF AdmTypeOK
      <4>2. Start(b)' = Start(b)
        BY <2>0 DEF Start
      <4>3. Start(b) \in Nat
        BY <2>0, AdmAssumption DEF AdmBlocks
      <4> QED
        BY <4>1, <4>2, <4>3
    <3>3. Start(lookback[b])' = Start(b)
      BY <2>0, <3>1 DEF Start
    <3>4. CASE b = 0
      BY <2>2, <3>1, <3>2, <3>4 DEF Resolving
    <3>5. CASE b # 0
      BY <2>2, <3>1, <3>2, <3>3, <3>5, AdmAssumption DEF Resolving, AdmBlocks
    <3> QED
      BY <3>4, <3>5
  <2> QED
    BY <2>1, <2>2
<1>6. OffsetsWritten'
  BY <1>0, OffsetsFrame DEF AnnounceTotal, AdmTypeOK
<1> QED
  BY <1>1, <1>2, <1>3, <1>4, <1>5, <1>6 DEF AdmInv

LEMMA SpinPreserves ==
  ASSUME AdmInv, NEW b \in AdmBlocks, Spin(b)
  PROVE  AdmInv'
<1>0. AdmTypeOK /\ WarpSums /\ TotalsPublished /\ ResolvedPublished /\ LookBackSums /\ OffsetsWritten
  BY DEF AdmInv
<1>1. AdmTypeOK'
  BY <1>0, AdmAssumption DEF Spin, AdmTypeOK, AdmBlocks, Warps, Calls, Pcs, None
<1>2. WarpSums'
  <2>1. \A c \in AdmBlocks : Summed(c)' <=> Summed(c)
    BY <1>0 DEF Spin, AdmTypeOK, Summed
  <2> QED
    BY <1>0, <2>1, WarpSumsFrame DEF Spin
<1>3. TotalsPublished'
  BY <1>0, <1>1 DEF Spin, AdmTypeOK, WarpSums, TotalsPublished, Start, Summed, Totalled, Announced, AdmBlocks, Warps, Calls, Pcs
<1>4. ResolvedPublished'
  BY <1>0, <1>1 DEF Spin, AdmTypeOK, ResolvedPublished, LookBackSums, TotalsPublished, Start, Summed, Totalled, Announced, Resolving, AdmBlocks, Warps, Calls, Pcs
<1>5. LookBackSums'
  BY <1>0, <1>1 DEF Spin, AdmTypeOK, ResolvedPublished, LookBackSums, TotalsPublished, Start, Summed, Totalled, Announced, Resolving, AdmBlocks, Warps, Calls, Pcs
<1>6. OffsetsWritten'
  BY <1>0, OffsetsFrame DEF Spin, AdmTypeOK
<1> QED
  BY <1>1, <1>2, <1>3, <1>4, <1>5, <1>6 DEF AdmInv

LEMMA AddResolvedPreserves ==
  ASSUME AdmInv, NEW b \in AdmBlocks, AddResolved(b)
  PROVE  AdmInv'
<1>0. AdmTypeOK /\ WarpSums /\ TotalsPublished /\ ResolvedPublished /\ LookBackSums /\ OffsetsWritten
  BY DEF AdmInv
<1>1. AdmTypeOK'
  <2>1. locExcl' \in [AdmBlocks -> Nat]
    <3>1. lookback[b] \in 0..NumAdmBlocks /\ locExcl[b] \in Nat
      BY <1>0 DEF AdmTypeOK
    <3>2. locExcl[b] + blockResolved[lookback[b]] \in Nat
      BY <1>0, <3>1 DEF AdmTypeOK
    <3> QED
      BY <1>0, <3>2 DEF AddResolved, AdmTypeOK
  <2>2. admPc' \in [AdmBlocks -> Pcs]
    BY <1>0, AdmAssumption DEF AddResolved, AdmTypeOK, LookBackSums, AdmBlocks, Warps, Pcs
  <2> QED
    BY <1>0, <2>1, <2>2 DEF AddResolved, AdmTypeOK
<1>2. WarpSums'
  <2>1. \A c \in AdmBlocks : Summed(c)' <=> Summed(c)
    BY <1>0 DEF AddResolved, AdmTypeOK, Summed
  <2> QED
    BY <1>0, <2>1, WarpSumsFrame DEF AddResolved
<1>3. TotalsPublished'
  BY <1>0, <1>1 DEF AddResolved, AdmTypeOK, WarpSums, TotalsPublished, Start, Summed, Totalled, Announced, AdmBlocks, Warps, Calls, Pcs
<1>4. ResolvedPublished'
  BY <1>0, <1>1 DEF AddResolved, AdmTypeOK, ResolvedPublished, LookBackSums, TotalsPublished, Start, Summed, Totalled, Announced, Resolving, AdmBlocks, Warps, Calls, Pcs
<1>5. LookBackSums'
  <2> SUFFICES ASSUME NEW c \in AdmBlocks
               PROVE  /\ admPc'[c] \in {"spin", "add"} =>
                           /\ lookback'[c] \in 1..c
                           /\ locExcl'[c] + Start(lookback[c])' = Start(c)'
                      /\ admPc'[c] = "add" =>
                           /\ status'[c] # 0
                           /\ prefixState'[lookback'[c]] # 0
                           /\ status'[c] = 2 => prefixState'[lookback'[c]] = 2
                      /\ admPc'[c] \in {"spin", "add"} /\ lookback'[c] < c => prefixState'[c] # 0
                      /\ admPc'[c] \in {"resolve", "flag"} => c # 0 /\ prefixState'[c] # 0
                      /\ Resolving(c)' => locExcl'[c] = Start(c)'
    BY Zenon DEF LookBackSums
  <2>0. admLaunch' = admLaunch /\ \A s \in 0..NumAdmBlocks : Start(s) \in Nat
    BY <1>0, SumFacts DEF AddResolved, AdmTypeOK
  <2>1. CASE c # b
    <3>1. /\ admPc'[c] = admPc[c] /\ lookback'[c] = lookback[c]
          /\ locExcl'[c] = locExcl[c] /\ status'[c] = status[c] /\ prefixState' = prefixState
      BY <1>0, <2>1 DEF AddResolved, AdmTypeOK
    <3>2. Resolving(c)' <=> Resolving(c)
      BY <3>1 DEF Resolving
    <3>3. Start(c)' = Start(c) /\ Start(lookback[c])' = Start(lookback[c])
      BY <2>0, <3>1 DEF Start
    <3> QED
      BY <1>0, <3>1, <3>2, <3>3 DEF LookBackSums
  <2>2. CASE c = b
    <3>1. /\ lookback[b] \in 1..b /\ locExcl[b] + Start(lookback[b]) = Start(b)
          /\ prefixState[lookback[b]] = 2
      BY <1>0 DEF AddResolved, LookBackSums
    <3>2. lookback[b] \in AdmBlocks /\ lookback[b] # 0
      BY <3>1, AdmAssumption DEF AdmBlocks
    <3>3. blockResolved[lookback[b]] = Start(lookback[b])
      BY <1>0, <3>1, <3>2 DEF ResolvedPublished
    <3>4. admPc'[b] = "resolve" /\ locExcl'[b] = Start(b)
      BY <1>0, <3>1, <3>3 DEF AddResolved, AdmTypeOK
    <3>5. Start(b)' = Start(b) /\ prefixState' = prefixState
      BY <2>0 DEF AddResolved, Start
    <3>6. prefixState[b] # 0 /\ b # 0
      BY <1>0, <3>1, AdmAssumption DEF AddResolved, LookBackSums, AdmBlocks
    <3> QED
      BY <2>2, <3>4, <3>5, <3>6
  <2> QED
    BY <2>1, <2>2
<1>6. OffsetsWritten'
  BY <1>0, OffsetsFrame DEF AddResolved, AdmTypeOK
<1> QED
  BY <1>1, <1>2, <1>3, <1>4, <1>5, <1>6 DEF AdmInv

LEMMA AddTotalPreserves ==
  ASSUME AdmInv, NEW b \in AdmBlocks, AddTotal(b)
  PROVE  AdmInv'
<1>0. AdmTypeOK /\ WarpSums /\ TotalsPublished /\ ResolvedPublished /\ LookBackSums /\ OffsetsWritten
  BY DEF AdmInv
<1>1. AdmTypeOK'
  <2>1. locExcl' \in [AdmBlocks -> Nat]
    <3>1. lookback[b] \in 0..NumAdmBlocks /\ locExcl[b] \in Nat
      BY <1>0 DEF AdmTypeOK
    <3>2. locExcl[b] + locOffset[lookback[b]] \in Nat
      BY <1>0, <3>1 DEF AdmTypeOK
    <3> QED
      BY <1>0, <3>2 DEF AddTotal, AdmTypeOK
  <2>2. lookback' \in [AdmBlocks -> 0..NumAdmBlocks]
    <3>1. lookback[b] \in 1..b
      BY <1>0 DEF AddTotal, LookBackSums
    <3>2. lookback[b] - 1 \in 0..NumAdmBlocks
      BY <3>1, AdmAssumption DEF AdmBlocks
    <3> QED
      BY <1>0, <3>2 DEF AddTotal, AdmTypeOK
  <2>3. admPc' \in [AdmBlocks -> Pcs]
    BY <1>0, AdmAssumption DEF AddTotal, AdmTypeOK, LookBackSums, AdmBlocks, Warps, Pcs
  <2> QED
    BY <1>0, <2>1, <2>2, <2>3 DEF AddTotal, AdmTypeOK
<1>2. WarpSums'
  <2>1. \A c \in AdmBlocks : Summed(c)' <=> Summed(c)
    BY <1>0 DEF AddTotal, AdmTypeOK, Summed
  <2> QED
    BY <1>0, <2>1, WarpSumsFrame DEF AddTotal
<1>3. TotalsPublished'
  BY <1>0, <1>1 DEF AddTotal, AdmTypeOK, WarpSums, TotalsPublished, Start, Summed, Totalled, Announced, AdmBlocks, Warps, Calls, Pcs
<1>4. ResolvedPublished'
  BY <1>0, <1>1 DEF AddTotal, AdmTypeOK, ResolvedPublished, LookBackSums, TotalsPublished, Start, Summed, Totalled, Announced, Resolving, AdmBlocks, Warps, Calls, Pcs
<1>5. LookBackSums'
  <2> SUFFICES ASSUME NEW c \in AdmBlocks
               PROVE  /\ admPc'[c] \in {"spin", "add"} =>
                           /\ lookback'[c] \in 1..c
                           /\ locExcl'[c] + Start(lookback[c])' = Start(c)'
                      /\ admPc'[c] = "add" =>
                           /\ status'[c] # 0
                           /\ prefixState'[lookback'[c]] # 0
                           /\ status'[c] = 2 => prefixState'[lookback'[c]] = 2
                      /\ admPc'[c] \in {"spin", "add"} /\ lookback'[c] < c => prefixState'[c] # 0
                      /\ admPc'[c] \in {"resolve", "flag"} => c # 0 /\ prefixState'[c] # 0
                      /\ Resolving(c)' => locExcl'[c] = Start(c)'
    BY Zenon DEF LookBackSums
  <2>0. admLaunch' = admLaunch /\ \A s \in 0..NumAdmBlocks : Start(s) \in Nat
    BY <1>0, SumFacts DEF AddTotal, AdmTypeOK
  <2>1. CASE c # b
    <3>1. /\ admPc'[c] = admPc[c] /\ lookback'[c] = lookback[c]
          /\ locExcl'[c] = locExcl[c] /\ status'[c] = status[c] /\ prefixState' = prefixState
      BY <1>0, <2>1 DEF AddTotal, AdmTypeOK
    <3>2. Resolving(c)' <=> Resolving(c)
      BY <3>1 DEF Resolving
    <3>3. Start(c)' = Start(c) /\ Start(lookback[c])' = Start(lookback[c])
      BY <2>0, <3>1 DEF Start
    <3> QED
      BY <1>0, <3>1, <3>2, <3>3 DEF LookBackSums
  <2>2. CASE c = b
    <3> DEFINE k == lookback[b]
    <3>1. k \in 1..b /\ locExcl[b] + Start(k) = Start(b) /\ prefixState[k] # 0
      BY <1>0 DEF AddTotal, LookBackSums
    <3>2. k - 1 \in AdmBlocks /\ (k - 1) + 1 = k
      BY <3>1, AdmAssumption DEF AdmBlocks
    <3>3. locOffset[k] + Start(k - 1) = Start(k)
      BY <1>0, <3>1, <3>2 DEF TotalsPublished, Announced
    <3>4. /\ locExcl'[b] = locExcl[b] + locOffset[k] /\ lookback'[b] = k - 1
          /\ admPc'[b] = (IF k > 1 THEN "spin" ELSE "resolve")
      BY <1>0 DEF AddTotal, AdmTypeOK
    <3>5. Start(k - 1) \in Nat /\ Start(k) \in Nat
      BY <2>0, <3>1, <3>2, AdmAssumption DEF AdmBlocks
    <3>6. locExcl[b] \in Nat /\ locOffset[k] \in Nat
      BY <1>0, <3>1, AdmAssumption DEF AdmTypeOK, AdmBlocks
    <3>7. locExcl'[b] + Start(k - 1) = Start(b)
      BY <3>1, <3>3, <3>4, <3>5, <3>6
    <3>8. Start(0) = 0
      BY <1>0, SumFacts DEF AdmTypeOK
    <3>9. Start(b)' = Start(b) /\ Start(lookback[b])' = Start(k - 1) /\ prefixState' = prefixState
      BY <2>0, <3>4 DEF AddTotal, Start
    <3>10. prefixState[b] # 0 /\ b # 0 /\ b \in Nat
      BY <1>0, <3>1, AdmAssumption DEF AddTotal, LookBackSums, AdmBlocks
    <3>11. CASE k > 1
      <4>1. k - 1 \in 1..b /\ admPc'[b] = "spin"
        BY <3>1, <3>4, <3>10, <3>11
      <4> QED
        BY <2>2, <3>4, <3>7, <3>9, <3>10, <4>1 DEF Resolving
    <3>12. CASE k = 1
      <4>1. locExcl'[b] = Start(b) /\ admPc'[b] = "resolve"
        BY <3>4, <3>6, <3>7, <3>8, <3>12
      <4> QED
        BY <2>2, <3>9, <3>10, <4>1
    <3> QED
      BY <3>1, <3>10, <3>11, <3>12
  <2> QED
    BY <2>1, <2>2
<1>6. OffsetsWritten'
  BY <1>0, OffsetsFrame DEF AddTotal, AdmTypeOK
<1> QED
  BY <1>1, <1>2, <1>3, <1>4, <1>5, <1>6 DEF AdmInv

LEMMA PublishResolvedPreserves ==
  ASSUME AdmInv, NEW b \in AdmBlocks, PublishResolved(b)
  PROVE  AdmInv'
<1>0. AdmTypeOK /\ WarpSums /\ TotalsPublished /\ ResolvedPublished /\ LookBackSums /\ OffsetsWritten
  BY DEF AdmInv
<1>1. AdmTypeOK'
  BY <1>0, AdmAssumption DEF PublishResolved, AdmTypeOK, AdmBlocks, Warps, Calls, Pcs, None
<1>2. WarpSums'
  <2>1. \A c \in AdmBlocks : Summed(c)' <=> Summed(c)
    BY <1>0 DEF PublishResolved, AdmTypeOK, Summed
  <2> QED
    BY <1>0, <2>1, WarpSumsFrame DEF PublishResolved
<1>3. TotalsPublished'
  BY <1>0, <1>1 DEF PublishResolved, AdmTypeOK, WarpSums, TotalsPublished, Start, Summed, Totalled, Announced, AdmBlocks, Warps, Calls, Pcs
<1>4. ResolvedPublished'
  BY <1>0, <1>1 DEF PublishResolved, AdmTypeOK, ResolvedPublished, LookBackSums, TotalsPublished, Start, Summed, Totalled, Announced, Resolving, AdmBlocks, Warps, Calls, Pcs
<1>5. LookBackSums'
  BY <1>0, <1>1 DEF PublishResolved, AdmTypeOK, ResolvedPublished, LookBackSums, TotalsPublished, Start, Summed, Totalled, Announced, Resolving, AdmBlocks, Warps, Calls, Pcs
<1>6. OffsetsWritten'
  BY <1>0, OffsetsFrame DEF PublishResolved, AdmTypeOK
<1> QED
  BY <1>1, <1>2, <1>3, <1>4, <1>5, <1>6 DEF AdmInv

LEMMA AnnounceResolvedPreserves ==
  ASSUME AdmInv, NEW b \in AdmBlocks, AnnounceResolved(b)
  PROVE  AdmInv'
<1>0. AdmTypeOK /\ WarpSums /\ TotalsPublished /\ ResolvedPublished /\ LookBackSums /\ OffsetsWritten
  BY DEF AdmInv
<1>1. AdmTypeOK'
  <2>1. prefixState' \in [0..NumAdmBlocks -> 0..2]
    BY <1>0, AdmAssumption DEF AnnounceResolved, AdmTypeOK, AdmBlocks, Warps, Pcs
  <2>2. admPc' \in [AdmBlocks -> Pcs]
    BY <1>0, AdmAssumption DEF AnnounceResolved, AdmTypeOK, AdmBlocks, Warps, Pcs
  <2> QED
    BY <1>0, <2>1, <2>2 DEF AnnounceResolved, AdmTypeOK
<1>2. WarpSums'
  <2>1. \A c \in AdmBlocks : Summed(c)' <=> Summed(c)
    BY <1>0 DEF AnnounceResolved, AdmTypeOK, Summed
  <2> QED
    BY <1>0, <2>1, WarpSumsFrame DEF AnnounceResolved
<1>3. TotalsPublished'
  <2> SUFFICES ASSUME NEW c \in AdmBlocks
               PROVE  /\ Totalled(c)' => locOffset'[c+1] + Start(c)' = Start(c+1)'
                      /\ prefixState'[c+1] # 0 => Announced(c)'
                      /\ admPc'[c] = "first" => c = 0
    BY Zenon DEF TotalsPublished
  <2>1. b # 0 /\ prefixState[b] # 0
    BY <1>0 DEF AnnounceResolved, LookBackSums
  <2>2. \A s \in 0..NumAdmBlocks : prefixState'[s] # 0 => prefixState[s] # 0
    BY <1>0, <2>1, AdmAssumption DEF AnnounceResolved, AdmTypeOK, AdmBlocks
  <2>3. /\ locOffset' = locOffset
        /\ Start(c)' = Start(c) /\ Start(c+1)' = Start(c+1) /\ c + 1 \in 0..NumAdmBlocks
    BY AdmAssumption DEF AnnounceResolved, Start, AdmBlocks
  <2>4. /\ Totalled(c)' <=> Totalled(c)
        /\ Announced(c)' <=> Announced(c)
        /\ admPc'[c] = "first" => admPc[c] = "first"
    BY <1>0 DEF AnnounceResolved, AdmTypeOK, Totalled, Announced, Summed
  <2> QED
    BY <1>0, <2>2, <2>3, <2>4 DEF TotalsPublished
<1>4. ResolvedPublished'
  BY <1>0, <1>1 DEF AnnounceResolved, AdmTypeOK, ResolvedPublished, LookBackSums, TotalsPublished, Start, Summed, Totalled, Announced, Resolving, AdmBlocks, Warps, Calls, Pcs
<1>5. LookBackSums'
  BY <1>0, <1>1 DEF AnnounceResolved, AdmTypeOK, ResolvedPublished, LookBackSums, TotalsPublished, Start, Summed, Totalled, Announced, Resolving, AdmBlocks, Warps, Calls, Pcs
<1>6. OffsetsWritten'
  BY <1>0, OffsetsFrame DEF AnnounceResolved, AdmTypeOK
<1> QED
  BY <1>1, <1>2, <1>3, <1>4, <1>5, <1>6 DEF AdmInv

LEMMA WriteOffsetsPreserves ==
  ASSUME AdmInv, NEW b \in AdmBlocks, WriteOffsets(b)
  PROVE  AdmInv'
<1>0. AdmTypeOK /\ WarpSums /\ TotalsPublished /\ ResolvedPublished /\ LookBackSums /\ OffsetsWritten
  BY DEF AdmInv
<1>1. AdmTypeOK'
  <2>1. cmpOffset' \in [AdmBlocks -> [Warps -> Nat \cup {None}]]
    <3>1. \A w \in Warps : locExcl[b] + warpExcl[b][w] \in Nat
      BY <1>0 DEF AdmTypeOK
    <3>2. [w \in Warps |-> locExcl[b] + warpExcl[b][w]] \in [Warps -> Nat \cup {None}]
      BY <3>1
    <3> QED
      BY <1>0, <3>2 DEF WriteOffsets, AdmTypeOK
  <2>2. admPc' \in [AdmBlocks -> Pcs]
    BY <1>0, AdmAssumption DEF WriteOffsets, AdmTypeOK, AdmBlocks, Warps, Pcs
  <2> QED
    BY <1>0, <2>1, <2>2 DEF WriteOffsets, AdmTypeOK
<1>2. WarpSums'
  <2>1. \A c \in AdmBlocks : Summed(c)' <=> Summed(c)
    BY <1>0 DEF WriteOffsets, AdmTypeOK, Summed
  <2> QED
    BY <1>0, <2>1, WarpSumsFrame DEF WriteOffsets
<1>3. TotalsPublished'
  BY <1>0, <1>1 DEF WriteOffsets, AdmTypeOK, WarpSums, TotalsPublished, Start, Summed, Totalled, Announced, AdmBlocks, Warps, Calls, Pcs
<1>4. ResolvedPublished'
  BY <1>0, <1>1 DEF WriteOffsets, AdmTypeOK, ResolvedPublished, LookBackSums, TotalsPublished, Start, Summed, Totalled, Announced, Resolving, AdmBlocks, Warps, Calls, Pcs
<1>5. LookBackSums'
  BY <1>0, <1>1 DEF WriteOffsets, AdmTypeOK, ResolvedPublished, LookBackSums, TotalsPublished, Start, Summed, Totalled, Announced, Resolving, AdmBlocks, Warps, Calls, Pcs
<1>6. OffsetsWritten'
  <2> SUFFICES ASSUME NEW c \in AdmBlocks, NEW w \in Warps
               PROVE  cmpOffset'[c][w] = IF admPc'[c] = "done" THEN Before[admLaunch'][c][w] ELSE None
    BY Zenon DEF OffsetsWritten
  <2>1. CASE c # b
    BY <1>0, <2>1 DEF WriteOffsets, AdmTypeOK, OffsetsWritten
  <2>2. CASE c = b
    <3>1. warpIdx[b] = WarpsPerBlock /\ w < WarpsPerBlock
      BY SMTT(60), <1>0, AdmAssumption DEF WriteOffsets, WarpSums, Summed, Warps
    <3>2. warpExcl[b][w] + Start(b) = Before[admLaunch][b][w]
      BY <1>0, <3>1 DEF WarpSums
    <3>3. locExcl[b] = Start(b)
      BY <1>0 DEF WriteOffsets, LookBackSums, Resolving
    <3>4. cmpOffset'[b][w] = locExcl[b] + warpExcl[b][w] /\ admPc'[b] = "done" /\ admLaunch' = admLaunch
      BY <1>0 DEF WriteOffsets, AdmTypeOK
    <3>5. locExcl[b] \in Nat /\ warpExcl[b][w] \in Nat
      BY <1>0 DEF AdmTypeOK
    <3> QED
      BY <2>2, <3>2, <3>3, <3>4, <3>5
  <2> QED
    BY <2>1, <2>2
<1> QED
  BY <1>1, <1>2, <1>3, <1>4, <1>5, <1>6 DEF AdmInv

LEMMA ScanWarpPreserves ==
  ASSUME AdmInv, NEW b \in AdmBlocks, ScanWarp(b)
  PROVE  AdmInv'
<1>0. AdmTypeOK /\ WarpSums /\ TotalsPublished /\ ResolvedPublished /\ LookBackSums /\ OffsetsWritten
  BY DEF AdmInv
<1> DEFINE k == warpIdx[b]
<1>a. k \in Warps /\ k \in Nat /\ running[b] \in Nat /\ admLaunch \in Calls
  BY <1>0, AdmAssumption DEF ScanWarp, AdmTypeOK, WarpSums, Summed, Warps
<1>b. SignalLength[admLaunch][b][k] \in Nat
  BY <1>a, SumFacts
<1>1. AdmTypeOK'
  <2>1. running' \in [AdmBlocks -> Nat]
    <3>1. running[b] + SignalLength[admLaunch][b][k] \in Nat
      BY <1>a, <1>b
    <3> QED
      BY <1>0, <3>1 DEF ScanWarp, AdmTypeOK
  <2>2. warpIdx' \in [AdmBlocks -> 0..WarpsPerBlock]
    <3>1. k + 1 \in 0..WarpsPerBlock
      BY <1>a, AdmAssumption DEF Warps
    <3> QED
      BY <1>0, <3>1 DEF ScanWarp, AdmTypeOK
  <2>3. warpExcl' \in [AdmBlocks -> [Warps -> Nat]]
    BY <1>0, <1>a DEF ScanWarp, AdmTypeOK
  <2>4. admPc' \in [AdmBlocks -> Pcs]
    BY <1>0 DEF ScanWarp, AdmTypeOK, Pcs
  <2> QED
    BY <1>0, <2>1, <2>2, <2>3, <2>4 DEF ScanWarp, AdmTypeOK
<1>2. WarpSums'
  <2> SUFFICES ASSUME NEW c \in AdmBlocks
               PROVE  /\ warpIdx'[c] = WarpsPerBlock <=> Summed(c)'
                      /\ running'[c] + Start(c)' = Before[admLaunch'][c][warpIdx'[c]]
                      /\ \A w \in Warps : w < warpIdx'[c] =>
                            warpExcl'[c][w] + Start(c)' = Before[admLaunch'][c][w]
    BY Zenon DEF WarpSums
  <2>0. Start(c)' = Start(c) /\ admLaunch' = admLaunch
    BY DEF ScanWarp, Start
  <2>1. CASE c # b
    <3>1. /\ warpIdx'[c] = warpIdx[c] /\ running'[c] = running[c]
          /\ warpExcl'[c] = warpExcl[c] /\ admPc'[c] = admPc[c]
      BY <1>0, <2>1 DEF ScanWarp, AdmTypeOK
    <3>2. Summed(c)' <=> Summed(c)
      BY <3>1 DEF Summed
    <3> QED
      BY <1>0, <2>0, <3>1, <3>2 DEF WarpSums
  <2>2. CASE c = b
    <3>1. /\ warpIdx'[b] = k + 1 /\ running'[b] = running[b] + SignalLength[admLaunch][b][k]
          /\ \A w \in Warps : warpExcl'[b][w] = IF w = k THEN running[b] ELSE warpExcl[b][w]
      BY <1>0, <1>a DEF ScanWarp, AdmTypeOK
    <3>2. warpIdx'[b] = WarpsPerBlock <=> Summed(b)'
      BY <1>0, <1>a, <3>1 DEF ScanWarp, AdmTypeOK, Summed
    <3>3. running[b] + Start(b) = Before[admLaunch][b][k]
      BY <1>0 DEF WarpSums
    <3>4. Start(b) \in Nat
      BY <1>a, SumFacts, AdmAssumption DEF AdmBlocks
    <3>5. Before[admLaunch][b][k+1] = Before[admLaunch][b][k] + SignalLength[admLaunch][b][k]
      BY <1>a, SumFacts
    <3>6. running'[b] + Start(b) = Before[admLaunch][b][k+1]
      BY <1>a, <1>b, <3>1, <3>3, <3>4, <3>5
    <3>7. ASSUME NEW w \in Warps, w < k + 1
          PROVE  warpExcl'[b][w] + Start(b) = Before[admLaunch][b][w]
      <4>1. CASE w = k
        BY <3>1, <3>3, <4>1
      <4>2. CASE w # k
        <5>1. w < k
          BY <1>a, <3>7, <4>2, AdmAssumption DEF Warps
        <5> QED
          BY <1>0, <3>1, <4>2, <5>1 DEF WarpSums
      <4> QED
        BY <4>1, <4>2
    <3> QED
      BY <2>0, <2>2, <3>1, <3>2, <3>6, <3>7
  <2> QED
    BY <2>1, <2>2
<1>3. TotalsPublished'
  <2> SUFFICES ASSUME NEW c \in AdmBlocks
               PROVE  /\ Totalled(c)' => locOffset'[c+1] + Start(c)' = Start(c+1)'
                      /\ prefixState'[c+1] # 0 => Announced(c)'
                      /\ admPc'[c] = "first" => c = 0
    BY Zenon DEF TotalsPublished
  <2>1. /\ Totalled(c)' <=> Totalled(c)
        /\ Announced(c)' <=> Announced(c)
        /\ admPc'[c] = "first" => admPc[c] = "first"
    BY <1>0 DEF ScanWarp, AdmTypeOK, Totalled, Announced, Summed
  <2>2. Start(c)' = Start(c) /\ Start(c+1)' = Start(c+1)
    BY DEF ScanWarp, Start
  <2> QED
    BY <1>0, <2>1, <2>2 DEF TotalsPublished, ScanWarp
<1>4. ResolvedPublished'
  BY <1>0 DEF ScanWarp, AdmTypeOK, ResolvedPublished, Start
<1>5. LookBackSums'
  BY <1>0 DEF ScanWarp, AdmTypeOK, LookBackSums, Resolving, Start
<1>6. OffsetsWritten'
  BY <1>0, OffsetsFrame DEF ScanWarp, AdmTypeOK
<1> QED
  BY <1>1, <1>2, <1>3, <1>4, <1>5, <1>6 DEF AdmInv

LEMMA NextCallPreserves ==
  ASSUME AdmInv, NextCall
  PROVE  AdmInv'
<1>0. AdmTypeOK
  BY DEF AdmInv
<1>1. AdmTypeOK'
  <2>1. admLaunch' \in Calls
    BY <1>0, AdmAssumption DEF NextCall, AdmTypeOK, Calls
  <2>2. /\ locOffset' \in [0..NumAdmBlocks -> Nat]
        /\ prefixState' \in [0..NumAdmBlocks -> 0..2]
        /\ blockResolved' \in [0..NumAdmBlocks -> Nat]
    BY DEF NextCall, Cleared
  <2>3. /\ admPc' \in [AdmBlocks -> Pcs]
        /\ warpIdx' \in [AdmBlocks -> 0..WarpsPerBlock]
        /\ running' \in [AdmBlocks -> Nat]
    BY AdmAssumption DEF NextCall, ClearedLocals, Pcs
  <2>4. cmpOffset' \in [AdmBlocks -> [Warps -> Nat \cup {None}]]
    BY DEF NextCall, NoOffsets
  <2> QED
    BY <1>0, <2>1, <2>2, <2>3, <2>4 DEF NextCall, AdmTypeOK
<1>2. WarpSums'
  <2> SUFFICES ASSUME NEW c \in AdmBlocks
               PROVE  /\ warpIdx'[c] = WarpsPerBlock <=> Summed(c)'
                      /\ running'[c] + Start(c)' = Before[admLaunch'][c][warpIdx'[c]]
                      /\ \A w \in Warps : w < warpIdx'[c] =>
                            warpExcl'[c][w] + Start(c)' = Before[admLaunch'][c][w]
    BY Zenon DEF WarpSums
  <2>1. warpIdx'[c] = 0 /\ running'[c] = 0 /\ ~Summed(c)'
    BY DEF NextCall, ClearedLocals, Summed
  <2>2. Start(c)' = Before[admLaunch'][c][0] /\ Before[admLaunch'][c][0] \in Nat
    <3>1. c \in 0..NumAdmBlocks /\ 0 \in 0..WarpsPerBlock /\ admLaunch' \in Calls
      BY <1>1, AdmAssumption DEF AdmTypeOK, AdmBlocks
    <3>2. Before[admLaunch'] \in [0..NumAdmBlocks -> [0..WarpsPerBlock -> Nat]]
      BY Zenon, <3>1, BeforeAssumption
    <3>3. Before[admLaunch'][c][0] \in Nat
      BY <3>1, <3>2
    <3> QED
      BY <3>3 DEF Start
  <2> QED
    BY <2>1, <2>2, AdmAssumption DEF Warps
<1>3. TotalsPublished'
  BY AdmAssumption DEF NextCall, TotalsPublished, Totalled, Summed, Announced, AdmBlocks, Cleared
<1>4. ResolvedPublished'
  BY AdmAssumption DEF NextCall, ResolvedPublished, AdmBlocks, Cleared
<1>5. LookBackSums'
  BY DEF NextCall, LookBackSums, Resolving
<1>6. OffsetsWritten'
  BY DEF NextCall, OffsetsWritten, NoOffsets
<1> QED
  BY <1>1, <1>2, <1>3, <1>4, <1>5, <1>6 DEF AdmInv

LEMMA BlockStepPreserves ==
  ASSUME AdmInv, NEW b \in AdmBlocks, BlockStep(b)
  PROVE  AdmInv'
  BY DispatchBlockPreserves, ScanWarpPreserves, PublishTotalPreserves, ResolveFirstPreserves,
     AnnounceTotalPreserves, SpinPreserves, AddResolvedPreserves, AddTotalPreserves,
     PublishResolvedPreserves, AnnounceResolvedPreserves, WriteOffsetsPreserves
  DEF BlockStep

LEMMA StutterPreserves ==
  ASSUME AdmInv, UNCHANGED admVars
  PROVE  AdmInv'
<1> USE DEF admVars
<1>1. AdmTypeOK' /\ WarpSums'
  BY DEF AdmInv, AdmTypeOK, WarpSums, Summed, Start
<1>2. TotalsPublished' /\ ResolvedPublished'
  BY DEF AdmInv, TotalsPublished, ResolvedPublished, Totalled, Announced, Summed, Start
<1>3. LookBackSums' /\ OffsetsWritten'
  BY DEF AdmInv, LookBackSums, OffsetsWritten, Resolving, Start
<1> QED
  BY <1>1, <1>2, <1>3 DEF AdmInv

(* The look-back invariant: every published total and offset is right before *)
(* it is announced, what a leader has summed always accounts for the blocks  *)
(* it walked past, and every written offset is the exclusive sum.            *)
THEOREM AdmInvariant == AdmSpec => []AdmInv
<1>1. AdmInv /\ [AdmNext]_admVars => AdmInv'
  BY NextCallPreserves, BlockStepPreserves, StutterPreserves DEF AdmNext
<1> QED
  BY InitEstablishes, <1>1, PTL DEF AdmSpec

\* The two steps that announce a state raise the slot they write.
LEMMA StepsAdvance ==
  ASSUME AdmInv, [AdmNext]_admVars, admLaunch' = admLaunch, NEW s \in 0..NumAdmBlocks
  PROVE  prefixState'[s] >= prefixState[s]
<1>0. AdmTypeOK /\ TotalsPublished /\ prefixState[s] \in 0..2
  BY DEF AdmInv, AdmTypeOK
<1>1. ASSUME prefixState' # prefixState
      PROVE  prefixState'[s] >= prefixState[s]
  <2>1. PICK b \in AdmBlocks : ResolveFirst(b) \/ AnnounceTotal(b) \/ AnnounceResolved(b)
    <3>1. ~NextCall
      BY <1>0, AdmAssumption DEF NextCall, AdmTypeOK, Calls
    <3> QED
      BY <1>1, <3>1 DEF AdmNext, BlockStep, admVars, DispatchBlock, ScanWarp, PublishTotal,
         Spin, AddResolved, AddTotal, PublishResolved, WriteOffsets
  <2>2. CASE ResolveFirst(b)
    BY <1>0, <2>2 DEF ResolveFirst, AdmTypeOK
  <2>3. CASE AnnounceTotal(b)
    <3>1. prefixState[b+1] = 0
      BY <1>0, <2>3 DEF AnnounceTotal, AdmTypeOK, TotalsPublished, Announced
    <3> QED
      BY <1>0, <2>3, <3>1 DEF AnnounceTotal, AdmTypeOK
  <2>4. CASE AnnounceResolved(b)
    BY <1>0, <2>4 DEF AnnounceResolved, AdmTypeOK
  <2> QED
    BY <2>1, <2>2, <2>3, <2>4
<1> QED
  BY <1>0, <1>1

(* A slot of prefix_state, written by two thread blocks without a lock, never*)
(* goes back within a call.                                                  *)
THEOREM SlotsOnlyAdvance == AdmSpec => SlotsAdvance
<1>1. AdmInv /\ [AdmNext]_admVars
        => [admLaunch' = admLaunch =>
              \A s \in 0..NumAdmBlocks : prefixState'[s] >= prefixState[s]]_admVars
  BY StepsAdvance
<1> QED
  BY AdmInvariant, <1>1, PTL DEF AdmSpec, SlotsAdvance

\* A block's last step resolves its warps, the others leave the offsets alone.
LEMMA OffsetSteps ==
  ASSUME AdmInv, NEW b \in AdmBlocks, WriteOffsets(b)
  PROVE  AdmAbstract!Resolve({b} \X Warps)
<1> DEFINE S == {b} \X Warps
<1>0. AdmInv' /\ AdmTypeOK /\ OffsetsWritten
  BY WriteOffsetsPreserves DEF AdmInv
<1>1. admPc[b] # "done" /\ admPc'[b] = "done" /\ admLaunch' = admLaunch
  BY <1>0 DEF WriteOffsets, AdmTypeOK
<1>2. \A i \in S : AdmOffsets[i] = None
  BY <1>0, <1>1 DEF OffsetsWritten, AdmOffsets, AdmItems
<1>3. ASSUME NEW i \in AdmItems
      PROVE  cmpOffset'[i[1]][i[2]] = IF i \in S THEN AdmBefore[admLaunch][i] ELSE AdmOffsets[i]
  <2>1. i[1] \in AdmBlocks /\ i[2] \in Warps /\ i = <<i[1], i[2]>>
    BY DEF AdmItems
  <2>2. CASE i[1] = b
    <3>1. cmpOffset'[b][i[2]] = Before[admLaunch][b][i[2]]
      BY <1>0, <1>1, <2>1 DEF AdmInv, OffsetsWritten
    <3>2. AdmBefore[admLaunch][i] = Before[admLaunch][i[1]][i[2]]
      BY <1>0 DEF AdmBefore, AdmTypeOK
    <3>3. i \in S
      BY <2>1, <2>2
    <3> QED
      BY <2>2, <3>1, <3>2, <3>3
  <2>3. CASE i[1] # b
    <3>1. cmpOffset'[i[1]] = cmpOffset[i[1]]
      BY <1>0, <2>1, <2>3 DEF WriteOffsets, AdmTypeOK
    <3>2. i \notin S
      BY <2>1, <2>3
    <3> QED
      BY <3>1, <3>2 DEF AdmOffsets
  <2> QED
    BY <2>2, <2>3
<1>4. AdmOffsets' = [i \in AdmItems |->
                       IF i \in S THEN AdmBefore[admLaunch][i] ELSE AdmOffsets[i]]
  BY <1>3 DEF AdmOffsets
<1> QED
  BY <1>1, <1>2, <1>4 DEF AdmAbstract!Resolve

LEMMA CallSteps ==
  ASSUME AdmInv, NextCall
  PROVE  AdmAbstract!Relaunch
<1>0. AdmTypeOK /\ OffsetsWritten
  BY DEF AdmInv
<1>1. \A i \in AdmItems : AdmOffsets[i] # None
  <2> SUFFICES ASSUME NEW i \in AdmItems PROVE cmpOffset[i[1]][i[2]] # None
    BY DEF AdmOffsets
  <2>1. i[1] \in AdmBlocks /\ i[2] \in Warps
    BY DEF AdmItems
  <2>2. cmpOffset[i[1]][i[2]] = Before[admLaunch][i[1]][i[2]]
    BY <1>0, <2>1 DEF NextCall, OffsetsWritten
  <2>3. i[2] \in 0..WarpsPerBlock
    BY <2>1, AdmAssumption DEF Warps
  <2>4. Before[admLaunch][i[1]][i[2]] \in Nat
    BY <1>0, <2>1, <2>3, SumFacts DEF AdmTypeOK
  <2> QED
    BY <2>2, <2>4 DEF None
<1>2. AdmOffsets' = [i \in AdmItems |-> None]
  BY DEF NextCall, NoOffsets, AdmOffsets, AdmItems
<1> QED
  BY <1>1, <1>2 DEF NextCall, AdmAbstract!Relaunch

LEMMA StepsImplement ==
  ASSUME AdmInv, [AdmNext]_admVars
  PROVE  [AdmAbstract!ScanNext]_(AdmAbstract!scanVars)
<1>1. CASE UNCHANGED <<admLaunch, cmpOffset>>
  BY <1>1 DEF AdmAbstract!scanVars, AdmOffsets
<1>2. CASE NextCall
  BY <1>2, CallSteps DEF AdmAbstract!ScanNext
<1>3. ASSUME NEW b \in AdmBlocks, WriteOffsets(b)
      PROVE  AdmAbstract!ScanNext
  <2>1. {b} \X Warps \in SUBSET AdmItems
    BY DEF AdmItems
  <2> QED
    BY <1>3, <2>1, OffsetSteps DEF AdmAbstract!ScanNext
<1> QED
  BY <1>1, <1>2, <1>3 DEF AdmNext, BlockStep, admVars, DispatchBlock, ScanWarp, PublishTotal,
     ResolveFirst, AnnounceTotal, Spin, AddResolved, AddTotal, PublishResolved, AnnounceResolved

(* The decoupled look-back of ADM implements the exclusive scan: for any grid*)
(* and any interleaving, each warp learns once, and correctly, where its     *)
(* signals start.                                                            *)
THEOREM AdmImplementsScan == AdmSpec => AdmScanIsScan
<1>1. AdmInit => AdmAbstract!ScanInit
  BY DEF AdmInit, NoOffsets, AdmAbstract!ScanInit, AdmOffsets, AdmItems
<1>2. AdmInv /\ [AdmNext]_admVars => [AdmAbstract!ScanNext]_(AdmAbstract!scanVars)
  BY StepsImplement
<1> QED
  BY <1>1, <1>2, AdmInvariant, PTL DEF AdmSpec, AdmScanIsScan, AdmAbstract!ScanSpec

-----------------------------------------------------------------------------
(***************************************************************************)
(* The inductive invariant.  The sums depend on the launch only.           *)
(***************************************************************************)

\* Bytes of the blocks before block b, of tile t, and of the tiles before it.
OffsetOf(n, b) == Total(BlockCost[n], {c \in Blocks : c < b})
TileCost(n, t) == Total(BlockCost[n], OwnBlocks(t))
TileStart(n, t) == Total(BlockCost[n], {b \in Blocks : b < t * BlocksPerWarp})

LbPcs == {"queued", "agg", "announce", "look", "incl", "prefix", "pack", "done"}
LbStates == {LB_NONE, LB_AGG, LB_PREFIX}
LaneReads == [st : LbStates, vv : Nat, read : BOOLEAN]

\* The variables are of their C++ types.
LbTypeOK ==
    /\ lbLaunch \in 1..LbLaunches
    /\ gState \in [Tiles -> LbStates]
    /\ gAgg \in [Tiles -> Nat] /\ gIncl \in [Tiles -> Nat]
    /\ lbPc \in [Tiles -> LbPcs]
    /\ look \in [Tiles -> Int]
    /\ excl \in [Tiles -> Nat]
    /\ lane \in [Tiles -> [Lanes -> LaneReads]]
    /\ packed \in [Blocks -> Int]

\* What lane l of a window that ends before tile h may hold in launch n, when
\* the tiles' states are s: nothing, a state its predecessor has announced, or
\* the value that state refers to.  A lane past tile 0 holds an inclusive zero.
LaneGood(n, s, h, l, v) ==
    /\ v.read => v.st # LB_NONE
    /\ v.st # LB_NONE /\ h > l =>
          /\ s[h - 1 - l] # LB_NONE
          /\ v.st = LB_PREFIX => s[h - 1 - l] = LB_PREFIX
          /\ v.read => v.vv = IF v.st = LB_PREFIX THEN TileStart(n, h - l)
                                                  ELSE TileCost(n, h - 1 - l)
    /\ v.st # LB_NONE /\ ~(h > l) => v.st = LB_PREFIX /\ v.vv = 0 /\ v.read

\* g_agg and g_incl hold their sums before g_state announces them.
PublishedInv(t) ==
    /\ lbPc[t] \notin {"queued", "agg"} => gAgg[t] = TileCost(lbLaunch, t)
    /\ lbPc[t] \in {"prefix", "pack", "done"} => gIncl[t] = TileStart(lbLaunch, t + 1)
    /\ gState[t] # LB_NONE => lbPc[t] \notin {"queued", "agg", "announce"}
    /\ gState[t] = LB_PREFIX => lbPc[t] \in {"pack", "done"}

\* During the look-back the sum covers the tiles from the window up to t; after
\* it, all the tiles before t.
LookInv(t) ==
    /\ lbPc[t] = "look" =>
          /\ look[t] \in 1..t
          /\ excl[t] + TileStart(lbLaunch, look[t]) = TileStart(lbLaunch, t)
          /\ \A l \in Lanes : LaneGood(lbLaunch, gState, look[t], l, lane[t][l])
    /\ lbPc[t] \in {"incl", "prefix", "pack", "done"} => excl[t] = TileStart(lbLaunch, t)

\* The blocks of a finished tile are packed where the scan says, the others
\* are not packed yet.
PackInv(t) ==
    \A b \in OwnBlocks(t) :
        packed[b] = IF lbPc[t] = "done" THEN OffsetOf(lbLaunch, b) ELSE NotPacked

TileInv(t) == PublishedInv(t) /\ LookInv(t) /\ PackInv(t)

LbInv == LbTypeOK /\ \A t \in Tiles : TileInv(t)

-----------------------------------------------------------------------------
(***************************************************************************)
(* Blocks, tiles and the sums over them.                                   *)
(***************************************************************************)

\* The quotient of a block's index: the tile that owns the block.
LEMMA QuotientBounds ==
    ASSUME NEW b \in Nat, NEW k \in Nat, k > 0, NEW t \in Nat
    PROVE  /\ b \div k \in Nat
           /\ b \div k = t <=> t * k <= b /\ b < (t + 1) * k
<1> DEFINE q == b \div k
           r == b % k
<1>1. q \in Int /\ r \in 0..k-1 /\ b = (k * q) + r
  OBVIOUS
<1> HIDE DEF q, r
<1>2. q >= 0
  <2>1. SUFFICES ASSUME q <= -1 PROVE FALSE
    BY <1>1
  <2>2. k * q <= -k
    BY <1>1, <2>1
  <2> QED
    BY <1>1, <2>2
<1>3. ASSUME q = t PROVE t * k <= b /\ b < (t + 1) * k
  BY <1>1, <1>3
<1>4. ASSUME t * k <= b, b < (t + 1) * k PROVE q = t
  <2>1. q < t + 1
    <3>1. SUFFICES ASSUME q >= t + 1 PROVE FALSE
      BY <1>1
    <3>2. k * q >= k * (t + 1)
      BY <1>1, <3>1
    <3> QED
      BY <1>1, <1>4, <3>2
  <2>2. q > t - 1
    <3>1. SUFFICES ASSUME q <= t - 1 PROVE FALSE
      BY <1>1
    <3>2. k * q <= k * (t - 1)
      BY <1>1, <3>1
    <3>3. k * (t - 1) = (k * t) - k
      OBVIOUS
    <3> QED
      BY <1>1, <1>4, <3>2, <3>3
  <2> QED
    BY <1>1, <2>1, <2>2
<1> QED
  BY <1>1, <1>2, <1>3, <1>4 DEF q

LEMMA NumWarpsNat == NumWarps \in Nat
<1>1. NumBlocks + BlocksPerWarp - 1 \in Nat /\ BlocksPerWarp \in Nat /\ BlocksPerWarp > 0
  BY LookBackAssumption
<1> QED
  BY <1>1, QuotientBounds DEF NumWarps

\* Every block belongs to a tile, and to the tile its index says.
LEMMA BlockTile ==
    ASSUME NEW b \in Blocks
    PROVE  b \div BlocksPerWarp \in Tiles
<1> DEFINE k == BlocksPerWarp
           n == NumBlocks + BlocksPerWarp - 1
<1>1. k \in Nat /\ k > 0 /\ NumBlocks \in Nat /\ b \in Nat /\ b <= NumBlocks - 1 /\ n \in Nat
  BY LookBackAssumption DEF Blocks
<1> DEFINE q == b \div k
           w == n \div k
<1>2. q \in Nat /\ q * k <= b
  BY <1>1, QuotientBounds
<1>3. w \in Nat /\ n < (w + 1) * k
  BY <1>1, QuotientBounds
<1>4. w = NumWarps
  BY DEF NumWarps
<1>5. n = NumBlocks + k - 1
  OBVIOUS
<1> HIDE DEF q, w, k, n
<1>6. q * k < w * k
  <2>1. (w + 1) * k = (w * k) + k
    BY <1>1, <1>3
  <2>2. w * k \in Int /\ q * k \in Int
    BY <1>1, <1>2, <1>3
  <2> QED
    BY <1>1, <1>2, <1>3, <1>5, <2>1, <2>2
<1>7. q < w
  <2>1. SUFFICES ASSUME q >= w PROVE FALSE
    BY <1>2, <1>3
  <2>2. q * k >= w * k
    BY <1>1, <1>2, <1>3, <2>1
  <2> QED
    BY <1>1, <1>2, <1>3, <1>6, <2>2
<1> QED
  BY <1>2, <1>3, <1>4, <1>7 DEF Tiles, q, k

LEMMA OwnBlocksRange ==
    ASSUME NEW t \in Tiles
    PROVE  OwnBlocks(t) = {b \in Blocks : t * BlocksPerWarp <= b /\ b < (t + 1) * BlocksPerWarp}
<1>1. t \in Nat /\ BlocksPerWarp \in Nat /\ BlocksPerWarp > 0
  BY LookBackAssumption DEF Tiles
<1>2. ASSUME NEW b \in Blocks
      PROVE  b \div BlocksPerWarp = t
               <=> t * BlocksPerWarp <= b /\ b < (t + 1) * BlocksPerWarp
  <2>1. b \in Nat
    BY DEF Blocks
  <2> QED
    BY <1>1, <2>1, QuotientBounds
<1> QED
  BY <1>2 DEF OwnBlocks

\* Sums of block costs are naturals, and add up over disjoint sets.
LEMMA CostFacts ==
    ASSUME NEW n \in 1..LbLaunches, NEW S \in SUBSET Blocks
    PROVE  /\ IsFiniteSet(S) /\ \A b \in S : BlockCost[n][b] \in Int
           /\ Total(BlockCost[n], S) \in Nat
<1>1. IsFiniteSet(Blocks)
  <2>1. 0 \in Int /\ NumBlocks - 1 \in Int
    BY LookBackAssumption
  <2> QED
    BY <2>1, FS_Interval DEF Blocks
<1>2. IsFiniteSet(S)
  BY <1>1, FS_Subset
<1>3. BlockCost[n] \in [Blocks -> Nat]
  BY LookBackAssumption DEF Blocks
<1>4. \A b \in S : BlockCost[n][b] \in Int /\ BlockCost[n][b] >= 0
  BY <1>3
<1>5. Total(BlockCost[n], S) \in Int /\ Total(BlockCost[n], S) >= 0
  BY <1>2, <1>4, TotalInt
<1> QED
  BY <1>2, <1>4, <1>5

LEMMA CostUnion ==
    ASSUME NEW n \in 1..LbLaunches, NEW A \in SUBSET Blocks, NEW B \in SUBSET Blocks,
           A \cap B = {}
    PROVE  Total(BlockCost[n], A \cup B)
             = Total(BlockCost[n], A) + Total(BlockCost[n], B)
<1>1. A \cup B \in SUBSET Blocks
  OBVIOUS
<1>2. /\ IsFiniteSet(A) /\ IsFiniteSet(B)
      /\ \A b \in A \cup B : BlockCost[n][b] \in Int
  BY <1>1, CostFacts
<1> QED
  BY <1>2, TotalUnion

\* Where tiles start: the sum over the tiles before, tile by tile, and where a
\* block starts inside its tile.
LEMMA TileFacts ==
    ASSUME NEW n \in 1..LbLaunches
    PROVE  /\ TileStart(n, 0) = 0
           /\ \A t \in 0..NumWarps : TileStart(n, t) \in Nat
           /\ \A t \in Tiles : /\ TileCost(n, t) \in Nat
                               /\ TileStart(n, t + 1) = TileStart(n, t) + TileCost(n, t)
           /\ \A t \in Tiles : \A b \in OwnBlocks(t) :
                  TileStart(n, t) + Total(BlockCost[n], {c \in OwnBlocks(t) : c < b})
                    = OffsetOf(n, b)
<1> DEFINE k == BlocksPerWarp
           Upto(t) == {b \in Blocks : b < t * BlocksPerWarp}
           Cost(S) == Total(BlockCost[n], S)
<1>1. k \in Nat /\ k > 0 /\ Blocks \subseteq Nat
  BY LookBackAssumption DEF Blocks
<1>2. TileStart(n, 0) = 0
  <2>1. ASSUME NEW b \in Blocks PROVE ~(b < 0 * BlocksPerWarp)
    <3>1. 0 * BlocksPerWarp = 0 /\ b \in Nat
      BY <1>1
    <3> QED
      BY <3>1
  <2>2. {b \in Blocks : b < 0 * BlocksPerWarp} = {}
    BY <2>1
  <2> QED
    BY <2>2, TotalEmpty DEF TileStart
<1>3. \A t \in 0..NumWarps : TileStart(n, t) \in Nat
  <2>1. ASSUME NEW t \in 0..NumWarps PROVE TileStart(n, t) \in Nat
    <3>1. Upto(t) \in SUBSET Blocks
      OBVIOUS
    <3> HIDE DEF Upto
    <3>2. Cost(Upto(t)) \in Nat
      BY <3>1, CostFacts
    <3> QED
      BY <3>2 DEF TileStart, Upto
  <2> QED
    BY <2>1
<1>4. ASSUME NEW t \in Tiles
      PROVE  /\ TileCost(n, t) \in Nat
             /\ TileStart(n, t + 1) = TileStart(n, t) + TileCost(n, t)
  <2>1. t \in Nat
    BY DEF Tiles
  <2>2. (t + 1) * k = (t * k) + k /\ t * k \in Nat
    BY <1>1, <2>1
  <2>3. Upto(t + 1) = Upto(t) \cup OwnBlocks(t) /\ Upto(t) \cap OwnBlocks(t) = {}
    <3>1. ASSUME NEW b \in Blocks
          PROVE  /\ b < (t + 1) * BlocksPerWarp <=> b < t * BlocksPerWarp \/ b \in OwnBlocks(t)
                 /\ ~(b < t * BlocksPerWarp /\ b \in OwnBlocks(t))
      <4>1. b \in OwnBlocks(t) <=> t * BlocksPerWarp <= b /\ b < (t + 1) * BlocksPerWarp
        BY OwnBlocksRange
      <4>2. b \in Nat
        BY <1>1
      <4> QED
        BY <1>1, <2>2, <4>1, <4>2
    <3> QED
      BY <3>1 DEF OwnBlocks
  <2>4. Upto(t) \in SUBSET Blocks /\ OwnBlocks(t) \in SUBSET Blocks
    BY DEF OwnBlocks
  <2> HIDE DEF Upto
  <2>5. Cost(Upto(t + 1)) = Cost(Upto(t)) + Cost(OwnBlocks(t))
    BY <2>3, <2>4, CostUnion
  <2>6. Cost(OwnBlocks(t)) \in Nat
    BY <2>4, CostFacts
  <2> QED
    BY <2>5, <2>6 DEF TileStart, TileCost, Upto
<1>5. ASSUME NEW t \in Tiles, NEW b \in OwnBlocks(t)
      PROVE  TileStart(n, t) + Total(BlockCost[n], {c \in OwnBlocks(t) : c < b})
               = OffsetOf(n, b)
  <2> DEFINE In == {c \in OwnBlocks(t) : c < b}
             All == {c \in Blocks : c < b}
  <2>1. t \in Nat /\ (t + 1) * k = (t * k) + k /\ t * k \in Nat
    BY <1>1 DEF Tiles
  <2>2. b \in Blocks
    BY DEF OwnBlocks
  <2>3. t * k <= b /\ b < (t * k) + k
    BY <2>1, OwnBlocksRange
  <2>4. All = Upto(t) \cup In /\ Upto(t) \cap In = {}
    <3>1. ASSUME NEW c \in Blocks
          PROVE  /\ c < b <=> c < t * BlocksPerWarp \/ (c \in OwnBlocks(t) /\ c < b)
                 /\ ~(c < t * BlocksPerWarp /\ c \in OwnBlocks(t))
      <4>1. c \in OwnBlocks(t) <=> t * BlocksPerWarp <= c /\ c < (t + 1) * BlocksPerWarp
        BY OwnBlocksRange
      <4>2. c \in Nat /\ b \in Nat
        BY <1>1, <2>2
      <4> QED
        BY <1>1, <2>1, <2>3, <4>1, <4>2
    <3> QED
      BY <3>1 DEF OwnBlocks
  <2>5. Upto(t) \in SUBSET Blocks /\ In \in SUBSET Blocks
    BY DEF OwnBlocks
  <2>6. TileStart(n, t) = Cost(Upto(t)) /\ OffsetOf(n, b) = Cost(All)
    BY DEF TileStart, OffsetOf
  <2> HIDE DEF Upto, In
  <2>7. Cost(All) = Cost(Upto(t)) + Cost(In)
    BY <2>4, <2>5, CostUnion
  <2> QED
    BY <2>6, <2>7 DEF In
<1> QED
  BY <1>2, <1>3, <1>4, <1>5

\* The costs the kernel computes are those sums.
LEMMA ModelCosts ==
    /\ \A t \in Tiles : WarpTotal(t) = TileCost(lbLaunch, t)
    /\ \A t \in Tiles : \A b \in OwnBlocks(t) :
          SBase(b) = Total(BlockCost[lbLaunch], {c \in OwnBlocks(t) : c < b})
<1>1. ASSUME NEW t \in Tiles PROVE WarpTotal(t) = TileCost(lbLaunch, t)
  BY Zenon DEF WarpTotal, CostOf, TileCost, Total
<1>2. ASSUME NEW t \in Tiles, NEW b \in OwnBlocks(t)
      PROVE  SBase(b) = Total(BlockCost[lbLaunch], {c \in OwnBlocks(t) : c < b})
  <2>1. b \div BlocksPerWarp = t
    BY DEF OwnBlocks
  <2>2. SBase(b) = Total(BlockCost[lbLaunch], {c \in OwnBlocks(b \div BlocksPerWarp) : c < b})
    BY Zenon DEF SBase, CostOf, Total
  <2> QED
    BY <2>1, <2>2
<1> QED
  BY <1>1, <1>2

\* Lanes 0..m-1 that all hold aggregates hold the bytes of the m tiles before h.
LEMMA WindowSum ==
    ASSUME NEW n \in 1..LbLaunches, NEW h \in 0..NumWarps, NEW m \in 0..h, NEW v,
           \A l \in 0..m-1 : v[l] = TileCost(n, h - 1 - l)
    PROVE  Total(v, 0..m-1) + TileStart(n, h - m) = TileStart(n, h)
<1> DEFINE F == {i \in 0..m : Total(v, 0..i-1) + TileStart(n, h - i) # TileStart(n, h)}
<1>0. NumWarps \in Nat /\ h \in Nat /\ m \in Nat /\ m <= h /\ h <= NumWarps
  BY NumWarpsNat
<1>1. SUFFICES ASSUME F # {} PROVE FALSE
  <2>1. m \in 0..m
    BY <1>0
  <2> QED
    BY <2>1, Zenon
<1>2. F \subseteq Nat
  BY <1>0
<1>3. PICK i \in F : \A j \in F : i <= j
  <2> HIDE DEF F
  <2> QED
    BY <1>1, <1>2, LeastCount
<1>4. i \in 0..m /\ Total(v, 0..i-1) + TileStart(n, h - i) # TileStart(n, h)
  OBVIOUS
<1>5. TileStart(n, h) \in Nat
  BY TileFacts
<1>6. CASE i = 0
  <2>1. 0..i-1 = {} /\ h - i = h
    BY <1>0, <1>6
  <2>2. Total(v, 0..i-1) = 0 /\ TileStart(n, h - i) = TileStart(n, h)
    BY <2>1, TotalEmpty
  <2>3. 0 + TileStart(n, h) = TileStart(n, h)
    BY <1>5
  <2> QED
    BY <1>4, <2>2, <2>3
<1>7. CASE i # 0
  <2> DEFINE j == i - 1
             c == h - i
  <2>1. j \in 0..m /\ j < i /\ j \in Int
    BY <1>0, <1>4, <1>7
  <2>2. Total(v, 0..j-1) + TileStart(n, h - j) = TileStart(n, h)
    BY <1>3, <2>1
  <2> HIDE DEF F
  <2>3. 0..i-1 = (0..j-1) \cup {j} /\ j \notin 0..j-1
    BY <1>4, <1>7
  <2>4. IsFiniteSet(0..j-1)
    BY <2>1, FS_Interval
  <2>5. c \in Tiles /\ h - j = c + 1 /\ j \in 0..m-1 /\ h - 1 - j = c
    BY <1>0, <1>4, <1>7 DEF Tiles
  <2>6. v[j] = TileCost(n, c)
    BY <2>5
  <2>7. \A l \in (0..j-1) \cup {j} : v[l] \in Int
    <3>1. ASSUME NEW l \in (0..j-1) \cup {j} PROVE v[l] \in Int
      <4>1. l \in 0..m-1 /\ h - 1 - l \in Tiles
        BY <1>0, <1>4, <1>7 DEF Tiles
      <4>2. v[l] = TileCost(n, h - 1 - l)
        BY <4>1
      <4> HIDE DEF j
      <4> QED
        BY <4>1, <4>2, TileFacts
    <3> QED
      BY <3>1
  <2>8. TileStart(n, c + 1) = TileStart(n, c) + TileCost(n, c) /\ TileCost(n, c) \in Nat
    BY <2>5, TileFacts
  <2>9. TileStart(n, c) \in Nat
    <3>1. c \in 0..NumWarps
      BY <1>0, <1>4
    <3> QED
      BY <3>1, TileFacts
  <2>10. Total(v, 0..j-1) \in Int
    BY <2>4, <2>7, TotalInt
  <2>11. TileStart(n, h - i) = TileStart(n, c)
    OBVIOUS
  <2> HIDE DEF j, c
  <2>12. Total(v, 0..i-1) = v[j] + Total(v, 0..j-1)
    <3>1. Total(v, (0..j-1) \cup {j}) = v[j] + Total(v, 0..j-1)
      BY <2>3, <2>4, <2>7, TotalAdd
    <3> QED
      BY <2>3, <3>1
  <2>13. TileStart(n, h - j) = TileStart(n, c + 1)
    BY <2>5
  <2> QED
    BY <1>4, <2>2, <2>6, <2>8, <2>9, <2>10, <2>11, <2>12, <2>13
<1> QED
  BY <1>6, <1>7

-----------------------------------------------------------------------------
(***************************************************************************)
(* The reduction of one window.                                            *)
(***************************************************************************)

\* When every lane has its value, the lanes that count add up to the bytes
\* between the next window and this one, or to all the bytes before it.
LEMMA ReduceSum ==
    ASSUME LbInv, NEW t \in Tiles, lbPc[t] = "look",
           \A l \in Lanes : lane[t][l].read
    PROVE  LET s == Total([l \in Lanes |-> lane[t][l].vv], CountedLanes(t))
               h == look[t]
           IN  /\ s \in Nat
               /\ PrefixLanes(t) # {} => s = TileStart(lbLaunch, h)
               /\ PrefixLanes(t) = {} =>
                     /\ h >= WindowLanes
                     /\ s + TileStart(lbLaunch, h - WindowLanes) = TileStart(lbLaunch, h)
<1> DEFINE n == lbLaunch
           h == look[t]
           vv == [l \in Lanes |-> lane[t][l].vv]
           C == CountedLanes(t)
           P == PrefixLanes(t)
<1>1. n \in 1..LbLaunches /\ WindowLanes \in Nat /\ WindowLanes > 0
  BY LookBackAssumption DEF LbInv, LbTypeOK
<1>2. h \in Nat /\ h >= 1 /\ h <= t /\ h \in 0..NumWarps /\ NumWarps \in Nat
  <2>1. h \in 1..t
    BY DEF LbInv, TileInv, LookInv
  <2>2. NumWarps \in Nat /\ t \in Nat /\ t < NumWarps
    BY NumWarpsNat DEF Tiles
  <2> HIDE DEF h
  <2> QED
    BY <2>1, <2>2
<1>3. ASSUME NEW l \in Lanes
      PROVE  /\ l \in Nat /\ l < WindowLanes
             /\ lane[t][l].st \in LbStates /\ vv[l] \in Nat
             /\ vv[l] = lane[t][l].vv
             /\ LaneGood(n, gState, h, l, lane[t][l])
             /\ lane[t][l].read
  <2>1. lane[t][l] \in LaneReads
    BY DEF LbInv, LbTypeOK
  <2>2. l \in Nat /\ l < WindowLanes
    BY <1>1 DEF Lanes
  <2>3. LaneGood(n, gState, h, l, lane[t][l])
    BY Zenon DEF LbInv, TileInv, LookInv
  <2> QED
    BY <2>1, <2>2, <2>3 DEF LaneReads
<1>4. ASSUME NEW l \in Lanes, l \notin P
      PROVE  h > l /\ vv[l] = TileCost(n, h - 1 - l)
  <2>1. lane[t][l].st # LB_PREFIX
    BY <1>4 DEF PrefixLanes
  <2>2. lane[t][l].st # LB_NONE
    BY <1>3 DEF LaneGood
  <2> QED
    BY <1>3, <2>1, <2>2 DEF LaneGood
<1>5. ASSUME NEW l \in Lanes, l \in P
      PROVE  vv[l] = IF h > l THEN TileStart(n, h - l) ELSE 0
  <2>1. lane[t][l].st = LB_PREFIX /\ lane[t][l].st # LB_NONE
    BY <1>5 DEF PrefixLanes, LB_PREFIX, LB_NONE
  <2> QED
    BY <1>3, <2>1 DEF LaneGood
<1>6. C \subseteq Lanes /\ IsFiniteSet(C) /\ Total(vv, C) \in Nat
  <2>1. C \subseteq Lanes
    BY DEF CountedLanes
  <2>2. IsFiniteSet(Lanes)
    <3>1. 0 \in Int /\ WindowLanes - 1 \in Int
      BY <1>1
    <3> QED
      BY <3>1, FS_Interval DEF Lanes
  <2>3. IsFiniteSet(C)
    BY <2>1, <2>2, FS_Subset
  <2>4. \A l \in C : vv[l] \in Int /\ vv[l] >= 0
    BY <1>3, <2>1
  <2> HIDE DEF vv, C
  <2>5. Total(vv, C) \in Int /\ Total(vv, C) >= 0
    BY <2>3, <2>4, TotalInt
  <2> QED
    BY <2>1, <2>3, <2>5
<1>7. ASSUME P = {}
      PROVE  h >= WindowLanes /\ Total(vv, C) + TileStart(n, h - WindowLanes) = TileStart(n, h)
  <2>1. C = 0..WindowLanes-1
    BY <1>7 DEF CountedLanes, Lanes
  <2>2. WindowLanes - 1 \in Lanes
    BY <1>1 DEF Lanes
  <2>3. h > WindowLanes - 1
    BY <1>4, <1>7, <2>2
  <2>4. WindowLanes \in 0..h
    BY <1>1, <1>2, <2>3
  <2>5. \A l \in 0..WindowLanes-1 : vv[l] = TileCost(n, h - 1 - l)
    BY <1>4, <1>7 DEF Lanes
  <2> HIDE DEF vv, C, n, h
  <2>6. Total(vv, 0..WindowLanes-1) + TileStart(n, h - WindowLanes) = TileStart(n, h)
    BY <1>1, <1>2, <2>4, <2>5, WindowSum
  <2> QED
    BY <1>1, <1>2, <2>1, <2>3, <2>6
<1>8. ASSUME P # {}
      PROVE  Total(vv, C) = TileStart(n, h)
  <2>1. P \subseteq Nat /\ P \subseteq Lanes
    BY <1>3 DEF PrefixLanes
  <2>2. PICK f \in P : \A g \in P : f <= g
    <3> HIDE DEF P
    <3> QED
      BY <1>8, <2>1, LeastCount
  <2>3. f \in Nat /\ f \in Lanes /\ f < WindowLanes
    BY <1>3, <2>1
  <2>4. C = (0..f-1) \cup {f} /\ f \notin 0..f-1
    <3>1. ASSUME NEW l \in Lanes PROVE l \in C <=> l <= f
      <4>1. l \in C <=> \A g \in P : l <= g
        BY DEF CountedLanes
      <4>2. l \in Nat /\ \A g \in P : g \in Nat
        BY <1>3, <2>1
      <4> HIDE DEF C, P
      <4> QED
        BY <2>2, <2>3, <4>1, <4>2
    <3>2. \A l \in (0..f-1) \cup {f} : l \in Lanes
      BY <1>1, <2>3 DEF Lanes
    <3>3. \A l \in Lanes : l <= f <=> l \in (0..f-1) \cup {f}
      BY <1>1, <2>3 DEF Lanes
    <3> HIDE DEF C, P
    <3>4. f \notin 0..f-1
      BY <2>3
    <3> QED
      BY <1>6, <3>1, <3>2, <3>3, <3>4
  <2>5. ASSUME NEW l \in 0..f-1
        PROVE  h > l /\ vv[l] = TileCost(n, h - 1 - l) /\ vv[l] \in Int
    <3>1. l \in Lanes /\ l \notin P
      <4>1. l \in Lanes /\ l < f
        BY <1>1, <2>3 DEF Lanes
      <4>2. l \in Int
        OBVIOUS
      <4> HIDE DEF P
      <4> QED
        BY <2>2, <2>3, <4>1, <4>2
    <3> HIDE DEF vv, P, h, n
    <3> QED
      BY <1>3, <1>4, <3>1
  <2>6. f <= h
    <3>1. CASE f = 0
      BY <1>2, <3>1
    <3>2. CASE f # 0
      <4>1. f - 1 \in 0..f-1
        BY <2>3, <3>2
      <4>2. h > f - 1
        BY <2>5, <4>1
      <4> QED
        BY <1>2, <2>3, <4>2
    <3> QED
      BY <3>1, <3>2
  <2>7. vv[f] = TileStart(n, h - f)
    <3>1. vv[f] = IF h > f THEN TileStart(n, h - f) ELSE 0
      BY <1>5, <2>3
    <3>2. CASE h > f
      BY <3>1, <3>2
    <3>3. CASE ~(h > f)
      <4>1. h - f = 0
        BY <1>2, <2>3, <2>6, <3>3
      <4>2. TileStart(n, 0) = 0
        BY <1>1, TileFacts
      <4> QED
        BY <3>1, <3>3, <4>1, <4>2
    <3> QED
      BY <3>2, <3>3
  <2>8. f \in 0..h /\ h - f \in 0..NumWarps
    <3> HIDE DEF h
    <3> QED
      BY <1>2, <2>3, <2>6
  <2>9. vv[f] \in Int
    BY <1>3, <2>3
  <2> HIDE DEF vv, C, P, n, h
  <2>10. Total(vv, 0..f-1) + TileStart(n, h - f) = TileStart(n, h)
    BY <1>1, <1>2, <2>5, <2>8, WindowSum
  <2>11. IsFiniteSet(0..f-1) /\ \A l \in (0..f-1) \cup {f} : vv[l] \in Int
    <3>1. 0 \in Int /\ f - 1 \in Int
      BY <2>3
    <3>2. IsFiniteSet(0..f-1)
      BY <3>1, FS_Interval
    <3> QED
      BY <2>5, <2>9, <3>2
  <2>12. Total(vv, (0..f-1) \cup {f}) = vv[f] + Total(vv, 0..f-1)
    BY <2>4, <2>11, TotalAdd
  <2>13. Total(vv, 0..f-1) \in Int
    BY <2>11, TotalInt
  <2> QED
    BY <2>4, <2>7, <2>9, <2>10, <2>12, <2>13
<1> HIDE DEF vv, C, P, n, h
<1>9. /\ Total(vv, C) \in Nat
      /\ P # {} => Total(vv, C) = TileStart(n, h)
      /\ P = {} => /\ h >= WindowLanes
                   /\ Total(vv, C) + TileStart(n, h - WindowLanes) = TileStart(n, h)
  BY <1>6, <1>7, <1>8
<1> QED
  BY <1>9, Zenon DEF vv, C, P, n, h

-----------------------------------------------------------------------------
(***************************************************************************)
(* The invariant is inductive.                                             *)
(***************************************************************************)

\* The states a tile announces only grow, which keeps what a lane has seen.
Grows(s, r) ==
    \A p \in Tiles : /\ s[p] # LB_NONE => r[p] # LB_NONE
                     /\ s[p] = LB_PREFIX => r[p] = LB_PREFIX

LEMMA LaneGoodGrows ==
    ASSUME NEW n, NEW s, NEW r, Grows(s, r), NEW t \in Tiles, NEW h \in 1..t,
           NEW l \in Lanes, NEW v, LaneGood(n, s, h, l, v)
    PROVE  LaneGood(n, r, h, l, v)
<1>1. t \in Nat /\ t < NumWarps /\ NumWarps \in Nat /\ l \in Nat
  BY NumWarpsNat, LookBackAssumption DEF Tiles, Lanes
<1>2. h > l => h - 1 - l \in Tiles
  BY <1>1 DEF Tiles
<1> QED
  BY <1>2, Zenon DEF LaneGood, Grows

\* A step of another tile keeps what is known of tile c.
LEMMA OtherTile ==
    ASSUME NEW c \in Tiles, TileInv(c), lbLaunch' = lbLaunch, Grows(gState, gState'),
           lbPc'[c] = lbPc[c], gAgg'[c] = gAgg[c], gIncl'[c] = gIncl[c],
           gState'[c] = gState[c], look'[c] = look[c], excl'[c] = excl[c],
           lane'[c] = lane[c], \A b \in OwnBlocks(c) : packed'[b] = packed[b]
    PROVE  TileInv(c)'
<1>1. PublishedInv(c)'
  BY Zenon DEF TileInv, PublishedInv
<1>2. LookInv(c)'
  <2>1. ASSUME lbPc[c] = "look", NEW l \in Lanes
        PROVE  LaneGood(lbLaunch, gState', look[c], l, lane[c][l])
    <3>1. look[c] \in 1..c /\ LaneGood(lbLaunch, gState, look[c], l, lane[c][l])
      BY <2>1, Zenon DEF TileInv, LookInv
    <3> QED
      BY <3>1, LaneGoodGrows
  <2> QED
    BY <2>1, Zenon DEF TileInv, LookInv
<1>3. PackInv(c)'
  BY Zenon DEF TileInv, PackInv
<1> QED
  BY <1>1, <1>2, <1>3 DEF TileInv

\* It is enough to follow the tile that moves.
LEMMA OneTile ==
    ASSUME LbInv, LbTypeOK', NEW t \in Tiles, TileInv(t)', lbLaunch' = lbLaunch,
           Grows(gState, gState'),
           \A c \in Tiles : c # t =>
               /\ lbPc'[c] = lbPc[c] /\ gAgg'[c] = gAgg[c] /\ gIncl'[c] = gIncl[c]
               /\ gState'[c] = gState[c] /\ look'[c] = look[c] /\ excl'[c] = excl[c]
               /\ lane'[c] = lane[c],
           \A b \in Blocks : b \notin OwnBlocks(t) => packed'[b] = packed[b]
    PROVE  LbInv'
<1>1. ASSUME NEW c \in Tiles PROVE TileInv(c)'
  <2>1. CASE c = t
    BY <2>1
  <2>2. CASE c # t
    <3>1. \A b \in OwnBlocks(c) : b \in Blocks /\ b \notin OwnBlocks(t)
      BY <2>2 DEF OwnBlocks
    <3>2. TileInv(c)
      BY DEF LbInv
    <3> QED
      BY <2>2, <3>1, <3>2, OtherTile
  <2> QED
    BY <2>1, <2>2
<1> QED
  BY <1>1 DEF LbInv

LEMMA LbInitInv == LbInit => LbInv
<1> SUFFICES ASSUME LbInit PROVE LbInv
  OBVIOUS
<1>1. LbTypeOK
  <2>1. FreshLanes \in [Lanes -> LaneReads]
    BY DEF FreshLanes, Unread, LaneReads, LbStates
  <2> QED
    BY <2>1, LookBackAssumption DEF LbInit, LbTypeOK, LbPcs, LbStates, NotPacked
<1>2. ASSUME NEW t \in Tiles PROVE TileInv(t)
  <2>1. lbPc[t] = "queued" /\ gState[t] = LB_NONE
    BY DEF LbInit
  <2>2. \A b \in OwnBlocks(t) : packed[b] = NotPacked
    BY DEF LbInit, OwnBlocks
  <2> QED
    BY <2>1, <2>2 DEF TileInv, PublishedInv, LookInv, PackInv, LB_NONE, LB_PREFIX
<1> QED
  BY <1>1, <1>2 DEF LbInv

LEMMA DispatchInv ==
    ASSUME LbInv, NEW t \in Tiles, Dispatch(t)
    PROVE  LbInv'
<1>1. LbTypeOK'
  BY DEF LbInv, LbTypeOK, Dispatch, LbPcs
<1>2. /\ lbPc[t] = "queued" /\ lbPc'[t] = "agg"
      /\ UNCHANGED <<lbLaunch, gState, gAgg, gIncl, look, excl, lane, packed>>
  BY DEF LbInv, LbTypeOK, Dispatch
<1>3. TileInv(t)
  BY DEF LbInv
<1>4. TileInv(t)'
  BY <1>2, <1>3 DEF TileInv, PublishedInv, LookInv, PackInv
<1>5. \A c \in Tiles : c # t => lbPc'[c] = lbPc[c]
  BY DEF LbInv, LbTypeOK, Dispatch
<1>6. Grows(gState, gState')
  BY <1>2 DEF Grows
<1> QED
  BY <1>1, <1>2, <1>4, <1>5, <1>6, OneTile

LEMMA PublishAggInv ==
    ASSUME LbInv, NEW t \in Tiles, PublishAgg(t)
    PROVE  LbInv'
<1>0. lbLaunch \in 1..LbLaunches /\ TileInv(t)
  BY DEF LbInv, LbTypeOK
<1>1. WarpTotal(t) = TileCost(lbLaunch, t) /\ TileCost(lbLaunch, t) \in Nat
  BY <1>0, ModelCosts, TileFacts
<1>2. LbTypeOK'
  BY <1>1 DEF LbInv, LbTypeOK, PublishAgg, LbPcs
<1>3. /\ lbPc[t] = "agg" /\ lbPc'[t] = "announce" /\ gAgg'[t] = TileCost(lbLaunch, t)
      /\ UNCHANGED <<lbLaunch, gState, gIncl, look, excl, lane, packed>>
  BY <1>1 DEF LbInv, LbTypeOK, PublishAgg
<1>4. TileInv(t)'
  BY <1>0, <1>3 DEF TileInv, PublishedInv, LookInv, PackInv
<1>5. \A c \in Tiles : c # t => lbPc'[c] = lbPc[c] /\ gAgg'[c] = gAgg[c]
  BY DEF LbInv, LbTypeOK, PublishAgg
<1>6. Grows(gState, gState')
  BY <1>3 DEF Grows
<1> QED
  BY <1>2, <1>3, <1>4, <1>5, <1>6, OneTile

LEMMA AnnounceAggInv ==
    ASSUME LbInv, NEW t \in Tiles, AnnounceAgg(t)
    PROVE  LbInv'
<1>0. lbLaunch \in 1..LbLaunches /\ TileInv(t) /\ t \in Nat /\ t \in 0..NumWarps
  BY NumWarpsNat DEF LbInv, LbTypeOK, Tiles
<1>1. FreshLanes \in [Lanes -> LaneReads]
  BY DEF FreshLanes, Unread, LaneReads, LbStates
<1>2. LbTypeOK'
  BY <1>0, <1>1 DEF LbInv, LbTypeOK, AnnounceAgg, LbPcs, LbStates
<1>3. /\ lbPc[t] = "announce" /\ lbPc'[t] = (IF t = 0 THEN "incl" ELSE "look")
      /\ gState'[t] = LB_AGG /\ look'[t] = t /\ excl'[t] = 0 /\ lane'[t] = FreshLanes
      /\ UNCHANGED <<lbLaunch, gAgg, gIncl, packed>>
  BY DEF LbInv, LbTypeOK, AnnounceAgg
<1>4. PublishedInv(t)'
  BY <1>0, <1>3 DEF TileInv, PublishedInv, LB_AGG, LB_NONE, LB_PREFIX
<1>5. PackInv(t)'
  BY <1>0, <1>3 DEF TileInv, PackInv
<1>6. LookInv(t)'
  <2>1. TileStart(lbLaunch, t) \in Nat /\ TileStart(lbLaunch, 0) = 0
    BY <1>0, TileFacts
  <2>2. ASSUME NEW l \in Lanes PROVE LaneGood(lbLaunch', gState', look'[t], l, lane'[t][l])
    BY <1>3 DEF FreshLanes, Unread, LaneGood
  <2>3. t # 0 => look'[t] \in 1..t /\ excl'[t] + TileStart(lbLaunch', look'[t]) = TileStart(lbLaunch', t)
    BY <1>0, <1>3, <2>1
  <2>4. t = 0 => excl'[t] = TileStart(lbLaunch', t)
    BY <1>3, <2>1
  <2> QED
    BY <1>3, <2>2, <2>3, <2>4 DEF LookInv
<1>7. \A c \in Tiles : c # t =>
         /\ lbPc'[c] = lbPc[c] /\ gState'[c] = gState[c]
         /\ look'[c] = look[c] /\ excl'[c] = excl[c] /\ lane'[c] = lane[c]
  BY DEF LbInv, LbTypeOK, AnnounceAgg
<1>8. Grows(gState, gState')
  <2>1. gState[t] = LB_NONE
    BY <1>0, <1>3 DEF TileInv, PublishedInv
  <2> QED
    BY <1>3, <1>7, <2>1 DEF Grows, LB_NONE, LB_AGG, LB_PREFIX
<1>9. TileInv(t)'
  BY <1>4, <1>5, <1>6 DEF TileInv
<1> QED
  BY <1>2, <1>3, <1>7, <1>8, <1>9, OneTile

\* A step that changes one lane of tile t only.
LEMMA OneLane ==
    ASSUME LbInv, NEW t \in Tiles, NEW l \in Lanes, lbPc[t] = "look",
           NEW v \in LaneReads, lane' = [lane EXCEPT ![t][l] = v],
           LaneGood(lbLaunch, gState, look[t], l, v),
           UNCHANGED <<lbLaunch, gState, gAgg, gIncl, lbPc, look, excl, packed>>
    PROVE  LbInv'
<1>0. LbTypeOK /\ TileInv(t) /\ lane \in [Tiles -> [Lanes -> LaneReads]]
  BY DEF LbInv, LbTypeOK
<1>1. lane' \in [Tiles -> [Lanes -> LaneReads]]
  BY <1>0
<1>2. LbTypeOK'
  BY <1>0, <1>1 DEF LbTypeOK
<1>3. \A c \in Tiles : c # t => lane'[c] = lane[c]
  BY <1>0
<1>4. \A m \in Lanes : lane'[t][m] = IF m = l THEN v ELSE lane[t][m]
  BY <1>0
<1>5. ASSUME NEW m \in Lanes PROVE LaneGood(lbLaunch, gState, look[t], m, lane'[t][m])
  <2>1. CASE m = l
    BY <1>4, <2>1
  <2>2. CASE m # l
    <3>1. LaneGood(lbLaunch, gState, look[t], m, lane[t][m])
      BY <1>0, Zenon DEF TileInv, LookInv
    <3> QED
      BY <1>4, <2>2, <3>1
  <2> QED
    BY <2>1, <2>2
<1>6. TileInv(t)'
  <2>1. PublishedInv(t)' /\ PackInv(t)'
    BY <1>0, Zenon DEF TileInv, PublishedInv, PackInv
  <2>2. LookInv(t)'
    BY <1>0, <1>5, Zenon DEF TileInv, LookInv
  <2> QED
    BY <2>1, <2>2 DEF TileInv
<1>7. Grows(gState, gState')
  BY DEF Grows
<1> QED
  BY <1>2, <1>3, <1>6, <1>7, OneTile

LEMMA LaneStateInv ==
    ASSUME LbInv, NEW t \in Tiles, NEW l \in Lanes, LaneState(t, l)
    PROVE  LbInv'
<1>0. /\ lbPc[t] = "look" /\ lane[t][l].st = LB_NONE /\ lane[t][l] \in LaneReads
      /\ lane \in [Tiles -> [Lanes -> LaneReads]]
      /\ UNCHANGED <<lbLaunch, gState, gAgg, gIncl, lbPc, look, excl, packed>>
  BY DEF LaneState, LbInv, LbTypeOK
<1>1. look[t] \in 1..t /\ LaneGood(lbLaunch, gState, look[t], l, lane[t][l])
  BY <1>0, Zenon DEF LbInv, TileInv, LookInv
<1>2. CASE InRange(t, l)
  <2> DEFINE p == look[t] - 1 - l
             v == [lane[t][l] EXCEPT !.st = gState[p]]
  <2>1. look[t] > l /\ p \in Tiles
    <3>1. t \in Nat /\ t < NumWarps /\ NumWarps \in Nat /\ l \in Nat
      BY NumWarpsNat, LookBackAssumption DEF Tiles, Lanes
    <3>2. look[t] > l
      BY <1>2 DEF InRange
    <3> QED
      BY <1>1, <3>1, <3>2 DEF Tiles
  <2>2. gState[p] # LB_NONE /\ lane' = [lane EXCEPT ![t][l].st = gState[p]]
    BY <1>2 DEF LaneState, Predecessor
  <2>3. gState[p] \in LbStates
    BY <2>1 DEF LbInv, LbTypeOK
  <2> HIDE DEF p
  <2>4. v \in LaneReads /\ v.st = gState[p] /\ v.read = lane[t][l].read
    BY <1>0, <2>3 DEF LaneReads
  <2>5. ~lane[t][l].read
    BY <1>0, <1>1 DEF LaneGood
  <2>6. lane' = [lane EXCEPT ![t][l] = v]
    BY <1>0, <2>2
  <2> HIDE DEF v
  <2>7. LaneGood(lbLaunch, gState, look[t], l, v)
    BY <2>1, <2>2, <2>4, <2>5 DEF LaneGood, p
  <2> QED
    BY <1>0, <2>4, <2>6, <2>7, OneLane
<1>3. CASE ~InRange(t, l)
  <2> DEFINE v == [st |-> LB_PREFIX, vv |-> 0, read |-> TRUE]
  <2>1. lane' = [lane EXCEPT ![t][l] = v]
    BY <1>3 DEF LaneState
  <2>2. v \in LaneReads
    BY DEF LaneReads, LbStates
  <2>3. LaneGood(lbLaunch, gState, look[t], l, v)
    BY <1>3 DEF LaneGood, InRange, LB_PREFIX, LB_NONE
  <2> HIDE DEF v
  <2> QED
    BY <1>0, <2>1, <2>2, <2>3, OneLane
<1> QED
  BY <1>2, <1>3

LEMMA LaneValueInv ==
    ASSUME LbInv, NEW t \in Tiles, NEW l \in Lanes, LaneValue(t, l)
    PROVE  LbInv'
<1> DEFINE p == look[t] - 1 - l
           x == IF lane[t][l].st = LB_PREFIX THEN gIncl[p] ELSE gAgg[p]
           v == [lane[t][l] EXCEPT !.vv = x, !.read = TRUE]
<1>0. /\ lbPc[t] = "look" /\ lane[t][l].st # LB_NONE /\ ~lane[t][l].read
      /\ lane[t][l] \in LaneReads
      /\ lane \in [Tiles -> [Lanes -> LaneReads]]
      /\ UNCHANGED <<lbLaunch, gState, gAgg, gIncl, lbPc, look, excl, packed>>
  BY DEF LaneValue, LbInv, LbTypeOK
<1>1. look[t] \in 1..t /\ LaneGood(lbLaunch, gState, look[t], l, lane[t][l])
  BY <1>0, Zenon DEF LbInv, TileInv, LookInv
<1>2. look[t] > l
  BY <1>0, <1>1 DEF LaneGood
<1>3. p \in Tiles /\ p + 1 = look[t] - l
  <2>1. t \in Nat /\ t < NumWarps /\ NumWarps \in Nat /\ l \in Nat
    BY NumWarpsNat, LookBackAssumption DEF Tiles, Lanes
  <2> QED
    BY <1>1, <1>2, <2>1 DEF Tiles
<1>4. gState[p] # LB_NONE /\ (lane[t][l].st = LB_PREFIX => gState[p] = LB_PREFIX)
  BY <1>0, <1>1, <1>2 DEF LaneGood
<1>5. lane' = [lane EXCEPT ![t][l].vv = x, ![t][l].read = TRUE]
  BY Zenon DEF LaneValue, Predecessor
<1> HIDE DEF p
<1>6. gAgg[p] \in Nat /\ gIncl[p] \in Nat
  BY <1>3 DEF LbInv, LbTypeOK
<1>7. x \in Nat /\ x = IF lane[t][l].st = LB_PREFIX THEN TileStart(lbLaunch, p + 1)
                                                      ELSE TileCost(lbLaunch, p)
  <2>1. PublishedInv(p)
    BY <1>3 DEF LbInv, TileInv
  <2> QED
    BY <1>4, <1>6, <2>1 DEF PublishedInv
<1> HIDE DEF x
<1>8. v \in LaneReads /\ v.st = lane[t][l].st /\ v.vv = x /\ v.read = TRUE
  BY <1>0, <1>7 DEF LaneReads
<1>9. lane' = [lane EXCEPT ![t][l] = v]
  BY <1>0, <1>5
<1> HIDE DEF v
<1>10. LaneGood(lbLaunch, gState, look[t], l, v)
  BY <1>0, <1>2, <1>3, <1>4, <1>7, <1>8 DEF LaneGood, p
<1> QED
  BY <1>0, <1>8, <1>9, <1>10, OneLane

LEMMA ReduceInv ==
    ASSUME LbInv, NEW t \in Tiles, Reduce(t)
    PROVE  LbInv'
<1> DEFINE n == lbLaunch
           h == look[t]
           s == Total([l \in Lanes |-> lane[t][l].vv], CountedLanes(t))
<1>0. /\ n \in 1..LbLaunches /\ TileInv(t) /\ lbPc[t] = "look"
      /\ \A l \in Lanes : lane[t][l].read
      /\ WindowLanes \in Nat /\ WindowLanes > 0
      /\ UNCHANGED <<lbLaunch, gState, gAgg, gIncl, packed>>
  BY LookBackAssumption DEF LbInv, LbTypeOK, Reduce
<1>1. /\ s \in Nat
      /\ PrefixLanes(t) # {} => s = TileStart(n, h)
      /\ PrefixLanes(t) = {} =>
            /\ h >= WindowLanes
            /\ s + TileStart(n, h - WindowLanes) = TileStart(n, h)
  BY <1>0, ReduceSum, Zenon
<1>2. excl' = [excl EXCEPT ![t] = @ + s]
  BY Zenon DEF Reduce, Total
<1> HIDE DEF s
<1>3. /\ h \in 1..t /\ h \in 0..NumWarps /\ t \in 0..NumWarps /\ h \in Int /\ h <= t
      /\ excl[t] \in Nat /\ excl[t] + TileStart(n, h) = TileStart(n, t)
  <2>1. h \in 1..t /\ excl[t] + TileStart(n, h) = TileStart(n, t)
    BY <1>0 DEF TileInv, LookInv
  <2>2. NumWarps \in Nat /\ t \in Nat /\ t < NumWarps
    BY NumWarpsNat DEF Tiles
  <2>3. excl[t] \in Nat
    BY DEF LbInv, LbTypeOK
  <2> HIDE DEF h
  <2> QED
    BY <2>1, <2>2, <2>3
<1>4. FreshLanes \in [Lanes -> LaneReads]
  BY DEF FreshLanes, Unread, LaneReads, LbStates
<1>5. /\ excl'[t] = excl[t] + s /\ excl' \in [Tiles -> Nat]
      /\ lane'[t] = FreshLanes /\ lane' \in [Tiles -> [Lanes -> LaneReads]]
      /\ \A c \in Tiles : c # t => lane'[c] = lane[c] /\ excl'[c] = excl[c]
  BY <1>1, <1>2, <1>3, <1>4 DEF LbInv, LbTypeOK, Reduce
<1>6. PublishedInv(t) /\ PackInv(t)
  BY <1>0 DEF TileInv
<1>7. Grows(gState, gState')
  BY <1>0 DEF Grows
<1>8. TileStart(n, h) \in Nat /\ TileStart(n, t) \in Nat
  BY <1>0, <1>3, TileFacts
<1>9. CASE PrefixLanes(t) # {}
  <2>1. lbPc' = [lbPc EXCEPT ![t] = "incl"] /\ look' = look
    BY <1>9 DEF Reduce
  <2>2. LbTypeOK'
    BY <1>0, <1>5, <2>1 DEF LbInv, LbTypeOK, LbPcs
  <2>3. lbPc'[t] = "incl" /\ \A c \in Tiles : c # t => lbPc'[c] = lbPc[c]
    BY <2>1 DEF LbInv, LbTypeOK
  <2>4. excl'[t] = TileStart(n', t)
    BY <1>0, <1>1, <1>3, <1>5, <1>8, <1>9
  <2>5. TileInv(t)'
    BY <1>0, <1>6, <2>3, <2>4 DEF TileInv, PublishedInv, LookInv, PackInv
  <2> QED
    BY <1>0, <1>5, <1>7, <2>1, <2>2, <2>3, <2>5, OneTile
<1>10. CASE PrefixLanes(t) = {}
  <2> DEFINE k == h - WindowLanes
  <2>1. /\ look' = [look EXCEPT ![t] = k]
        /\ lbPc' = [lbPc EXCEPT ![t] = IF h <= WindowLanes THEN "incl" ELSE "look"]
    BY <1>10 DEF Reduce
  <2>2. k \in Int /\ k >= 0 /\ k \in 0..NumWarps /\ (k # 0 => k \in 1..t) /\ (h <= WindowLanes <=> k = 0)
    <3>1. NumWarps \in Nat /\ t \in Nat
      BY NumWarpsNat DEF Tiles
    <3> HIDE DEF h
    <3> QED
      BY <1>0, <1>1, <1>3, <1>10, <3>1
  <2>3. TileStart(n, k) \in Nat /\ TileStart(n, 0) = 0
    BY <1>0, <2>2, TileFacts
  <2>4. excl'[t] + TileStart(n, k) = TileStart(n, t)
    BY <1>1, <1>3, <1>5, <1>8, <1>10, <2>3
  <2>5. LbTypeOK'
    BY <1>0, <1>5, <2>1, <2>2 DEF LbInv, LbTypeOK, LbPcs
  <2>6. /\ lbPc'[t] = (IF h <= WindowLanes THEN "incl" ELSE "look") /\ look'[t] = k
        /\ \A c \in Tiles : c # t => lbPc'[c] = lbPc[c] /\ look'[c] = look[c]
    BY <2>1, <2>2 DEF LbInv, LbTypeOK
  <2>7. ASSUME NEW l \in Lanes PROVE LaneGood(lbLaunch', gState', look'[t], l, lane'[t][l])
    BY <1>5 DEF FreshLanes, Unread, LaneGood
  <2>8. LookInv(t)'
    <3>1. CASE k = 0
      <4>1. lbPc'[t] = "incl"
        BY <2>2, <2>6, <3>1
      <4>2. excl'[t] = TileStart(n', t)
        <5>1. excl'[t] \in Nat /\ n' = n
          BY <1>0, <1>5
        <5> QED
          BY <2>3, <2>4, <3>1, <5>1
      <4> QED
        BY <4>1, <4>2 DEF LookInv
    <3>2. CASE k # 0
      <4>1. lbPc'[t] = "look" /\ look'[t] \in 1..t
        BY <2>2, <2>6, <3>2
      <4>2. excl'[t] + TileStart(lbLaunch', look'[t]) = TileStart(lbLaunch', t)
        BY <1>0, <2>4, <2>6
      <4> QED
        BY <2>7, <4>1, <4>2 DEF LookInv
    <3> QED
      BY <3>1, <3>2
  <2>9. PublishedInv(t)' /\ PackInv(t)'
    BY <1>0, <1>6, <2>6 DEF PublishedInv, PackInv
  <2>10. TileInv(t)'
    BY <2>8, <2>9 DEF TileInv
  <2> QED
    BY <1>0, <1>5, <1>7, <2>5, <2>6, <2>10, OneTile
<1> QED
  BY <1>9, <1>10

LEMMA PublishInclInv ==
    ASSUME LbInv, NEW t \in Tiles, PublishIncl(t)
    PROVE  LbInv'
<1>0. lbLaunch \in 1..LbLaunches /\ TileInv(t) /\ t \in 0..NumWarps
  BY NumWarpsNat DEF LbInv, LbTypeOK, Tiles
<1>1. /\ lbPc[t] = "incl" /\ lbPc'[t] = "prefix" /\ gIncl'[t] = excl[t] + WarpTotal(t)
      /\ UNCHANGED <<lbLaunch, gState, gAgg, look, excl, lane, packed>>
  BY DEF LbInv, LbTypeOK, PublishIncl
<1>2. excl[t] = TileStart(lbLaunch, t)
  BY <1>0, <1>1 DEF TileInv, LookInv
<1>3. gIncl'[t] = TileStart(lbLaunch, t + 1) /\ gIncl'[t] \in Nat
  BY <1>0, <1>1, <1>2, ModelCosts, TileFacts
<1>4. \A c \in Tiles : c # t => lbPc'[c] = lbPc[c] /\ gIncl'[c] = gIncl[c]
  BY DEF LbInv, LbTypeOK, PublishIncl
<1>5. LbTypeOK'
  <2>1. excl[t] + WarpTotal(t) \in Nat
    BY <1>1, <1>3
  <2> QED
    BY <2>1 DEF LbInv, LbTypeOK, PublishIncl, LbPcs
<1>6. TileInv(t)'
  BY <1>0, <1>1, <1>3 DEF TileInv, PublishedInv, LookInv, PackInv
<1>7. Grows(gState, gState')
  BY <1>1 DEF Grows
<1> QED
  BY <1>1, <1>4, <1>5, <1>6, <1>7, OneTile

LEMMA AnnouncePrefixInv ==
    ASSUME LbInv, NEW t \in Tiles, AnnouncePrefix(t)
    PROVE  LbInv'
<1>0. TileInv(t)
  BY DEF LbInv
<1>1. /\ lbPc[t] = "prefix" /\ lbPc'[t] = "pack" /\ gState'[t] = LB_PREFIX
      /\ UNCHANGED <<lbLaunch, gAgg, gIncl, look, excl, lane, packed>>
  BY DEF LbInv, LbTypeOK, AnnouncePrefix
<1>2. \A c \in Tiles : c # t => lbPc'[c] = lbPc[c] /\ gState'[c] = gState[c]
  BY DEF LbInv, LbTypeOK, AnnouncePrefix
<1>3. LbTypeOK'
  BY DEF LbInv, LbTypeOK, AnnouncePrefix, LbPcs, LbStates
<1>4. TileInv(t)'
  BY <1>0, <1>1 DEF TileInv, PublishedInv, LookInv, PackInv
<1>5. Grows(gState, gState')
  BY <1>1, <1>2 DEF Grows, LB_NONE, LB_PREFIX
<1> QED
  BY <1>1, <1>2, <1>3, <1>4, <1>5, OneTile

\* A tile packs its blocks where the scan says.
LEMMA PackOffsets ==
    ASSUME LbInv, NEW t \in Tiles, Pack(t)
    PROVE  /\ \A b \in OwnBlocks(t) : packed[b] = NotPacked /\ packed'[b] = OffsetOf(lbLaunch, b)
           /\ \A b \in Blocks : b \notin OwnBlocks(t) => packed'[b] = packed[b]
           /\ packed' = [b \in Blocks |-> IF b \in OwnBlocks(t) THEN OffsetOf(lbLaunch, b)
                                                                 ELSE packed[b]]
<1>0. lbLaunch \in 1..LbLaunches /\ TileInv(t) /\ lbPc[t] = "pack"
  BY DEF LbInv, LbTypeOK, Pack
<1>1. packed' = [b \in Blocks |->
                    IF b \in OwnBlocks(t) THEN excl[t] + SBase(b) ELSE packed[b]]
  BY DEF Pack
<1>2. ASSUME NEW b \in OwnBlocks(t)
      PROVE  b \in Blocks /\ packed[b] = NotPacked /\ excl[t] + SBase(b) = OffsetOf(lbLaunch, b)
  <2>1. b \in Blocks
    BY DEF OwnBlocks
  <2>2. packed[b] = NotPacked
    BY <1>0 DEF TileInv, PackInv
  <2>3. excl[t] = TileStart(lbLaunch, t)
    BY <1>0 DEF TileInv, LookInv
  <2> QED
    BY <1>0, <2>1, <2>2, <2>3, ModelCosts, TileFacts
<1> QED
  BY <1>1, <1>2

LEMMA OffsetNat ==
    ASSUME NEW n \in 1..LbLaunches, NEW b
    PROVE  OffsetOf(n, b) \in Nat
<1> DEFINE S == {c \in Blocks : c < b}
<1>1. S \in SUBSET Blocks
  OBVIOUS
<1> HIDE DEF S
<1>2. Total(BlockCost[n], S) \in Nat
  BY <1>1, CostFacts
<1> QED
  BY <1>2 DEF OffsetOf, S

LEMMA PackStepInv ==
    ASSUME LbInv, NEW t \in Tiles, Pack(t)
    PROVE  LbInv'
<1>0. TileInv(t) /\ lbLaunch \in 1..LbLaunches
  BY DEF LbInv, LbTypeOK
<1>1. /\ lbPc[t] = "pack" /\ lbPc'[t] = "done"
      /\ UNCHANGED <<lbLaunch, gState, gAgg, gIncl, look, excl, lane>>
      /\ \A c \in Tiles : c # t => lbPc'[c] = lbPc[c]
  BY DEF LbInv, LbTypeOK, Pack
<1>2. LbTypeOK'
  <2>1. packed' \in [Blocks -> Int]
    <3>1. \A b \in Blocks : OffsetOf(lbLaunch, b) \in Int /\ packed[b] \in Int
      BY <1>0, OffsetNat DEF LbInv, LbTypeOK
    <3> QED
      BY <3>1, PackOffsets
  <2>2. lbPc' \in [Tiles -> LbPcs]
    BY DEF LbInv, LbTypeOK, Pack, LbPcs
  <2> QED
    BY <1>1, <2>1, <2>2 DEF LbInv, LbTypeOK
<1>3. PackInv(t)'
  BY <1>1, PackOffsets DEF PackInv
<1>4. PublishedInv(t)' /\ LookInv(t)'
  BY <1>0, <1>1 DEF TileInv, PublishedInv, LookInv
<1>5. TileInv(t)'
  BY <1>3, <1>4 DEF TileInv
<1>6. Grows(gState, gState')
  BY <1>1 DEF Grows
<1> QED
  BY <1>1, <1>2, <1>5, <1>6, PackOffsets, OneTile

\* The next launch starts over: g_state is cleared, g_agg and g_incl are not,
\* and nothing of the previous launch is announced.
LEMMA LaunchNextInv ==
    ASSUME LbInv, LaunchNext
    PROVE  LbInv'
<1>1. LbTypeOK'
  <2>1. FreshLanes \in [Lanes -> LaneReads]
    BY DEF FreshLanes, Unread, LaneReads, LbStates
  <2>2. lbLaunch' \in 1..LbLaunches
    BY LookBackAssumption DEF LbInv, LbTypeOK, LaunchNext
  <2> QED
    BY <2>1, <2>2 DEF LbInv, LbTypeOK, LaunchNext, ClearedState, LbPcs, LbStates, NotPacked
<1>2. ASSUME NEW t \in Tiles PROVE TileInv(t)'
  <2>1. lbPc'[t] = "queued" /\ gState'[t] = LB_NONE
    BY DEF LaunchNext, ClearedState
  <2>2. \A b \in OwnBlocks(t) : packed'[b] = NotPacked
    BY DEF LaunchNext, OwnBlocks
  <2> QED
    BY <2>1, <2>2 DEF TileInv, PublishedInv, LookInv, PackInv, LB_NONE, LB_PREFIX
<1> QED
  BY <1>1, <1>2 DEF LbInv

LEMMA LbNextInv == LbInv /\ [LbNext]_lbVars => LbInv'
<1> SUFFICES ASSUME LbInv, [LbNext]_lbVars PROVE LbInv'
  OBVIOUS
<1>1. ASSUME NEW t \in Tiles, WarpStep(t) PROVE LbInv'
  <2>1. CASE \E l \in Lanes : LaneState(t, l) \/ LaneValue(t, l)
    BY <2>1, LaneStateInv, LaneValueInv
  <2> QED
    BY <1>1, <2>1, DispatchInv, PublishAggInv, AnnounceAggInv, ReduceInv, PublishInclInv,
       AnnouncePrefixInv, PackStepInv DEF WarpStep, LookBackStep
<1>2. CASE LaunchNext
  BY <1>2, LaunchNextInv
<1>3. CASE UNCHANGED lbVars
  <2>1. UNCHANGED <<lbLaunch, gState, gAgg, gIncl, lbPc, look, excl, lane, packed>>
    BY <1>3 DEF lbVars
  <2>2. ASSUME NEW t \in Tiles PROVE TileInv(t)'
    <3>1. TileInv(t) /\ Grows(gState, gState')
      BY <2>1 DEF LbInv, Grows
    <3> QED
      BY <2>1, <3>1, OtherTile
  <2>3. LbTypeOK'
    BY <2>1 DEF LbInv, LbTypeOK
  <2> QED
    BY <2>2, <2>3 DEF LbInv
<1> QED
  BY <1>1, <1>2, <1>3 DEF LbNext

\* The look-back's invariant holds in every state: what a tile announces is in
\* place, what a lane read is the sum its state refers to, and the running sum
\* covers exactly the tiles between the window and the tile.
THEOREM LookBackInvariant == LbSpec => []LbInv
  BY LbInitInv, LbNextInv, PTL DEF LbSpec

-----------------------------------------------------------------------------
(***************************************************************************)
(* The refinement of the exclusive scan.                                   *)
(***************************************************************************)

LEMMA BeforeOffset ==
    ASSUME NEW n \in 1..LbLaunches, NEW b \in Blocks
    PROVE  BlocksBefore[n][b] = OffsetOf(n, b)
  BY Zenon DEF BlocksBefore, OffsetOf, Total

LEMMA PackResolves ==
    ASSUME LbInv, NEW t \in Tiles, Pack(t)
    PROVE  LbScan!Resolve(OwnBlocks(t))
<1>1. lbLaunch \in 1..LbLaunches /\ lbLaunch' = lbLaunch
  BY DEF LbInv, LbTypeOK, Pack
<1>2. packed' = [b \in Blocks |-> IF b \in OwnBlocks(t) THEN BlocksBefore[lbLaunch][b]
                                                         ELSE packed[b]]
  BY <1>1, PackOffsets, BeforeOffset
<1>3. \A b \in OwnBlocks(t) : packed[b] = NotPacked
  BY PackOffsets
<1> QED
  BY <1>1, <1>2, <1>3 DEF LbScan!Resolve

LEMMA LaunchRelaunches ==
    ASSUME LbInv, LaunchNext
    PROVE  LbScan!Relaunch
<1>1. ASSUME NEW b \in Blocks PROVE packed[b] # NotPacked
  <2> DEFINE t == b \div BlocksPerWarp
  <2>1. t \in Tiles /\ b \in OwnBlocks(t)
    BY BlockTile DEF OwnBlocks
  <2>2. lbPc[t] = "done" /\ lbLaunch \in 1..LbLaunches
    BY <2>1 DEF LaunchNext, KernelDone, LbInv, LbTypeOK
  <2> HIDE DEF t
  <2>3. packed[b] = OffsetOf(lbLaunch, b)
    BY <2>1, <2>2 DEF LbInv, TileInv, PackInv
  <2>4. OffsetOf(lbLaunch, b) \in Nat
    BY <2>2, OffsetNat
  <2> QED
    BY <2>3, <2>4 DEF NotPacked
<1> QED
  BY <1>1 DEF LaunchNext, LbScan!Relaunch

LEMMA LbStepsImplement ==
    ASSUME LbInv, [LbNext]_lbVars
    PROVE  [LbScan!ScanNext]_(LbScan!scanVars)
<1>1. CASE UNCHANGED <<lbLaunch, packed>>
  BY <1>1 DEF LbScan!scanVars
<1>2. CASE LaunchNext
  BY <1>2, LaunchRelaunches DEF LbScan!ScanNext
<1>3. ASSUME NEW t \in Tiles, Pack(t)
      PROVE  LbScan!ScanNext
  <2>1. OwnBlocks(t) \in SUBSET Blocks
    BY DEF OwnBlocks
  <2> QED
    BY <1>3, <2>1, PackResolves DEF LbScan!ScanNext
<1>4. ASSUME NEW t \in Tiles, WarpStep(t)
      PROVE  Pack(t) \/ UNCHANGED <<lbLaunch, packed>>
  <2>1. LookBackStep(t) => UNCHANGED <<lbLaunch, packed>>
    BY Zenon DEF LookBackStep, LaneState, LaneValue, Reduce
  <2>2. /\ Dispatch(t) \/ PublishAgg(t) \/ AnnounceAgg(t) => UNCHANGED <<lbLaunch, packed>>
        /\ PublishIncl(t) \/ AnnouncePrefix(t) => UNCHANGED <<lbLaunch, packed>>
    BY Zenon DEF Dispatch, PublishAgg, AnnounceAgg, PublishIncl, AnnouncePrefix
  <2> QED
    BY <1>4, <2>1, <2>2 DEF WarpStep
<1>5. UNCHANGED lbVars => UNCHANGED <<lbLaunch, packed>>
  BY DEF lbVars
<1> QED
  BY Zenon, <1>1, <1>2, <1>3, <1>4, <1>5 DEF LbNext

\* The look-back kernel implements the exclusive scan: for any number of
\* blocks, tiles, lanes and launches, every block is packed once, at the sum of
\* the costs of the blocks before it, in any interleaving of the lanes' reads
\* with the other tiles' writes.
THEOREM LookBackImplementsScan == LbSpec => LookBackIsScan
<1>1. LbInit => LbScan!ScanInit
  BY DEF LbInit, LbScan!ScanInit
<1>2. LbInv /\ [LbNext]_lbVars => [LbScan!ScanNext]_(LbScan!scanVars)
  BY LbStepsImplement
<1> QED
  BY <1>1, <1>2, LookBackInvariant, PTL DEF LbSpec, LookBackIsScan, LbScan!ScanSpec

-----------------------------------------------------------------------------
(***************************************************************************)
(* Bins and codes.                                                         *)
(***************************************************************************)

\* Quotient and remainder.
LEMMA Division ==
    ASSUME NEW x \in Int, NEW d \in Nat \ {0}
    PROVE  /\ x \div d \in Int /\ x % d \in 0..d-1
           /\ x = (x \div d) * d + (x % d)
OBVIOUS

\* Rounding to the nearest bin is off by at most the error bound.
LEMMA RoundingError ==
    ASSUME NEW x \in Int
    PROVE  /\ QuantRound(x) \in Int
           /\ QuantRound(x) * Step - x \in -Eb..Eb
<1> DEFINE lo == x \div Step
           r == x % Step
<1>1. Step \in Nat \ {0} /\ Step = 2 * Eb /\ Eb \in Nat \ {0}
  BY QuantizerAssumption DEF Step
<1> HIDE DEF Step
<1>2. lo \in Int /\ r \in 0..Step-1 /\ x = lo * Step + r
  BY <1>1, Division
<1>3. QuantRound(x) = CASE 2 * r < Step -> lo
                        [] 2 * r > Step -> lo + 1
                        [] OTHER -> IF lo % 2 = 0 THEN lo ELSE lo + 1
  BY DEF QuantRound
<1> HIDE DEF lo, r
<1>4. lo * Step \in Int /\ (lo + 1) * Step = lo * Step + Step
  BY <1>1, <1>2
<1>5. CASE 2 * r < Step
  <2>1. QuantRound(x) = lo
    BY <1>1, <1>2, <1>3, <1>5
  <2> QED
    BY <1>1, <1>2, <1>4, <1>5, <2>1
<1>6. CASE 2 * r > Step
  <2>1. QuantRound(x) = lo + 1
    BY <1>1, <1>2, <1>3, <1>6
  <2> QED
    BY <1>1, <1>2, <1>4, <1>6, <2>1
<1>7. CASE 2 * r = Step
  <2>1. QuantRound(x) = lo \/ QuantRound(x) = lo + 1
    BY <1>1, <1>2, <1>3, <1>7
  <2> QED
    BY <1>1, <1>2, <1>4, <1>7, <2>1
<1> QED
  BY <1>1, <1>2, <1>5, <1>6, <1>7

\* Half the codes are negative bins; a radius is at most that half.
LEMMA RangeFacts ==
    /\ HalfRange \in Nat \ {0} /\ CodeRange = 2 * HalfRange
    /\ Radius \in Nat \ {0} /\ Radius <= HalfRange
  BY QuantizerAssumption DEF HalfRange, CodeRange

\* Two's complement restores every bin the code type can hold.
LEMMA TwosRestores ==
    ASSUME NEW q \in Int, FitsCode(q)
    PROVE  FromTwos(ToTwos(q)) = q
<1>1. q >= -HalfRange /\ q < HalfRange
  BY DEF FitsCode
<1>2. CASE q >= 0
  <2>1. ToTwos(q) = q
    BY <1>1, <1>2, RangeFacts DEF ToTwos
  <2> QED
    BY <1>1, <2>1, RangeFacts DEF FromTwos
<1>3. CASE q < 0
  <2>1. ToTwos(q) = q + CodeRange
    BY <1>1, <1>3, RangeFacts DEF ToTwos
  <2> QED
    BY <1>1, <1>3, <2>1, RangeFacts DEF FromTwos
<1> QED
  BY <1>2, <1>3

\* Zigzag restores every bin within the radius; its code is below twice the
\* radius, so the modulus never wraps.
LEMMA ZigzagRestores ==
    ASSUME NEW q \in Int, -Radius < q, q < Radius
    PROVE  /\ ZigzagEncode(q) \in 0..2 * Radius - 1
           /\ ZigzagDecode(ZigzagEncode(q)) = q
<1> DEFINE u == IF q >= 0 THEN 2 * q ELSE -2 * q - 1
<1>1. u \in 0..2 * Radius - 1
  BY RangeFacts
<1>2. u % CodeRange = u
  BY <1>1, RangeFacts
<1>3. ZigzagEncode(q) = u
  BY <1>2 DEF ZigzagEncode
<1>4. ZigzagDecode(u) = q
  BY DEF ZigzagDecode
<1> QED
  BY <1>1, <1>3, <1>4

-----------------------------------------------------------------------------
(***************************************************************************)
(* The inductive invariant.                                                *)
(***************************************************************************)

\* The outliers whose thread has got a slot in this call.
Claimed == {i \in QOutliers : qPc[i] # "start"}

QTypeOK ==
    /\ qConf \in QConfigs
    /\ qIn \in QInputs \cup QSecondInputs
    /\ qPhase \in {"kernel", "decode", "refused", "decoded"}
    /\ qPc \in [Elements -> {"start", "claimed", "done"}]
    /\ slotOf \in [Elements -> Nat]
    /\ codes \in [Elements -> Int]
    /\ DOMAIN outlierVals = 0..qConf.max-1 /\ DOMAIN outlierIdxs = 0..qConf.max-1
    /\ outlierCount \in Nat

\* The counter counts the claims; claimed slots are below it and distinct; a
\* thread that is done has written its slot, and nobody wrote it again.
SlotsInv ==
    /\ outlierCount = Cardinality(Claimed)
    /\ \A i \in Elements : qPc[i] = "claimed" => i \in QOutliers
    /\ \A i \in Claimed : slotOf[i] < outlierCount
    /\ \A i, j \in Claimed : slotOf[i] = slotOf[j] => i = j
    /\ \A i \in Claimed : qPc[i] = "done" /\ slotOf[i] < qConf.max =>
          outlierIdxs[slotOf[i]] = i /\ outlierVals[slotOf[i]] = qIn[i]

\* The code of an element that is no outlier.
EncodedAs(i) ==
    LET q == QuantRound(qIn[i])
    IN  IF Split THEN EncodeBin(q)
        ELSE IF qConf.mode = "inplace"
        THEN IF InRadius(qIn[i]) THEN ZigzagEncode(q) ELSE RawBase + qIn[i]
        ELSE IF FitsCode(q) THEN ToTwos(q) ELSE 0

CodesInv ==
    \A i \in Elements \ QOutliers : qPc[i] = "done" => codes[i] = EncodedAs(i)

\* The flag is raised by an element of this call, and by every one that must.
FlagInv ==
    /\ linearOverflow => \E i \in Elements : ~FitsCode(QuantRound(qIn[i]))
    /\ qConf.mode = "linear" =>
          \A i \in Elements : qPc[i] = "done" /\ ~FitsCode(QuantRound(qIn[i])) => linearOverflow

PhaseInv ==
    /\ qPhase # "kernel" => \A i \in Elements : qPc[i] = "done"
    /\ qPhase = "refused" => OverflowRefused
    /\ qPhase \in {"decode", "decoded"} =>
          /\ ~OverflowRefused
          /\ Split => actualOutlierCount = RecordedCount(outlierCount)
    /\ qPhase = "decoded" => qOut = Scattered([i \in Elements |-> Dequantized(i)])

QInv == QTypeOK /\ SlotsInv /\ CodesInv /\ FlagInv /\ PhaseInv

-----------------------------------------------------------------------------
(***************************************************************************)
(* The steps.                                                              *)
(***************************************************************************)

\* Parts of the set of elements are finite.
LEMMA FiniteElements ==
    ASSUME NEW S \in SUBSET Elements
    PROVE  IsFiniteSet(S) /\ Cardinality(S) \in Nat
  BY QuantizerAssumption, FS_Subset, FS_CardinalityType

\* The lanes that claim together get the ranks 0, 1, ... in the order of lanes.
LEMMA RankFacts ==
    ASSUME NEW S \in SUBSET Elements
    PROVE  /\ \A i \in S : RankBelow(S, i) \in 0..Cardinality(S)-1
           /\ \A i, j \in S : RankBelow(S, i) = RankBelow(S, j) => i = j
<1>1. S \subseteq Int
  BY QuantizerAssumption
<1>2. ASSUME NEW i \in S
      PROVE  RankBelow(S, i) \in 0..Cardinality(S)-1
  <2> DEFINE P == {j \in S : j < i}
  <2>1. P \in SUBSET S /\ i \notin P
    BY <1>1
  <2>2. P # S
    BY <2>1
  <2> HIDE DEF P
  <2>3. Cardinality(P) \in Nat /\ Cardinality(S) \in Nat
    BY <2>1, FiniteElements
  <2>4. Cardinality(P) <= Cardinality(S) /\ (Cardinality(S) = Cardinality(P) => S = P)
    BY <2>1, FiniteElements, FS_Subset
  <2> QED
    BY <2>2, <2>3, <2>4 DEF RankBelow, P
<1>3. ASSUME NEW i \in S, NEW j \in S, i < j
      PROVE  RankBelow(S, i) # RankBelow(S, j)
  <2> DEFINE P == {k \in S : k < i}
             Q == {k \in S : k < j}
  <2>4. i \in Int /\ j \in Int /\ ~(i < i) /\ \A k \in S : k < i => k < j
    BY <1>1, <1>3
  <2>1. P \in SUBSET Q /\ Q \in SUBSET S /\ i \in Q /\ i \notin P
    BY <1>3, <2>4, Zenon
  <2> HIDE DEF P, Q
  <2>2. Cardinality(Q) = Cardinality(P) => Q = P
    BY <2>1, FiniteElements, FS_Subset
  <2> QED
    BY <2>1, <2>2 DEF RankBelow, P, Q
<1>4. \A i, j \in S : i < j \/ j < i \/ i = j
  BY <1>1
<1> QED
  BY <1>2, <1>3, <1>4

\* Which elements are outliers depends on the configuration and the input only.
LEMMA OutliersFixed ==
    ASSUME UNCHANGED <<qConf, qIn>>
    PROVE  /\ QOutliers' = QOutliers /\ Split' = Split
           /\ \A i : EncodedAs(i)' = EncodedAs(i)
  BY DEF QOutliers, Split, Representable, InRadius, DitherFits, DitherOf, EncodedAs, EncodeBin

\* A call starts with no claim and no code.
LEMMA FreshCall ==
    ASSUME qPc = [i \in Elements |-> "start"], outlierCount = 0, linearOverflow = FALSE
    PROVE  SlotsInv /\ CodesInv /\ FlagInv
<1>1. Claimed = {}
  BY DEF Claimed, QOutliers
<1>2. Cardinality({}) = 0
  BY FS_EmptySet
<1> QED
  BY <1>1, <1>2 DEF SlotsInv, CodesInv, FlagInv

LEMMA QInvInit == QInit => QInv
<1> SUFFICES ASSUME QInit
             PROVE  QInv
  OBVIOUS
<1>1. QTypeOK
  BY DEF QInit, QTypeOK
<1>2. PhaseInv
  BY DEF QInit, PhaseInv
<1> QED
  BY <1>1, <1>2, FreshCall DEF QInit, QInv

\* A thread writes the code of its element.
LEMMA EncodePreserves ==
    ASSUME QInv, NEW i \in Elements, EncodeElement(i)
    PROVE  QInv'
<1>1. /\ qPhase = "kernel" /\ qPc[i] = "start" /\ qPc' = [qPc EXCEPT ![i] = "done"]
      /\ UNCHANGED <<qConf, qIn, qCall, qPhase, slotOf, outlierVals, outlierIdxs,
                     outlierCount, actualOutlierCount, qOut>>
  BY DEF EncodeElement
<1>2. /\ QOutliers' = QOutliers /\ Split' = Split
      /\ \A j : EncodedAs(j)' = EncodedAs(j)
  BY <1>1, OutliersFixed
<1>3. qConf \in QConfigSet /\ qIn \in [Elements -> Int]
  BY QuantizerAssumption DEF QInv, QTypeOK
<1>4. qConf.mode \in {"split", "fused", "inplace", "linear"}
  BY <1>3 DEF QConfigSet
<1>5. Split => Representable(i)
  BY <1>4 DEF EncodeElement, Split
<1>6. i \notin QOutliers
  BY <1>5 DEF QOutliers
<1>7. codes' = [codes EXCEPT ![i] = EncodedAs(i)]
  BY <1>4 DEF EncodeElement, EncodedAs, Split
<1>8. /\ qConf.mode # "linear" => linearOverflow' = linearOverflow
      /\ qConf.mode = "linear" =>
           linearOverflow' = (linearOverflow \/ ~FitsCode(QuantRound(qIn[i])))
  BY <1>4 DEF EncodeElement, Split
<1>9. EncodedAs(i) \in Int
  <2>1. QuantRound(qIn[i]) \in Int
    BY <1>3, RoundingError
  <2>2. \A q \in Int : ToTwos(q) \in Int /\ ZigzagEncode(q) \in Int
    BY RangeFacts DEF ToTwos, ZigzagEncode
  <2>3. RawBase + qIn[i] \in Int
    BY <1>3, QuantizerAssumption
  <2> QED
    BY <2>1, <2>2, <2>3 DEF EncodedAs, EncodeBin
<1>10. QTypeOK'
  BY <1>1, <1>7, <1>9 DEF QInv, QTypeOK
<1>11. Claimed' = Claimed
  BY <1>1, <1>2, <1>6 DEF Claimed, QOutliers, QInv, QTypeOK
<1>12. SlotsInv'
  <2>1. /\ SlotsInv /\ Claimed \subseteq QOutliers /\ QOutliers \subseteq Elements
        /\ qPc \in [Elements -> {"start", "claimed", "done"}]
    BY DEF QInv, QTypeOK, Claimed, QOutliers
  <2>2. \A j \in Elements : j # i => qPc'[j] = qPc[j]
    BY <1>1, <2>1
  <2>3. qPc'[i] = "done"
    BY <1>1, <2>1
  <2>4. \A j \in Claimed : qPc'[j] = qPc[j]
    BY <1>6, <2>1, <2>2
  <2>5. \A j \in Elements : qPc'[j] = "claimed" => j \in QOutliers'
    BY <1>2, <2>1, <2>2, <2>3 DEF SlotsInv
  <2> QED
    BY <1>1, <1>11, <2>1, <2>4, <2>5 DEF SlotsInv
<1>13. CodesInv'
  BY <1>1, <1>2, <1>7 DEF CodesInv, QInv, QTypeOK
<1>14. FlagInv'
  <2>1. CASE qConf.mode = "linear"
    BY <1>1, <1>8, <2>1 DEF FlagInv, QInv, QTypeOK
  <2>2. CASE qConf.mode # "linear"
    BY <1>1, <1>8, <2>2 DEF FlagInv, QInv, QTypeOK
  <2> QED
    BY <2>1, <2>2
<1>15. PhaseInv'
  BY <1>1 DEF PhaseInv
<1> QED
  BY <1>10, <1>12, <1>13, <1>14, <1>15 DEF QInv

\* Lanes of a warp, or one thread, take the next slots.
LEMMA ClaimPreserves ==
    ASSUME QInv, NEW S \in SUBSET Elements, ClaimSlots(S)
    PROVE  QInv'
<1>1. /\ qPhase = "kernel" /\ Split
      /\ \A i \in S : qPc[i] = "start" /\ ~Representable(i)
      /\ codes' = [i \in Elements |-> IF i \in S THEN 0 ELSE codes[i]]
      /\ slotOf' = [i \in Elements |->
                      IF i \in S THEN outlierCount + RankBelow(S, i) ELSE slotOf[i]]
      /\ outlierCount' = outlierCount + Cardinality(S)
      /\ qPc' = [i \in Elements |-> IF i \in S THEN "claimed" ELSE qPc[i]]
      /\ UNCHANGED <<qConf, qIn, qCall, qPhase, outlierVals, outlierIdxs,
                     linearOverflow, actualOutlierCount, qOut>>
  BY DEF ClaimSlots
<1>2. /\ QOutliers' = QOutliers /\ Split' = Split
      /\ \A j : EncodedAs(j)' = EncodedAs(j)
  BY <1>1, OutliersFixed
<1>3. S \subseteq QOutliers /\ QOutliers \subseteq Elements
  BY <1>1 DEF QOutliers
<1>4. QTypeOK /\ SlotsInv /\ CodesInv /\ FlagInv
  BY DEF QInv
<1>5. Claimed' = Claimed \cup S /\ Claimed \cap S = {} /\ Claimed \in SUBSET Elements
  BY <1>1, <1>2, <1>3, <1>4 DEF Claimed, QTypeOK
<1>6. IsFiniteSet(S) /\ Cardinality(S) \in Nat /\ IsFiniteSet(Claimed) /\ Cardinality(Claimed) \in Nat
  BY <1>5, FiniteElements
<1>7. Cardinality(Claimed') = Cardinality(Claimed) + Cardinality(S)
  <2>1. Cardinality(Claimed \cup S)
           = Cardinality(Claimed) + Cardinality(S) - Cardinality(Claimed \cap S)
    BY <1>6, FS_Union
  <2>2. Cardinality(Claimed \cap S) = 0
    BY <1>5, FS_EmptySet
  <2> QED
    BY <1>5, <1>6, <2>1, <2>2
<1>8. \A i \in S : RankBelow(S, i) \in 0..Cardinality(S)-1
  BY RankFacts
<1>9. QTypeOK'
  BY <1>1, <1>4, <1>6, <1>8 DEF QTypeOK
<1>10. SlotsInv'
  <2>1. outlierCount' = Cardinality(Claimed')
    BY <1>1, <1>4, <1>7 DEF SlotsInv
  <2>2. \A i \in Elements : qPc'[i] = "claimed" => i \in QOutliers'
    BY <1>1, <1>2, <1>3, <1>4 DEF SlotsInv
  <2>3. \A i \in Claimed' : slotOf'[i] < outlierCount'
    BY <1>1, <1>4, <1>5, <1>6, <1>8 DEF SlotsInv, QTypeOK
  <2>4. ASSUME NEW i \in Claimed', NEW j \in Claimed', slotOf'[i] = slotOf'[j]
        PROVE  i = j
    <3>1. CASE i \in S /\ j \in S
      <4>1. RankBelow(S, i) = RankBelow(S, j)
        BY <1>1, <1>4, <1>8, <2>4, <3>1 DEF QTypeOK
      <4> QED
        BY <3>1, <4>1, RankFacts
    <3>2. CASE i \in S /\ j \notin S
      BY <1>1, <1>4, <1>5, <1>6, <1>8, <2>4, <3>2 DEF SlotsInv, QTypeOK
    <3>3. CASE i \notin S /\ j \in S
      BY <1>1, <1>4, <1>5, <1>6, <1>8, <2>4, <3>3 DEF SlotsInv, QTypeOK
    <3>4. CASE i \notin S /\ j \notin S
      BY <1>1, <1>4, <1>5, <2>4, <3>4 DEF SlotsInv
    <3> QED
      BY <3>1, <3>2, <3>3, <3>4
  <2>5. \A i \in Claimed' : qPc'[i] = "done" /\ slotOf'[i] < qConf'.max =>
           outlierIdxs'[slotOf'[i]] = i /\ outlierVals'[slotOf'[i]] = qIn'[i]
    BY <1>1, <1>4, <1>5 DEF SlotsInv
  <2> QED
    BY <2>1, <2>2, <2>3, <2>4, <2>5 DEF SlotsInv
<1>11. CodesInv'
  BY <1>1, <1>2, <1>3, <1>4 DEF CodesInv
<1>12. FlagInv'
  BY <1>1, <1>4 DEF FlagInv, Split
<1>13. PhaseInv'
  BY <1>1 DEF PhaseInv
<1> QED
  BY <1>9, <1>10, <1>11, <1>12, <1>13 DEF QInv

\* The claimed slot is written; a slot has one owner, so no other is touched.
LEMMA WritePreserves ==
    ASSUME QInv, NEW i \in Elements, WriteOutlier(i)
    PROVE  QInv'
<1>1. /\ qPhase = "kernel" /\ qPc[i] = "claimed" /\ qPc' = [qPc EXCEPT ![i] = "done"]
      /\ outlierVals' = [s \in DOMAIN outlierVals |->
                           IF s = slotOf[i] THEN qIn[i] ELSE outlierVals[s]]
      /\ outlierIdxs' = [s \in DOMAIN outlierIdxs |->
                           IF s = slotOf[i] THEN i ELSE outlierIdxs[s]]
      /\ UNCHANGED <<qConf, qIn, qCall, qPhase, slotOf, codes, outlierCount,
                     linearOverflow, actualOutlierCount, qOut>>
  BY DEF WriteOutlier
<1>2. /\ QOutliers' = QOutliers /\ Split' = Split
      /\ \A j : EncodedAs(j)' = EncodedAs(j)
  BY <1>1, OutliersFixed
<1>3. QTypeOK /\ SlotsInv /\ CodesInv /\ FlagInv /\ qConf \in QConfigSet
  BY QuantizerAssumption DEF QInv, QTypeOK
<1>4. i \in QOutliers /\ i \in Claimed
  BY <1>1, <1>3 DEF SlotsInv, Claimed
<1>5. Claimed' = Claimed
  BY <1>1, <1>2, <1>3, <1>4 DEF Claimed, QTypeOK
<1>6. QTypeOK'
  BY <1>1, <1>3 DEF QTypeOK
<1>7. SlotsInv'
  <2>1. ASSUME NEW j \in Claimed, qPc'[j] = "done", slotOf[j] < qConf.max
        PROVE  outlierIdxs'[slotOf[j]] = j /\ outlierVals'[slotOf[j]] = qIn[j]
    <3>1. slotOf[j] \in 0..qConf.max-1
      BY <1>3, <2>1 DEF QTypeOK, QConfigSet, Claimed, QOutliers
    <3>2. CASE j = i
      BY <1>1, <1>3, <3>1, <3>2 DEF QTypeOK
    <3>3. CASE j # i
      <4>1. slotOf[j] # slotOf[i] /\ qPc[j] = "done"
        BY <1>1, <1>3, <1>4, <2>1, <3>3 DEF SlotsInv, QTypeOK, Claimed, QOutliers
      <4> QED
        BY <1>1, <1>3, <2>1, <3>1, <4>1 DEF SlotsInv, QTypeOK
    <3> QED
      BY <3>2, <3>3
  <2>2. \A j \in Elements : qPc'[j] = "claimed" => j \in QOutliers'
    BY <1>1, <1>2, <1>3 DEF SlotsInv, QTypeOK
  <2> QED
    BY <1>1, <1>3, <1>5, <2>1, <2>2 DEF SlotsInv
<1>8. CodesInv'
  BY <1>1, <1>2, <1>3, <1>4 DEF CodesInv, QTypeOK
<1>9. FlagInv'
  <2>1. qConf.mode # "linear"
    BY <1>4 DEF QOutliers, Split
  <2> QED
    BY <1>1, <1>3, <2>1 DEF FlagInv
<1>10. PhaseInv'
  BY <1>1 DEF PhaseInv
<1> QED
  BY <1>6, <1>7, <1>8, <1>9, <1>10 DEF QInv

\* The host reads the counter and accepts the call.
LEMMA SyncPreserves ==
    ASSUME QInv, PostStreamSync \/ PostStreamSyncThrows
    PROVE  QInv'
<1>1. /\ qPhase = "kernel" /\ \A i \in Elements : qPc[i] = "done"
      /\ UNCHANGED <<qConf, qIn, qCall, qPc, slotOf, codes, outlierVals, outlierIdxs,
                     outlierCount, linearOverflow, qOut>>
      /\ qPhase' \in {"decode", "refused"}
      /\ qPhase' = "refused" => OverflowRefused
      /\ qPhase' = "decode" =>
            ~OverflowRefused /\ (Split => actualOutlierCount' = RecordedCount(outlierCount))
  BY DEF PostStreamSync, PostStreamSyncThrows, KernelOver
<1>2. /\ QOutliers' = QOutliers /\ Split' = Split
      /\ \A j : EncodedAs(j)' = EncodedAs(j)
  BY <1>1, OutliersFixed
<1>3. OverflowRefused' = OverflowRefused /\ RecordedCount(outlierCount)' = RecordedCount(outlierCount)
  BY <1>1, <1>2 DEF OverflowRefused, RecordedCount
<1>4. PhaseInv'
  BY <1>1, <1>2, <1>3 DEF PhaseInv
<1>5. Claimed' = Claimed
  BY <1>1, <1>2 DEF Claimed
<1>6. QTypeOK' /\ SlotsInv' /\ CodesInv' /\ FlagInv'
  BY <1>1, <1>2, <1>5 DEF QInv, QTypeOK, SlotsInv, CodesInv, FlagInv
<1> QED
  BY <1>4, <1>6 DEF QInv

\* The inverse only reads.
LEMMA InversePreserves ==
    ASSUME QInv, InverseExecute
    PROVE  QInv'
<1>1. /\ qPhase = "decode" /\ qPhase' = "decoded"
      /\ qOut' = Scattered([i \in Elements |-> Dequantized(i)])
      /\ UNCHANGED <<qConf, qIn, qCall, qPc, slotOf, codes, outlierVals, outlierIdxs,
                     outlierCount, linearOverflow, actualOutlierCount>>
  BY DEF InverseExecute
<1>2. /\ QOutliers' = QOutliers /\ Split' = Split
      /\ \A j : EncodedAs(j)' = EncodedAs(j)
  BY <1>1, OutliersFixed
<1>3. OverflowRefused' = OverflowRefused /\ RecordedCount(outlierCount)' = RecordedCount(outlierCount)
  BY <1>1, <1>2 DEF OverflowRefused, RecordedCount
<1>4. Scattered([i \in Elements |-> Dequantized(i)])' = Scattered([i \in Elements |-> Dequantized(i)])
  BY <1>1, <1>2 DEF Scattered, Dequantized, DecodeBin, DitherOf
<1>5. PhaseInv'
  BY <1>1, <1>2, <1>3, <1>4 DEF QInv, PhaseInv
<1>6. Claimed' = Claimed
  BY <1>1, <1>2 DEF Claimed
<1>7. QTypeOK' /\ SlotsInv' /\ CodesInv' /\ FlagInv'
  BY <1>1, <1>2, <1>6 DEF QInv, QTypeOK, SlotsInv, CodesInv, FlagInv
<1> QED
  BY <1>5, <1>7 DEF QInv

\* The next call: everything this proof rests on is of the new call, although
\* the lists and the recorded count keep their values.
LEMMA NextCallFresh ==
    ASSUME QInv, NextCompress
    PROVE  QInv'
<1>1. /\ qPc' = [i \in Elements |-> "start"] /\ outlierCount' = 0 /\ linearOverflow' = FALSE
      /\ qPhase' = "kernel" /\ qIn' \in QSecondInputs
      /\ UNCHANGED <<qConf, slotOf, codes, outlierVals, outlierIdxs, actualOutlierCount, qOut>>
  BY DEF NextCompress, CountBeforeLaunch
<1>2. SlotsInv' /\ CodesInv' /\ FlagInv'
  <2>1. Claimed' = {}
    BY <1>1 DEF Claimed, QOutliers
  <2>2. Cardinality({}) = 0
    BY FS_EmptySet
  <2> QED
    BY <1>1, <2>1, <2>2 DEF SlotsInv, CodesInv, FlagInv
<1>3. QTypeOK'
  BY <1>1 DEF QInv, QTypeOK
<1>4. PhaseInv'
  BY <1>1 DEF PhaseInv
<1> QED
  BY <1>2, <1>3, <1>4 DEF QInv

\* A step that changes nothing.
LEMMA QStutter ==
    ASSUME QInv, UNCHANGED qVars
    PROVE  QInv'
<1>1. UNCHANGED <<qConf, qIn, qCall, qPhase, qPc, slotOf, codes, outlierVals, outlierIdxs,
                  outlierCount, linearOverflow, actualOutlierCount, qOut>>
  BY DEF qVars
<1>2. /\ QOutliers' = QOutliers /\ Split' = Split
      /\ \A j : EncodedAs(j)' = EncodedAs(j)
  BY <1>1, OutliersFixed
<1>3. OverflowRefused' = OverflowRefused /\ RecordedCount(outlierCount)' = RecordedCount(outlierCount)
  BY <1>1, <1>2 DEF OverflowRefused, RecordedCount
<1>4. Scattered([i \in Elements |-> Dequantized(i)])' = Scattered([i \in Elements |-> Dequantized(i)])
  BY <1>1, <1>2 DEF Scattered, Dequantized, DecodeBin, DitherOf
<1>5. PhaseInv'
  BY <1>1, <1>2, <1>3, <1>4 DEF QInv, PhaseInv
<1>6. Claimed' = Claimed
  BY <1>1, <1>2 DEF Claimed
<1>7. QTypeOK' /\ SlotsInv' /\ CodesInv' /\ FlagInv'
  BY <1>1, <1>2, <1>6 DEF QInv, QTypeOK, SlotsInv, CodesInv, FlagInv
<1> QED
  BY <1>5, <1>7 DEF QInv

\* Slots, codes and flag are of the running call, in every interleaving of the
\* threads and in the calls after an accepted or a refused one.
THEOREM QuantizerInvariant == QSpec => []QInv
<1>1. QInv /\ [QNext]_qVars => QInv'
  <2> SUFFICES ASSUME QInv, [QNext]_qVars
               PROVE  QInv'
    OBVIOUS
  <2>1. ASSUME NEW i \in Elements, ClaimStaged(i)
        PROVE  QInv'
    BY <2>1, ClaimPreserves DEF ClaimStaged
  <2>2. ASSUME NEW S \in SUBSET Elements, ClaimFused(S)
        PROVE  QInv'
    BY <2>2, ClaimPreserves DEF ClaimFused
  <2> QED
    BY <2>1, <2>2, EncodePreserves, WritePreserves, SyncPreserves, InversePreserves,
       NextCallFresh, QStutter DEF QNext
<1> QED
  BY <1>1, QInvInit, PTL DEF QSpec

-----------------------------------------------------------------------------
(***************************************************************************)
(* The properties.                                                         *)
(***************************************************************************)

\* When every thread is done, the slots in use are exactly those below the
\* counter, each written by the outlier that owns it.
LEMMA SlotsFilled ==
    ASSUME QInv, \A i \in Elements : qPc[i] = "done",
           NEW s \in Nat, s < outlierCount, s < qConf.max
    PROVE  \E i \in QOutliers : outlierIdxs[s] = i /\ outlierVals[s] = qIn[i] /\ slotOf[i] = s
<1> DEFINE f == [i \in Claimed |-> slotOf[i]]
           T == 0..outlierCount-1
<1>1. SlotsInv /\ outlierCount \in Nat /\ Claimed \in SUBSET Elements /\ slotOf \in [Elements -> Nat]
  BY DEF QInv, QTypeOK, Claimed, QOutliers
<1>2. f \in [Claimed -> T] /\ \A i, j \in Claimed : f[i] = f[j] => i = j
  BY <1>1 DEF SlotsInv
<1>3. f \in Injection(Claimed, T)
  BY <1>2 DEF Injection, IsInjective
<1>4. IsFiniteSet(T) /\ Cardinality(T) = outlierCount
  BY <1>1, FS_Interval
<1>5. Cardinality(Claimed) = Cardinality(T)
  BY <1>1, <1>4 DEF SlotsInv
<1>6. f \in Surjection(Claimed, T)
  BY <1>3, <1>4, <1>5, FS_Injection
<1>7. PICK i \in Claimed : f[i] = s
  <2>1. s \in T
    BY <1>1
  <2> HIDE DEF f, T
  <2> QED
    BY <1>6, <2>1 DEF Surjection
<1>8. slotOf[i] = s /\ qPc[i] = "done" /\ i \in QOutliers
  BY <1>1, <1>7 DEF Claimed
<1> QED
  BY <1>1, <1>7, <1>8 DEF SlotsInv

\* An accepted call: the inverse scatters only slots this call has written.
THEOREM RecordedSlotsCorrect == QSpec => []RecordedSlotsWritten
<1>1. QInv => RecordedSlotsWritten
  <2> SUFFICES ASSUME QInv, qPhase \in {"decode", "decoded"}, Split,
                      NEW s \in 0..actualOutlierCount-1
               PROVE  outlierIdxs[s] \in QOutliers
    BY DEF RecordedSlotsWritten
  <2>1. /\ actualOutlierCount = RecordedCount(outlierCount) /\ outlierCount \in Nat
        /\ \A i \in Elements : qPc[i] = "done"
    BY DEF QInv, PhaseInv, QTypeOK
  <2>2. qConf.max \in Nat
    BY QuantizerAssumption DEF QInv, QTypeOK, QConfigSet
  <2>3. s \in Nat /\ s < outlierCount /\ s < qConf.max
    BY <2>1, <2>2 DEF RecordedCount
  <2> QED
    BY <2>1, <2>3, SlotsFilled
<1> QED
  BY <1>1, QuantizerInvariant, PTL

\* A refused call has more outliers of its own than the list holds, or a bin of
\* its own that the code type cannot hold.
THEOREM RefusalsCorrect == QSpec => []RefusedForCause
<1>1. QInv => RefusedForCause
  <2> SUFFICES ASSUME QInv, qPhase = "refused"
               PROVE  \/ Cardinality(QOutliers) > qConf.max
                      \/ qConf.mode = "linear" /\ \E i \in Elements : ~FitsCode(QuantRound(qIn[i]))
    BY DEF RefusedForCause
  <2>1. OverflowRefused /\ \A i \in Elements : qPc[i] = "done"
    BY DEF QInv, PhaseInv
  <2>2. CASE qConf.mode = "linear" /\ linearOverflow
    BY <2>2 DEF QInv, FlagInv
  <2>3. CASE outlierCount > qConf.max
    <3>1. Claimed = QOutliers
      BY <2>1 DEF Claimed, QOutliers
    <3> QED
      BY <2>3, <3>1 DEF QInv, SlotsInv
  <2> QED
    BY <2>1, <2>2, <2>3 DEF OverflowRefused
<1> QED
  BY <1>1, QuantizerInvariant, PTL

\* What the inverse kernels make of the code of an element that is no outlier.
LEMMA CodeError ==
    ASSUME QInv, qPhase = "decoded", NEW i \in Elements \ QOutliers
    PROVE  AbsVal(Dequantized(i) - qIn[i]) <= Eb
<1> DEFINE x == qIn[i]
           q == QuantRound(x)
<1>1. /\ x \in Int /\ RawBase + x >= 2 * Radius /\ RawBase \in Int /\ Eb \in Nat \ {0}
      /\ qConf \in QConfigSet
  BY QuantizerAssumption DEF QInv, QTypeOK
<1>2. qConf.mode \in {"split", "fused", "inplace", "linear"} /\ qConf.dither \in BOOLEAN
  BY <1>1 DEF QConfigSet
<1>3. codes[i] = EncodedAs(i) /\ qPc[i] = "done"
  BY DEF QInv, PhaseInv, CodesInv
<1>4. q \in Int /\ q * Step - x \in -Eb..Eb /\ q * Step \in Int
  BY <1>1, RoundingError, QuantizerAssumption DEF Step
<1>5. AbsVal(q * Step - x) <= Eb
  BY <1>1, <1>4 DEF AbsVal
<1>6. CASE Split
  <2>1. Representable(i)
    BY <1>6 DEF QOutliers
  <2>2. -Radius < q /\ q < Radius
    BY <1>1, <1>4, <2>1, RangeFacts DEF Representable, InRadius
  <2>3. FitsCode(q)
    BY <1>4, <2>2, RangeFacts DEF FitsCode
  <2>4. DecodeBin(codes[i]) = q
    BY <1>3, <1>4, <1>6, <2>2, <2>3, TwosRestores, ZigzagRestores
       DEF EncodedAs, EncodeBin, DecodeBin
  <2>5. Dequantized(i) = q * Step + DitherOf(i)
    BY <1>6, <2>4 DEF Dequantized, Split
  <2>6. CASE qConf.dither
    <3>1. AbsVal(x - (q * Step + DitherOf(i))) <= Eb
      BY <2>1, <2>6 DEF Representable, DitherFits
    <3>2. DitherOf(i) \in Int
      BY <2>6, QuantizerAssumption DEF DitherOf
    <3> QED
      BY <1>1, <1>4, <2>5, <3>1, <3>2 DEF AbsVal
  <2>7. CASE ~qConf.dither
    BY <1>4, <1>5, <2>5, <2>7 DEF DitherOf
  <2> QED
    BY <2>6, <2>7
<1>7. CASE qConf.mode = "inplace"
  <2>1. ~Split
    BY <1>7 DEF Split
  <2>2. CASE InRadius(x)
    <3>1. -Radius < q /\ q < Radius
      BY <1>1, <1>4, <2>2, RangeFacts DEF InRadius
    <3>2. codes[i] = ZigzagEncode(q)
      BY <1>3, <1>7, <2>1, <2>2 DEF EncodedAs
    <3>3. codes[i] \in 0..2 * Radius - 1 /\ ZigzagDecode(codes[i]) = q
      BY <1>4, <3>1, <3>2, ZigzagRestores
    <3>4. ~(codes[i] \div 2 >= Radius)
      BY <3>3, RangeFacts
    <3>5. Dequantized(i) = q * Step
      BY <1>7, <2>1, <3>3, <3>4 DEF Dequantized
    <3> QED
      BY <1>5, <3>5
  <2>3. CASE ~InRadius(x)
    <3>1. codes[i] = RawBase + x
      BY <1>3, <1>7, <2>1, <2>3 DEF EncodedAs
    <3>2. codes[i] \div 2 >= Radius
      BY <1>1, <3>1, RangeFacts
    <3>3. Dequantized(i) = x
      BY <1>1, <1>7, <2>1, <3>1, <3>2 DEF Dequantized
    <3> QED
      BY <1>1, <3>3 DEF AbsVal
  <2> QED
    BY <2>2, <2>3
<1>8. CASE qConf.mode = "linear"
  <2>1. ~Split /\ qConf.mode # "inplace"
    BY <1>8 DEF Split
  <2>2. ~linearOverflow
    BY <1>8 DEF QInv, PhaseInv, OverflowRefused
  <2>3. FitsCode(q)
    BY <1>3, <1>8, <2>2 DEF QInv, FlagInv
  <2>4. codes[i] = ToTwos(q)
    BY <1>3, <2>1, <2>3 DEF EncodedAs
  <2>5. Dequantized(i) = q * Step
    BY <1>4, <1>8, <2>1, <2>3, <2>4, TwosRestores DEF Dequantized
  <2> QED
    BY <1>5, <2>5
<1> QED
  BY <1>2, <1>6, <1>7, <1>8 DEF Split

\* An accepted call keeps the error bound on every element and reproduces every
\* outlier, unless outlier_capacity is 0.
THEOREM ErrorBoundCorrect == QSpec => []ErrorBounded
<1>1. QInv => ErrorBounded
  <2> SUFFICES ASSUME QInv, qPhase = "decoded", NEW i \in Elements
               PROVE  \/ AbsVal(qOut[i] - qIn[i]) <= (IF i \in QOutliers THEN 0 ELSE Eb)
                      \/ qConf.optOut /\ i \in QOutliers
    BY DEF ErrorBounded
  <2>1. /\ qOut[i] = IF Split /\ \E s \in 0..actualOutlierCount-1 : outlierIdxs[s] = i
                     THEN outlierVals[CHOOSE s \in 0..actualOutlierCount-1 : outlierIdxs[s] = i]
                     ELSE Dequantized(i)
        /\ \A j \in Elements : qPc[j] = "done"
        /\ Split => actualOutlierCount = RecordedCount(outlierCount)
        /\ ~OverflowRefused
        /\ outlierCount \in Nat
    BY DEF QInv, PhaseInv, Scattered, QTypeOK
  <2>2. qConf.max \in Nat /\ qIn[i] \in Int
    BY QuantizerAssumption DEF QInv, QTypeOK, QConfigSet
  <2>3. ASSUME Split, NEW s \in 0..actualOutlierCount-1, outlierIdxs[s] = i
        PROVE  i \in QOutliers /\ outlierVals[s] = qIn[i]
    <3>1. s \in Nat /\ s < outlierCount /\ s < qConf.max
      BY <2>1, <2>2, <2>3 DEF RecordedCount
    <3> QED
      BY <2>1, <2>3, <3>1, SlotsFilled
  <2>4. CASE i \notin QOutliers
    <3>1. qOut[i] = Dequantized(i)
      BY <2>1, <2>3, <2>4
    <3> QED
      BY <2>4, <3>1, CodeError
  <2>5. CASE i \in QOutliers /\ ~qConf.optOut
    <3>1. Split
      BY <2>5 DEF QOutliers
    <3>2. outlierCount <= qConf.max
      BY <2>1, <2>2, <2>5, <3>1 DEF OverflowRefused
    <3>3. i \in Claimed
      BY <2>1, <2>5 DEF Claimed, QOutliers
    <3>4. slotOf[i] \in 0..actualOutlierCount-1 /\ slotOf[i] < qConf.max
      BY <2>1, <2>2, <3>1, <3>2, <3>3 DEF QInv, SlotsInv, QTypeOK, RecordedCount
    <3>5. outlierIdxs[slotOf[i]] = i
      BY <2>1, <3>3, <3>4 DEF QInv, SlotsInv
    <3>6. qOut[i] = qIn[i]
      BY <2>1, <2>3, <3>1, <3>4, <3>5
    <3> QED
      BY <2>2, <2>5, <3>6 DEF AbsVal
  <2> QED
    BY <2>4, <2>5
<1> QED
  BY <1>1, QuantizerInvariant, PTL

-----------------------------------------------------------------------------
(***************************************************************************)
(* ADM's signals.                                                          *)
(***************************************************************************)

\* Multiples of a positive number are in the order of their factors.
LEMMA Multiples ==
    ASSUME NEW a \in Int, NEW b \in Int, NEW d \in Nat \ {0}
    PROVE  /\ a <= b => a * d <= b * d
           /\ a * d < b * d => a < b
           /\ a < b => a * d + d <= b * d
<1>1. ASSUME NEW e \in Nat, b = a + e PROVE a * d <= b * d
  <2>1. b * d = a * d + e * d
    BY <1>1
  <2>2. e * d \in Nat /\ a * d \in Int
    OBVIOUS
  <2> QED
    BY <2>1, <2>2
<1>2. ASSUME a <= b PROVE a * d <= b * d
  <2>1. b - a \in Nat /\ b = a + (b - a)
    BY <1>2
  <2> QED
    BY <1>1, <2>1
<1>3. ASSUME NEW e \in Nat, a = b + e PROVE b * d <= a * d
  <2>1. a * d = b * d + e * d
    BY <1>3
  <2>2. e * d \in Nat /\ b * d \in Int
    OBVIOUS
  <2> QED
    BY <2>1, <2>2
<1>4. ASSUME a * d < b * d PROVE a < b
  <2> SUFFICES ASSUME ~(a < b) PROVE FALSE
    OBVIOUS
  <2>1. a - b \in Nat /\ a = b + (a - b)
    OBVIOUS
  <2>2. b * d <= a * d
    BY <1>3, <2>1
  <2>3. a * d \in Int /\ b * d \in Int
    OBVIOUS
  <2> QED
    BY <1>4, <2>2, <2>3
<1>5. ASSUME NEW e \in Nat, b = (a + 1) + e PROVE a * d + d <= b * d
  <2>1. b * d = (a * d + d) + e * d
    BY <1>5
  <2>2. e * d \in Nat /\ a * d + d \in Int
    OBVIOUS
  <2> QED
    BY <2>1, <2>2
<1>6. ASSUME a < b PROVE a * d + d <= b * d
  <2>1. b - (a + 1) \in Nat /\ b = (a + 1) + (b - (a + 1))
    BY <1>6
  <2> QED
    BY <1>5, <2>1
<1> QED
  BY <1>2, <1>4, <1>6

\* Quotient and remainder are unique.
LEMMA Quotient ==
    ASSUME NEW x \in Int, NEW d \in Nat \ {0}, NEW q \in Int, NEW r \in 0..(d - 1), x = q * d + r
    PROVE  x \div d = q /\ x % d = r
<1> DEFINE z == x \div d
           s == x % d
<1>1. z \in Int /\ s \in 0..(d - 1) /\ x = z * d + s
  BY Division
<1> HIDE DEF z, s
<1>2. z * d \in Int /\ q * d \in Int /\ d \in Int
  BY <1>1
<1>3. ~(z < q)
  <2> SUFFICES ASSUME z < q PROVE FALSE
    OBVIOUS
  <2>1. z * d + d <= q * d
    BY <1>1, Multiples
  <2> QED
    BY <1>1, <1>2, <2>1
<1>4. ~(q < z)
  <2> SUFFICES ASSUME q < z PROVE FALSE
    OBVIOUS
  <2>1. q * d + d <= z * d
    BY <1>1, Multiples
  <2> QED
    BY <1>1, <1>2, <2>1
<1>5. z = q
  BY <1>1, <1>3, <1>4
<1>6. s = r
  BY <1>1, <1>2, <1>5
<1> QED
  BY <1>5, <1>6 DEF z, s

\* Rounding up to a multiple.
LEMMA RoundedUp ==
    ASSUME NEW x \in Nat, NEW d \in Nat \ {0}
    PROVE  /\ (x + d - 1) \div d \in Nat
           /\ x <= ((x + d - 1) \div d) * d /\ ((x + d - 1) \div d) * d <= x + d - 1
           /\ \A m \in Nat : x <= m * d => (x + d - 1) \div d <= m
           /\ \A m \in Int : m * d < x => m < (x + d - 1) \div d
<1> DEFINE y == x + d - 1
           q == y \div d
           r == y % d
<1>1. y \in Nat
  OBVIOUS
<1>2. q \in Int /\ r \in 0..(d - 1) /\ y = q * d + r
  BY <1>1, Division
<1> HIDE DEF q, r
<1>3. q * d \in Int /\ x <= q * d /\ q * d <= y
  BY <1>2
<1>4. q \in Nat
  <2> SUFFICES ASSUME q < 0 PROVE FALSE
    BY <1>2
  <2>1. q * d + d <= 0 * d
    BY <1>2, Multiples
  <2> QED
    BY <1>2, <1>3, <2>1
<1>5. ASSUME NEW m \in Nat, x <= m * d PROVE q <= m
  <2>1. m * d \in Int /\ (m + 1) * d = m * d + d /\ d \in Int
    OBVIOUS
  <2>2. q * d < (m + 1) * d
    BY <1>3, <1>5, <2>1
  <2>3. q < m + 1
    BY <1>2, <2>2, Multiples
  <2> QED
    BY <1>2, <2>3
<1>6. ASSUME NEW m \in Int, m * d < x PROVE m < q
  <2>1. m * d \in Int
    OBVIOUS
  <2>2. m * d < q * d
    BY <1>3, <1>6, <2>1
  <2> QED
    BY <1>2, <2>2, Multiples
<1> QED
  BY <1>3, <1>4, <1>5, <1>6 DEF q

\* off gives where the signals of the values a..n begin, and where the last one ends.
Offsets(off, a, n) ==
    /\ \A j \in a..(n + 1) : off[j] \in Nat
    /\ \A j \in a..n : off[j] < off[j + 1]

\* Later signals begin further on.
LEMMA OffsetsIncrease ==
    ASSUME NEW off, NEW a \in Nat, NEW n \in Nat, Offsets(off, a, n),
           NEW i \in a..(n + 1), NEW j \in a..(n + 1), i < j
    PROVE  off[i] < off[j]
<1> DEFINE T == {k \in Nat : k >= 1 => off[i] < off[i + k]}
           m == j - i
<1>1. m \in Nat /\ i + m = j /\ m >= 1
  OBVIOUS
<1>2. 0 \in T
  OBVIOUS
<1>3. ASSUME NEW k \in 1..m, k - 1 \in T PROVE k \in T
  <2>1. i + (k - 1) \in a..n /\ (i + (k - 1)) + 1 = i + k /\ i + k \in a..(n + 1)
    BY <1>1
  <2>2. off[i + (k - 1)] < off[i + k]
    BY <2>1 DEF Offsets
  <2>3. off[i] \in Int /\ off[i + k] \in Int /\ off[i + (k - 1)] \in Int
    <3>1. i + (k - 1) \in a..(n + 1)
      BY <2>1
    <3> QED
      BY <2>1, <3>1 DEF Offsets
  <2>4. CASE k = 1
    BY <2>2, <2>4
  <2>5. CASE k # 1
    <3>1. k - 1 >= 1 /\ k - 1 \in Nat
      BY <2>5
    <3>2. off[i] < off[i + (k - 1)]
      BY <1>3, <3>1
    <3> QED
      BY <2>2, <2>3, <3>2
  <2> QED
    BY <2>4, <2>5
<1> HIDE DEF T
<1>4. \A k \in 0..m : k \in T
  <2>1. \A k \in 1..m : k - 1 \in T => k \in T
    BY <1>3
  <2> HIDE DEF m
  <2> QED
    BY <1>1, <1>2, <2>1, CountUp
<1>5. m \in T
  BY <1>1, <1>4
<1> QED
  BY <1>1, <1>5 DEF T

\* The places of the 1s of the values a..i.
Marks(off, a, i) == {off[j] + 1 : j \in a..i}

\* Different values have different places.
LEMMA MarksCount ==
    ASSUME NEW off, NEW a \in Nat, NEW n \in Nat, Offsets(off, a, n), NEW i \in (a - 1)..(n + 1)
    PROVE  IsFiniteSet(Marks(off, a, i)) /\ Cardinality(Marks(off, a, i)) = (i - a) + 1
<1> DEFINE M(k) == Marks(off, a, (a + k) - 1)
           T == {k \in Nat : IsFiniteSet(M(k)) /\ Cardinality(M(k)) = k}
           m == (i - a) + 1
<1>1. m \in Nat /\ (a + m) - 1 = i
  OBVIOUS
<1>2. 0 \in T
  <2>1. M(0) = {}
    BY DEF Marks
  <2> QED
    BY <2>1, FS_EmptySet
<1>3. ASSUME NEW k \in 1..m, k - 1 \in T PROVE k \in T
  <2> DEFINE j == (a + k) - 1
             S == M(k - 1)
  <2>1. j \in a..(n + 1) /\ (a + (k - 1)) - 1 = j - 1 /\ j \in Int
    BY <1>1
  <2>2. M(k) = Marks(off, a, j) /\ S = Marks(off, a, j - 1)
    BY <2>1
  <2>3. a..j = (a..(j - 1)) \cup {j}
    BY <2>1
  <2> HIDE DEF j
  <2>4. M(k) = S \cup {off[j] + 1}
    BY <2>2, <2>3 DEF Marks
  <2>5. off[j] + 1 \notin S
    <3> SUFFICES ASSUME NEW h \in a..(j - 1), off[h] + 1 = off[j] + 1 PROVE FALSE
      BY <2>2 DEF Marks
    <3>1. h \in a..(n + 1) /\ h < j
      BY <2>1
    <3>2. off[h] < off[j]
      BY <2>1, <3>1, OffsetsIncrease
    <3>3. off[h] \in Int /\ off[j] \in Int
      BY <2>1, <3>1 DEF Offsets
    <3> QED
      BY <3>2, <3>3
  <2>6. IsFiniteSet(S) /\ Cardinality(S) = k - 1
    BY <1>3
  <2> HIDE DEF S, M
  <2>7. IsFiniteSet(S \cup {off[j] + 1}) /\ Cardinality(S \cup {off[j] + 1}) = Cardinality(S) + 1
    BY <2>5, <2>6, FS_AddElement
  <2>8. Cardinality(M(k)) = k /\ IsFiniteSet(M(k))
    BY <2>4, <2>6, <2>7
  <2> QED
    BY <2>8
<1> HIDE DEF T
<1>4. \A k \in 0..m : k \in T
  <2>1. \A k \in 1..m : k - 1 \in T => k \in T
    BY <1>3
  <2> HIDE DEF m
  <2> QED
    BY <1>1, <1>2, <2>1, CountUp
<1>5. m \in T
  BY <1>1, <1>4
<1> QED
  BY <1>1, <1>5 DEF T

\* bits holds len bits: a 1 where a signal begins, 0s up to the next one, and a 1
\* behind the last signal if it goes on.
UnaryBits(bits, len, off, a, n) ==
    /\ off[n + 1] <= len /\ DOMAIN bits = 1..len
    /\ \A b \in 1..len : bits[b] \in {0, 1}
    /\ \A b \in 1..len : b - 1 < off[n + 1] => (bits[b] = 1 <=> \E j \in a..n : off[j] = b - 1)
    /\ off[n + 1] < len => bits[off[n + 1] + 1] = 1

\* What the decoder counts behind the 1 of value i.
SignalIs(bits, off, a, i) ==
    SignalOf(bits, (i - a) + 1) = ((off[i + 1] - off[i]) - 1) % CounterRange

\* The decoder finds value i of a..n: between its 1 and the next one there are
\* as many 0s as its signal has bits, less one.
LEMMA UnarySignal ==
    ASSUME NEW off, NEW a \in Nat, NEW n \in Nat, Offsets(off, a, n), NEW i \in a..n,
           NEW len \in Nat, NEW bits, UnaryBits(bits, len, off, a, n)
    PROVE  SignalIs(bits, off, a, i)
<1> USE DEF UnaryBits
<1> DEFINE Ones(b) == {x \in 1..b : bits[x] = 1}
           k == (i - a) + 1
           Zeros == {b \in DOMAIN bits : bits[b] = 0 /\ Cardinality(Ones(b)) = k}
<1>1. /\ i \in a..(n + 1) /\ i + 1 \in a..(n + 1) /\ n + 1 \in a..(n + 1) /\ k \in Nat
      /\ i - 1 \in (a - 1)..(n + 1) /\ i \in (a - 1)..(n + 1) /\ i + 1 \in (a - 1)..(n + 1)
  OBVIOUS
<1>2. off[i] \in Nat /\ off[i + 1] \in Nat /\ off[n + 1] \in Nat /\ off[i] < off[i + 1]
  BY <1>1 DEF Offsets
<1>3. ASSUME NEW j \in a..(n + 1) PROVE off[j] \in Nat /\ off[j] <= off[n + 1]
  <2>1. off[j] \in Nat
    BY DEF Offsets
  <2>2. CASE j = n + 1
    BY <2>1, <2>2
  <2>3. CASE j # n + 1
    <3>1. off[j] < off[n + 1]
      BY <1>1, <2>3, OffsetsIncrease
    <3> QED
      BY <1>2, <2>1, <3>1
  <2> QED
    BY <2>2, <2>3
\* The 1s in front of the end of the last value.
<1>4. ASSUME NEW j \in a..n PROVE off[j] + 1 \in 1..len /\ bits[off[j] + 1] = 1
  <2>1. j \in a..(n + 1) /\ n + 1 \in a..(n + 1) /\ j < n + 1
    OBVIOUS
  <2>2. off[j] < off[n + 1]
    BY <2>1, OffsetsIncrease
  <2>3. off[j] \in Nat
    BY <1>3, <2>1
  <2>4. off[j] + 1 \in 1..len /\ (off[j] + 1) - 1 = off[j]
    BY <1>2, <2>2, <2>3
  <2> QED
    BY <2>2, <2>4
\* The 1s up to place b, when it lies between the signals of two values.
<1>5. ASSUME NEW b \in 1..len, NEW h \in (a - 1)..n, b - 1 < off[h + 1]
      PROVE  Ones(b) \subseteq Marks(off, a, h)
  <2> SUFFICES ASSUME NEW x \in 1..b, bits[x] = 1 PROVE x \in Marks(off, a, h)
    OBVIOUS
  <2>1. h + 1 \in a..(n + 1)
    OBVIOUS
  <2>2. off[h + 1] \in Nat /\ off[h + 1] <= off[n + 1]
    BY <1>3, <2>1
  <2>3. x \in 1..len /\ x - 1 < off[n + 1] /\ x - 1 < off[h + 1]
    BY <1>2, <1>5, <2>2
  <2>4. PICK j \in a..n : off[j] = x - 1
    BY <2>3
  <2>5. j <= h
    <3> SUFFICES ASSUME h + 1 <= j PROVE FALSE
      OBVIOUS
    <3>1. j \in a..(n + 1) /\ off[j] \in Nat
      BY <1>3
    <3>2. CASE h + 1 = j
      <4>1. x - 1 < x - 1 /\ x - 1 \in Int
        BY <2>3, <2>4, <3>2
      <4> QED
        BY <4>1
    <3>3. CASE h + 1 < j
      <4>1. off[h + 1] < off[j]
        BY <2>1, <3>1, <3>3, OffsetsIncrease
      <4> QED
        BY <2>2, <2>3, <2>4, <3>1, <4>1
    <3> QED
      BY <3>2, <3>3
  <2>6. j \in a..h /\ x = off[j] + 1
    BY <2>4, <2>5
  <2> QED
    BY <2>6 DEF Marks
<1>6. ASSUME NEW b \in 1..len PROVE IsFiniteSet(Ones(b)) /\ Cardinality(Ones(b)) \in Nat
  <2>1. Ones(b) \subseteq 1..b /\ IsFiniteSet(1..b)
    <3>1. 1 \in Int /\ b \in Int
      OBVIOUS
    <3> QED
      BY <3>1, FS_Interval
  <2> HIDE DEF Ones
  <2> QED
    BY <2>1, FS_Subset, FS_CardinalityType
<1>7. /\ Cardinality(Marks(off, a, i - 1)) = k - 1 /\ IsFiniteSet(Marks(off, a, i - 1))
      /\ Cardinality(Marks(off, a, i)) = k /\ IsFiniteSet(Marks(off, a, i))
      /\ Cardinality(Marks(off, a, i + 1)) = k + 1 /\ IsFiniteSet(Marks(off, a, i + 1))
  <2>1. ((i - 1) - a) + 1 = k - 1 /\ ((i + 1) - a) + 1 = k + 1
    OBVIOUS
  <2> QED
    BY <1>1, <2>1, MarksCount
<1>8. ASSUME NEW b \in 1..len, off[i] < b - 1, b - 1 < off[i + 1]
      PROVE  bits[b] = 0 /\ Cardinality(Ones(b)) = k
  <2>1. Ones(b) \subseteq Marks(off, a, i)
    BY <1>1, <1>5, <1>8
  <2>2. Marks(off, a, i) \subseteq Ones(b)
    <3> SUFFICES ASSUME NEW j \in a..i PROVE off[j] + 1 \in Ones(b)
      BY DEF Marks
    <3>1. j \in a..n /\ j \in a..(n + 1)
      OBVIOUS
    <3>2. off[j] + 1 \in 1..len /\ bits[off[j] + 1] = 1 /\ off[j] \in Nat
      BY <1>3, <1>4, <3>1
    <3>3. off[j] <= off[i]
      <4>1. CASE j = i
        BY <1>2, <4>1
      <4>2. CASE j # i
        <5>1. j < i
          BY <4>2
        <5>2. off[j] < off[i]
          BY <1>1, <3>1, <5>1, OffsetsIncrease
        <5> QED
          BY <1>2, <3>2, <5>2
      <4> QED
        BY <4>1, <4>2
    <3>4. off[j] + 1 \in 1..b
      BY <1>2, <1>8, <3>2, <3>3
    <3> QED
      BY <3>2, <3>4
  <2>3. Ones(b) = Marks(off, a, i)
    BY <2>1, <2>2
  <2>4. b \notin Marks(off, a, i)
    <3> SUFFICES ASSUME NEW j \in a..i, b = off[j] + 1 PROVE FALSE
      BY DEF Marks
    <3>1. j \in a..(n + 1) /\ off[j] \in Nat
      BY <1>3
    <3>2. CASE j = i
      BY <1>2, <1>8, <3>2
    <3>3. CASE j < i
      <4>1. off[j] < off[i]
        BY <1>1, <3>1, <3>3, OffsetsIncrease
      <4> QED
        BY <1>2, <1>8, <3>1, <4>1
    <3> QED
      BY <3>2, <3>3
  <2>5. bits[b] # 1
    BY <2>3, <2>4
  <2> QED
    BY <1>7, <2>3, <2>5
<1>9. ASSUME NEW b \in 1..len, bits[b] = 0, Cardinality(Ones(b)) = k
      PROVE  off[i] < b - 1 /\ b - 1 < off[i + 1]
  <2>1. ~(b - 1 < off[i])
    <3> SUFFICES ASSUME b - 1 < off[i] PROVE FALSE
      OBVIOUS
    <3>1. i - 1 \in (a - 1)..n /\ (i - 1) + 1 = i
      OBVIOUS
    <3>2. Ones(b) \subseteq Marks(off, a, i - 1)
      BY <1>5, <3>1
    <3> HIDE DEF Ones
    <3>3. Cardinality(Ones(b)) <= k - 1
      BY <1>7, <3>2, FS_Subset
    <3> QED
      BY <1>1, <1>9, <3>3
  <2>2. b - 1 # off[i]
    <3>1. bits[off[i] + 1] = 1
      BY <1>4
    <3> QED
      BY <1>2, <1>9, <3>1
  <2>3. ~(off[i + 1] <= b - 1)
    <3> SUFFICES ASSUME off[i + 1] <= b - 1 PROVE FALSE
      OBVIOUS
    <3>1. Marks(off, a, i + 1) \subseteq Ones(b)
      <4> SUFFICES ASSUME NEW j \in a..(i + 1) PROVE off[j] + 1 \in Ones(b)
        BY DEF Marks
      <4>1. j \in a..(n + 1) /\ off[j] \in Nat
        BY <1>3
      <4>2. off[j] <= off[i + 1]
        <5>1. CASE j = i + 1
          BY <1>2, <5>1
        <5>2. CASE j < i + 1
          <6>1. off[j] < off[i + 1]
            BY <1>1, <4>1, <5>2, OffsetsIncrease
          <6> QED
            BY <1>2, <4>1, <6>1
        <5> QED
          BY <5>1, <5>2
      <4>3. off[j] + 1 \in 1..b
        <5> DEFINE x == off[j]
                   y == off[i + 1]
        <5>1. x \in Nat /\ y \in Nat /\ x <= y /\ y <= b - 1 /\ b \in Nat
          BY <1>2, <4>1, <4>2
        <5> HIDE DEF x, y, UnaryBits
        <5>2. x + 1 \in 1..b
          BY <5>1
        <5> QED
          BY <5>2 DEF x
      <4>4. bits[off[j] + 1] = 1
        <5>1. CASE j \in a..n
          BY <1>4, <5>1
        <5>2. CASE j = n + 1
          <6>1. off[n + 1] < len
            BY <1>2, <4>3, <5>2
          <6> QED
            BY <5>2, <6>1
        <5> QED
          BY <4>1, <5>1, <5>2
      <4> QED
        BY <4>3, <4>4
    <3> HIDE DEF Ones
    <3>2. k + 1 <= Cardinality(Ones(b))
      BY <1>6, <1>7, <3>1, FS_Subset
    <3> QED
      BY <1>1, <1>9, <3>2
  <2> DEFINE x == off[i]
             y == off[i + 1]
             z == b - 1
  <2>4. x \in Int /\ y \in Int /\ z \in Int /\ ~(z < x) /\ z # x /\ ~(y <= z)
    BY <1>2, <2>1, <2>2, <2>3
  <2> HIDE DEF x, y, z
  <2>5. x < z /\ z < y
    BY <2>4
  <2> QED
    BY <2>5 DEF x, y, z
<1>10. Zeros = (off[i] + 2)..off[i + 1]
  <2>1. ASSUME NEW b \in Zeros PROVE b \in (off[i] + 2)..off[i + 1]
    <3>1. b \in 1..len /\ bits[b] = 0 /\ Cardinality(Ones(b)) = k
      OBVIOUS
    <3>2. off[i] < b - 1 /\ b - 1 < off[i + 1]
      BY <1>9, <3>1
    <3>3. b \in Int
      BY <3>1
    <3> DEFINE x == off[i]
               y == off[i + 1]
    <3>4. x \in Nat /\ y \in Nat /\ x < b - 1 /\ b - 1 < y
      BY <1>2, <3>2
    <3> HIDE DEF Zeros, UnaryBits, x, y
    <3>5. b \in (x + 2)..y
      BY <3>3, <3>4
    <3> QED
      BY <3>5 DEF x, y
  <2>2. ASSUME NEW b \in (off[i] + 2)..off[i + 1] PROVE b \in Zeros
    <3>1. off[i + 1] <= off[n + 1]
      BY <1>1, <1>3
    <3>2. b \in 1..len /\ off[i] < b - 1 /\ b - 1 < off[i + 1]
      BY <1>2, <3>1
    <3> QED
      BY <1>8, <3>2
  <2> HIDE DEF Zeros
  <2> QED
    BY <2>1, <2>2
<1>11. Cardinality(Zeros) = (off[i + 1] - off[i]) - 1
  <2> DEFINE lo == off[i] + 2
             hi == off[i + 1]
  <2>1. lo \in Int /\ hi \in Int /\ lo <= hi + 1
    BY <1>2
  <2> HIDE DEF lo, hi
  <2>2. Cardinality(lo..hi) = IF lo > hi THEN 0 ELSE hi - lo + 1
    BY <2>1, FS_Interval
  <2>3. Cardinality(lo..hi) = (hi - lo) + 1
    BY <2>1, <2>2
  <2>4. (hi - lo) + 1 = (off[i + 1] - off[i]) - 1
    BY <1>2 DEF lo, hi
  <2>5. Zeros = lo..hi
    BY <1>10 DEF lo, hi
  <2> QED
    BY <2>3, <2>4, <2>5
<1>12. SignalOf(bits, k) = Cardinality(Zeros) % CounterRange
  BY DEF SignalOf
<1> HIDE DEF Zeros
<1>13. SignalOf(bits, (i - a) + 1) = SignalOf(bits, k)
  OBVIOUS
<1> QED
  BY <1>11, <1>12, <1>13 DEF SignalIs

-----------------------------------------------------------------------------
(* The ADM stage. *)

\* What a call works on: never changed by it.
AmTypes ==
    /\ amIn \in Seq(Nat)
    /\ amTail \in Seq(Nat) /\ Len(amTail) >= AdmChunk

\* The sizes are positive, and so is the number of values of a warp.
LEMMA AdmConstants ==
    /\ DiffStep \in Nat \ {0} /\ AdmChunk \in Nat \ {0} /\ AdmLanes \in Nat \ {0}
    /\ ByteBits \in Nat \ {0} /\ CounterRange \in Nat \ {0} /\ SumRange \in Nat \ {0}
    /\ WarpElems \in Nat \ {0} /\ WarpElems = AdmLanes * AdmChunk
<1>1. /\ DiffStep \in Nat \ {0} /\ AdmChunk \in Nat \ {0} /\ AdmLanes \in Nat \ {0}
      /\ ByteBits \in Nat \ {0} /\ CounterRange \in Nat \ {0} /\ SumRange \in Nat \ {0}
  BY AdmMapAssumption
<1>2. WarpElems \in Nat \ {0} /\ WarpElems = AdmLanes * AdmChunk
  <2>1. 0 * AdmChunk < AdmLanes * AdmChunk
    <3>1. 0 * AdmChunk + AdmChunk <= AdmLanes * AdmChunk
      BY <1>1, Multiples
    <3>2. AdmLanes * AdmChunk \in Int /\ 0 * AdmChunk = 0
      BY <1>1
    <3> QED
      BY <1>1, <3>1, <3>2
  <2> QED
    BY <1>1, <2>1 DEF WarpElems
<1> QED
  BY <1>1, <1>2

\* The last vector read stays within a lane's worth of values behind the input.
LEMMA ReadWithinTail ==
    ASSUME AmTypes
    PROVE  /\ ReadEnd \in Nat /\ Len(amIn) \in Nat /\ Len(amIn) <= ReadEnd
           /\ \A i \in 1..ReadEnd : Value(i) \in Nat
           /\ \A i \in 1..Len(amIn) : Value(i) = amIn[i]
<1> DEFINE V == VectorElems
           N == Len(amIn)
<1>1. V \in Nat \ {0} /\ V <= AdmChunk
  <2> DEFINE h == AdmChunk \div (IF amWidth = 16 THEN 2 ELSE 4)
             S == {1, h}
  <2>1. h \in 0..AdmChunk
    <3>1. CASE amWidth = 16
      BY <3>1, AdmConstants
    <3>2. CASE amWidth # 16
      BY <3>2, AdmConstants
    <3> QED
      BY <3>1, <3>2
  <2> HIDE DEF h
  <2>2. S # {} /\ S \subseteq 0..AdmChunk /\ AdmChunk \in Nat
    BY <2>1, AdmConstants
  <2>3. V = Max(S)
    BY DEF VectorElems, h
  <2>4. Max(S) \in S /\ \A x \in S : x <= Max(S)
    <3> HIDE DEF S
    <3> QED
      BY <2>2, MaxOfBounded
  <2>5. Max(S) \in 0..AdmChunk /\ 1 <= Max(S)
    BY <2>2, <2>4
  <2> QED
    BY <2>3, <2>5
<1>2. N \in Nat
  BY DEF AmTypes
<1> HIDE DEF V
<1>3. ReadEnd = ((N + V - 1) \div V) * V
  BY DEF ReadEnd, V
<1>4. (N + V - 1) \div V \in Nat /\ N <= ReadEnd /\ ReadEnd <= N + V - 1
  BY <1>1, <1>2, <1>3, RoundedUp
<1>5. ReadEnd \in Nat
  BY <1>1, <1>3, <1>4
<1>6. ASSUME NEW i \in 1..ReadEnd PROVE Value(i) \in Nat
  <2>1. CASE i <= N
    <3>1. i \in 1..Len(amIn)
      BY <1>2, <2>1
    <3> QED
      BY <2>1, <3>1 DEF Value, AmTypes
  <2>2. CASE ~(i <= N)
    <3>1. Len(amTail) \in Nat /\ Len(amTail) >= AdmChunk
      BY DEF AmTypes
    <3>2. i - N \in 1..Len(amTail)
      BY <1>1, <1>2, <1>4, <1>5, <2>2, <3>1, AdmConstants
    <3>3. amTail[i - N] \in Nat
      BY <3>2 DEF AmTypes
    <3> QED
      BY <2>2, <3>3 DEF Value
  <2> QED
    BY <2>1, <2>2
<1>7. \A i \in 1..N : Value(i) = amIn[i]
  BY <1>2 DEF Value
<1> QED
  BY <1>2, <1>4, <1>5, <1>6, <1>7

\* The mean of the warp of a value.
LEMMA CenterNat ==
    ASSUME AmTypes, NEW i \in 1..Len(amIn)
    PROVE  Center(WarpOfElem(i)) \in Nat
<1> DEFINE w == WarpOfElem(i)
           own == {j \in 1..Len(amIn) : WarpOfElem(j) = w}
           card == Cardinality(own)
           sum == Total(amIn, own)
<1>1. Len(amIn) \in Nat /\ \A j \in 1..Len(amIn) : amIn[j] \in Nat
  BY DEF AmTypes
<1>2. IsFiniteSet(own)
  <2>1. own \subseteq 1..Len(amIn) /\ IsFiniteSet(1..Len(amIn))
    BY <1>1, FS_Interval
  <2> HIDE DEF own
  <2> QED
    BY <2>1, FS_Subset
<1>3. i \in own /\ \A j \in own : amIn[j] \in Nat
  BY <1>1
<1>4. Center(w) = (sum % SumRange) \div card
  BY DEF Center, Total
<1> HIDE DEF w, own
<1>5. card \in Nat /\ card # 0
  BY <1>2, <1>3, FS_CardinalityType, FS_EmptySet
<1>6. sum \in Int /\ sum >= 0
  <2>1. \A j \in own : amIn[j] \in Int /\ amIn[j] >= 0
    BY <1>3
  <2> QED
    BY <1>2, <2>1, TotalInt
<1> HIDE DEF card, sum
<1>7. sum % SumRange \in Nat
  BY <1>6, AdmConstants
<1>8. (sum % SumRange) \div card \in Nat
  BY <1>5, <1>7
<1> QED
  BY <1>4, <1>8 DEF w

\* What the decoder makes of a code and of the signal in front of it.
Decode(code, c, signal) ==
    LET diff == code \div 2 + signal * DiffStep
    IN  IF code % 2 = 1 THEN c - diff ELSE c + diff

\* A code and the number of steps behind it give back the value they were made of.
LEMMA CodeRestores ==
    ASSUME NEW i, Value(i) \in Nat, NEW c \in Nat
    PROVE  /\ OutputIdx(i, c) \in Nat \ {0}
           /\ Decode(CodeOf(i, c), c, OutputIdx(i, c) - 1) = Value(i)
<1> DEFINE v == Value(i)
           D == DiffStep
           a == AbsDiff(i, c)
           x == (a + D - 1) \div D
<1>1. v \in Nat /\ D \in Nat \ {0}
  BY AdmConstants
<1>2. CASE v = c
  <2>1. OutputIdx(i, c) = 1 /\ CodeOf(i, c) = 1
    BY <1>2 DEF OutputIdx, CodeOf
  <2>2. 1 \div 2 = 0 /\ 1 % 2 = 1 /\ (1 - 1) * DiffStep = 0
    BY AdmConstants
  <2>3. Decode(1, c, 1 - 1) = c - (0 + 0)
    BY <2>2 DEF Decode
  <2> QED
    BY <1>2, <2>1, <2>3
<1>3. CASE v # c
  <2>1. a \in Nat \ {0} /\ (v > c => a = v - c) /\ (v < c => a = c - v) /\ (v > c \/ v < c)
    BY <1>1, <1>3 DEF AbsDiff
  <2>2. OutputIdx(i, c) = x
    BY <1>3 DEF OutputIdx
  <2> DEFINE r == a + D - x * D
             y == (x - 1) * D
  <2>3. CodeOf(i, c) = IF v > c THEN 2 * r ELSE 2 * r + 1
    <3>1. CASE v > c
      <4>1. ~(v = c) /\ ~(v < c)
        BY <1>1, <3>1
      <4> QED
        BY <2>2, <3>1, <4>1 DEF CodeOf
    <3>2. CASE v < c
      <4>1. ~(v = c) /\ ~(v > c)
        BY <1>1, <3>2
      <4> QED
        BY <2>2, <3>2, <4>1 DEF CodeOf
    <3> QED
      BY <2>1, <3>1, <3>2
  <2> HIDE DEF v, D, a
  <2>4. /\ x \in Nat /\ a <= x * D /\ x * D <= a + D - 1
        /\ \A m \in Int : m * D < a => m < x
    BY <1>1, <2>1, RoundedUp
  <2>5. 0 < x
    <3>1. 0 * D < a
      BY <1>1, <2>1
    <3> QED
      BY <2>4, <3>1
  <2> HIDE DEF x
  <2>6. x * D \in Int /\ y = x * D - D
    BY <1>1, <2>4
  <2>7. r \in Nat /\ r + y = a /\ y \in Int
    BY <1>1, <2>1, <2>4, <2>6
  <2> HIDE DEF r, y
  <2>8. (2 * r) \div 2 = r /\ (2 * r) % 2 = 0 /\ (2 * r + 1) \div 2 = r /\ (2 * r + 1) % 2 = 1
    BY <2>7
  <2>9. Decode(CodeOf(i, c), c, x - 1) = v
    <3>1. CASE v > c
      <4>1. Decode(2 * r, c, x - 1) = c + (r + y)
        BY <2>8 DEF Decode, y, D
      <4> QED
        BY <1>1, <2>1, <2>3, <2>7, <3>1, <4>1
    <3>2. CASE ~(v > c)
      <4>1. Decode(2 * r + 1, c, x - 1) = c - (r + y)
        BY <2>8 DEF Decode, y, D
      <4> QED
        BY <1>1, <2>1, <2>3, <2>7, <3>2, <4>1
    <3> QED
      BY <3>1, <3>2
  <2> QED
    BY <2>2, <2>4, <2>5, <2>9 DEF v
<1> QED
  BY <1>2, <1>3

\* Quotients of naturals, and what has quotient q.
LEMMA QuotientFacts ==
    ASSUME NEW x \in Nat, NEW d \in Nat \ {0}
    PROVE  /\ x \div d \in Nat /\ x % d \in 0..(d - 1)
           /\ x = (x \div d) * d + (x % d)
           /\ \A q \in Nat : x \div d = q <=> x \in (q * d)..(q * d + d - 1)
<1> DEFINE z == x \div d
           s == x % d
<1>1. z \in Int /\ s \in 0..(d - 1) /\ x = z * d + s
  <2>1. x \in Int
    OBVIOUS
  <2> QED
    BY <2>1, Division
<1> HIDE DEF z, s
<1>2. z \in Nat
  <2> SUFFICES ASSUME z < 0 PROVE FALSE
    BY <1>1
  <2>1. z * d + d <= 0 * d
    BY <1>1, Multiples
  <2>2. z * d \in Int
    BY <1>1
  <2> QED
    BY <1>1, <2>1, <2>2
<1>3. ASSUME NEW q \in Nat, z = q PROVE x \in (q * d)..(q * d + d - 1)
  <2>1. q * d \in Int /\ x = q * d + s
    BY <1>1, <1>3
  <2> QED
    BY <1>1, <2>1
<1>4. ASSUME NEW q \in Nat, x \in (q * d)..(q * d + d - 1) PROVE z = q
  <2> DEFINE r == x - q * d
  <2>1. q * d \in Int
    OBVIOUS
  <2>2. r \in 0..(d - 1) /\ x = q * d + r
    BY <1>4, <2>1
  <2> HIDE DEF r
  <2>3. x \div d = q
    BY <2>2, Quotient
  <2> QED
    BY <2>3 DEF z
<1> QED
  BY <1>1, <1>2, <1>3, <1>4 DEF z, s

\* Dividing by a product is dividing twice.
LEMMA TwiceDivided ==
    ASSUME NEW x \in Nat, NEW C \in Nat \ {0}, NEW L \in Nat \ {0}, L * C \in Nat \ {0}
    PROVE  /\ x \div (L * C) = (x \div C) \div L
           /\ (x \div (L * C)) * L + ((x \div C) % L) = x \div C
<1> DEFINE q == x \div C
           r == x % C
           z == q \div L
           l == q % L
           W == L * C
<1>1. q \in Nat /\ r \in 0..(C - 1) /\ x = q * C + r
  BY QuotientFacts
<1> HIDE DEF q, r
<1>2. z \in Nat /\ l \in 0..(L - 1) /\ q = z * L + l
  BY <1>1, QuotientFacts
<1> HIDE DEF z, l
<1>3. x = z * W + (l * C + r)
  <2>1. q * C = (z * L) * C + l * C
    BY <1>2
  <2>2. (z * L) * C = z * W
    BY <1>2
  <2>3. (z * L) * C \in Int /\ l * C \in Int
    BY <1>2
  <2> QED
    BY <1>1, <2>1, <2>2, <2>3
<1>4. l * C + r \in 0..(W - 1)
  <2>1. l * C + C <= L * C
    BY <1>2, Multiples
  <2>2. l * C \in Nat
    BY <1>2
  <2> QED
    BY <1>1, <2>1, <2>2
<1> HIDE DEF W
<1>5. x \div W = z
  <2>1. W \in Nat \ {0} /\ x \in Int /\ z \in Int
    BY <1>2 DEF W
  <2> DEFINE s == l * C + r
  <2>2. s \in 0..(W - 1) /\ x = z * W + s
    BY <1>3, <1>4
  <2> HIDE DEF s
  <2> QED
    BY <2>1, <2>2, Quotient
<1> QED
  BY <1>2, <1>5 DEF W, z, l, q

\* The lane of value i in its warp.
LaneOfElem(i) == ((i - 1) \div AdmChunk) % AdmLanes

\* The values of one lane are an interval, and value i is one of them.
LEMMA LaneInterval ==
    ASSUME AmTypes, NEW i \in 1..Len(amIn)
    PROVE  /\ WarpOfElem(i) \in AdmWarps /\ LaneOfElem(i) \in AdmLaneSet
           /\ \E a \in Nat, n \in Nat :
                 /\ i \in a..n /\ ((i - 1) % AdmChunk) + 1 = (i - a) + 1
                 /\ 1 <= a /\ n <= ReadEnd
                 /\ LaneElems(WarpOfElem(i), LaneOfElem(i)) = a..n
<1> DEFINE x == i - 1
           q == x \div AdmChunk
           r == x % AdmChunk
           z == WarpOfElem(i)
           l == LaneOfElem(i)
           N == Len(amIn)
<1>1. /\ AdmChunk \in Nat \ {0} /\ AdmLanes \in Nat \ {0}
      /\ WarpElems \in Nat \ {0} /\ WarpElems = AdmLanes * AdmChunk
  BY AdmConstants
<1>2. N \in Nat /\ ReadEnd \in Nat /\ N <= ReadEnd /\ x \in Nat /\ x < N /\ i = x + 1
  BY ReadWithinTail DEF AmTypes
<1>3. z = x \div WarpElems /\ l = q % AdmLanes
  BY DEF WarpOfElem, LaneOfElem
<1> HIDE DEF x, z, l
<1>4. q \in Nat /\ r \in 0..(AdmChunk - 1) /\ x = q * AdmChunk + r
  BY <1>1, <1>2, QuotientFacts
<1>5. z * AdmLanes + l = q
  BY <1>1, <1>2, <1>3, TwiceDivided
<1> HIDE DEF q, r
<1>6. l \in 0..(AdmLanes - 1)
  BY <1>1, <1>3, <1>4, QuotientFacts
<1>7. z \in Nat /\ x = z * WarpElems + (x % WarpElems) /\ x % WarpElems \in 0..(WarpElems - 1)
  BY <1>1, <1>2, <1>3, QuotientFacts
<1>8. z * WarpElems < N
  <2>1. z * WarpElems \in Int
    BY <1>1, <1>7
  <2> QED
    BY <1>1, <1>2, <1>7, <2>1
<1>9. (N + WarpElems - 1) \div WarpElems \in Nat /\ z < (N + WarpElems - 1) \div WarpElems
  <2>1. z \in Int
    BY <1>7
  <2> HIDE DEF N
  <2> QED
    BY <1>1, <1>2, <1>8, <2>1, RoundedUp
<1>10. z \in AdmWarps /\ l \in AdmLaneSet
  BY <1>6, <1>7, <1>9 DEF AdmWarps, AdmLaneSet
<1> DEFINE p == q * AdmChunk
           a == p + 1
           n == IF p + AdmChunk <= ReadEnd THEN p + AdmChunk ELSE ReadEnd
<1>11. p \in Nat
  BY <1>1, <1>4
<1>12. ASSUME NEW j \in 1..ReadEnd
       PROVE  (j - 1) \div AdmChunk = q <=> j \in (p + 1)..(p + AdmChunk)
  <2> DEFINE y == j - 1
  <2>1. y \in Nat /\ j = y + 1
    BY <1>2
  <2> HIDE DEF y
  <2>2. y \div AdmChunk = q <=> y \in p..(p + AdmChunk - 1)
    BY <1>1, <1>4, <2>1, QuotientFacts
  <2>3. y \in p..(p + AdmChunk - 1) <=> j \in (p + 1)..(p + AdmChunk)
    <3> HIDE DEF p
    <3> QED
      BY <1>1, <1>11, <2>1
  <2> QED
    BY <2>2, <2>3 DEF y
<1>13. LaneElems(z, l) = {j \in 1..ReadEnd : (j - 1) \div AdmChunk = q}
  BY <1>5 DEF LaneElems
<1> HIDE DEF p
<1>14. LaneElems(z, l) = {j \in 1..ReadEnd : j \in (p + 1)..(p + AdmChunk)}
  BY <1>12, <1>13
<1>15. LaneElems(z, l) = a..n /\ a \in Nat /\ n \in Nat /\ 1 <= a /\ n <= ReadEnd
  BY <1>1, <1>2, <1>11, <1>14
<1>16. i \in a..n /\ r + 1 = (i - a) + 1
  <2>1. x = p + r
    BY <1>4 DEF p
  <2> QED
    BY <1>1, <1>2, <1>4, <1>11, <2>1
<1> HIDE DEF a, n
<1>17. ((i - 1) % AdmChunk) + 1 = (i - a) + 1
  BY <1>16 DEF r, x
<1> QED
  BY <1>10, <1>15, <1>16, <1>17 DEF z, l

\* Where the signals of the values a..n begin, f giving their bits.
StartsOf(f, a, n) == [j \in a..(n + 1) |-> Total(f, a..(j - 1))]

\* They are offsets, each further on than the one before by that signal's bits.
LEMMA RunningOffsets ==
    ASSUME NEW f, NEW a \in Nat, NEW n \in Nat, \A j \in a..n : f[j] \in Nat \ {0}
    PROVE  /\ Offsets(StartsOf(f, a, n), a, n)
           /\ \A j \in a..n : StartsOf(f, a, n)[j + 1] = StartsOf(f, a, n)[j] + f[j]
<1> DEFINE off == StartsOf(f, a, n)
<1>1. ASSUME NEW j \in a..(n + 1) PROVE off[j] = Total(f, a..(j - 1)) /\ off[j] \in Nat
  <2>1. off[j] = Total(f, a..(j - 1))
    BY DEF StartsOf
  <2>2. \A h \in a..(j - 1) : f[h] \in Int /\ f[h] >= 0
    OBVIOUS
  <2> DEFINE D == a..(j - 1)
  <2>3. IsFiniteSet(D)
    BY FS_Interval
  <2> HIDE DEF D
  <2>4. Total(f, D) \in Int /\ Total(f, D) >= 0
    BY <2>2, <2>3, TotalInt DEF D
  <2> QED
    BY <2>1, <2>4 DEF D
<1>2. ASSUME NEW j \in a..n PROVE off[j + 1] = off[j] + f[j]
  <2> DEFINE D == a..(j - 1)
  <2>1. IsFiniteSet(D)
    BY FS_Interval
  <2>2. j \notin D /\ a..((j + 1) - 1) = D \cup {j} /\ \A h \in D \cup {j} : f[h] \in Int
    OBVIOUS
  <2>3. j \in a..(n + 1) /\ j + 1 \in a..(n + 1)
    OBVIOUS
  <2> HIDE DEF off
  <2>4. off[j] = Total(f, D) /\ off[j + 1] = Total(f, D \cup {j}) /\ off[j] \in Int /\ f[j] \in Int
    <3>1. off[j] = Total(f, D) /\ off[j] \in Int
      BY <1>1, <2>3
    <3>2. off[j + 1] = Total(f, a..((j + 1) - 1))
      BY <1>1, <2>3
    <3>3. f[j] \in Int
      OBVIOUS
    <3> HIDE DEF D
    <3> QED
      BY <2>2, <3>1, <3>2, <3>3
  <2> HIDE DEF D
  <2>5. Total(f, D \cup {j}) = f[j] + Total(f, D)
    BY <2>1, <2>2, TotalAdd
  <2> QED
    BY <2>4, <2>5
<1> HIDE DEF off
<1>3. ASSUME NEW j \in a..n PROVE off[j] < off[j + 1]
  <2>1. off[j] \in Nat /\ f[j] \in Nat \ {0} /\ off[j + 1] = off[j] + f[j]
    BY <1>1, <1>2
  <2> QED
    BY <2>1
<1>4. Offsets(off, a, n)
  BY <1>1, <1>3 DEF Offsets
<1> QED
  BY <1>2, <1>4 DEF off

\* The bits of a lane: its values' signals, and a 1 behind the last of them.
LEMMA LaneBitsUnary ==
    ASSUME NEW w, NEW l, NEW a \in Nat, NEW n \in Nat, a <= n, LaneElems(w, l) = a..n,
           \A j \in a..n : SignalBits(w)[j] \in Nat \ {0}
    PROVE  /\ BitOffset(w, LaneElems(w, l)) = StartsOf(SignalBits(w), a, n)[n + 1]
           /\ DOMAIN LaneBits(w, l) = 1..Capacity
           /\ \A b \in 1..Capacity :
                 /\ LaneBits(w, l)[b] \in {0, 1}
                 /\ b - 1 < StartsOf(SignalBits(w), a, n)[n + 1] =>
                       (LaneBits(w, l)[b] = 1
                          <=> \E j \in a..n : StartsOf(SignalBits(w), a, n)[j] = b - 1)
                 /\ b - 1 = StartsOf(SignalBits(w), a, n)[n + 1] => LaneBits(w, l)[b] = 1
<1> DEFINE f == SignalBits(w)
           off == StartsOf(f, a, n)
           own == a..n
           bitOffset == BitOffset(w, own)
           starts == {BitOffset(w, {j \in own : j < i}) : i \in own}
           padded == bitOffset..((bitOffset \div ByteBits + 1) * ByteBits)-1
           bits == [b \in 1..Capacity |-> IF b - 1 \in starts \cup padded THEN 1 ELSE 0]
<1>1. LaneBits(w, l) = bits
  BY Zenon DEF LaneBits
<1>2. \A S : BitOffset(w, S) = Total(f, S)
  BY DEF BitOffset, Total
<1>3. ASSUME NEW i \in a..(n + 1) PROVE off[i] = Total(f, a..(i - 1))
  BY DEF StartsOf
<1>4. bitOffset = off[n + 1]
  <2>1. n + 1 \in a..(n + 1) /\ (n + 1) - 1 = n
    OBVIOUS
  <2> QED
    BY <1>2, <1>3, <2>1
<1>5. ASSUME NEW i \in own PROVE BitOffset(w, {j \in own : j < i}) = off[i]
  <2>1. {j \in own : j < i} = a..(i - 1) /\ i \in a..(n + 1)
    OBVIOUS
  <2> QED
    BY <1>2, <1>3, <2>1
<1>6. off[n + 1] \in Nat
  <2>1. Offsets(off, a, n) /\ n + 1 \in a..(n + 1)
    BY RunningOffsets
  <2> QED
    BY <2>1 DEF Offsets
<1>7. starts = {off[i] : i \in own}
  BY <1>5
<1> HIDE DEF starts, off, bitOffset, own
<1>8. ASSUME NEW x \in Int
      PROVE /\ x < off[n + 1] => x \notin padded
            /\ x = off[n + 1] => x \in padded
  <2> DEFINE u == bitOffset \div ByteBits
             s == bitOffset % ByteBits
  <2>1. ByteBits \in Nat \ {0} /\ bitOffset \in Nat
    BY <1>4, <1>6, AdmConstants
  <2>2. u \in Nat /\ s \in 0..(ByteBits - 1) /\ bitOffset = u * ByteBits + s
    BY <2>1, QuotientFacts
  <2> HIDE DEF u, s
  <2>3. u * ByteBits \in Int /\ (u + 1) * ByteBits = u * ByteBits + ByteBits
    BY <2>1, <2>2
  <2>4. padded = bitOffset..((u + 1) * ByteBits - 1)
    BY DEF u
  <2> HIDE DEF padded
  <2>5. padded = bitOffset..(u * ByteBits + ByteBits - 1)
    <3>1. (u + 1) * ByteBits - 1 = u * ByteBits + ByteBits - 1
      BY <2>1, <2>3
    <3> QED
      BY <2>4, <3>1
  <2>6. bitOffset \in padded /\ \A y \in padded : bitOffset <= y
    BY <2>1, <2>2, <2>3, <2>5
  <2> QED
    BY <1>4, <1>6, <2>6
<1> HIDE DEF padded
<1>9. ASSUME NEW b \in 1..Capacity
      PROVE  /\ bits[b] \in {0, 1}
             /\ b - 1 < off[n + 1] => (bits[b] = 1 <=> \E j \in a..n : off[j] = b - 1)
             /\ b - 1 = off[n + 1] => bits[b] = 1
  <2>1. bits[b] = IF b - 1 \in starts \cup padded THEN 1 ELSE 0
    OBVIOUS
  <2>2. b - 1 \in Int
    OBVIOUS
  <2>3. b - 1 \in starts <=> \E j \in a..n : off[j] = b - 1
    BY <1>7 DEF own
  <2> HIDE DEF bits
  <2> QED
    BY <1>8, <2>1, <2>2, <2>3
<1>10. DOMAIN bits = 1..Capacity
  OBVIOUS
<1> HIDE DEF bits
<1>11. BitOffset(w, LaneElems(w, l)) = off[n + 1]
  BY <1>4 DEF bitOffset, own
<1> QED
  BY <1>1, <1>9, <1>10, <1>11 DEF off

\* Every value that is read has a signal of at least one bit.
LEMMA SignalsPositive ==
    ASSUME AmTypes, NEW w, Center(w) \in Nat
    PROVE  \A j \in 1..ReadEnd : SignalBits(w)[j] = OutputIdx(j, Center(w))
                                 /\ SignalBits(w)[j] \in Nat \ {0}
<1> SUFFICES ASSUME NEW j \in 1..ReadEnd
             PROVE  SignalBits(w)[j] = OutputIdx(j, Center(w)) /\ SignalBits(w)[j] \in Nat \ {0}
  OBVIOUS
<1>1. SignalBits(w)[j] = OutputIdx(j, Center(w))
  BY DEF SignalBits
<1>2. Value(j) \in Nat
  BY ReadWithinTail
<1>3. OutputIdx(j, Center(w)) \in Nat \ {0}
  BY <1>2, CodeRestores
<1> QED
  BY <1>1, <1>3

\* The length stored for a warp holds each of its lanes and stays in the buffer.
LEMMA LengthEnough ==
    ASSUME AmTypes, NEW w \in AdmWarps, Center(w) \in Nat, ~SomeOverflow, NEW l \in AdmLaneSet
    PROVE  /\ LengthOf(w) \in Nat /\ Capacity \in Nat
           /\ BitOffset(w, LaneElems(w, l)) \in Nat
           /\ BitOffset(w, LaneElems(w, l)) <= LengthOf(w) * ByteBits
           /\ LengthOf(w) * ByteBits <= Capacity
<1> DEFINE Bits(h) == BitOffset(w, LaneElems(w, h))
           S == {Bits(h) : h \in AdmLaneSet}
           m == AdmChunk * MaxSignalBytes
<1>1. m \in Nat /\ Capacity = m * ByteBits /\ Capacity \in Nat
  <2>1. MaxSignalBytes \in Nat
    BY DEF MaxSignalBytes
  <2> QED
    BY <2>1, AdmConstants DEF Capacity
<1> HIDE DEF m
<1>2. ASSUME NEW h \in AdmLaneSet PROVE Bits(h) \in 0..Capacity
  <2> DEFINE own == LaneElems(w, h)
             f == SignalBits(w)
  <2>1. own \subseteq 1..ReadEnd
    BY DEF LaneElems
  <2>2. IsFiniteSet(1..ReadEnd)
    BY ReadWithinTail, FS_Interval
  <2>3. Bits(h) = Total(f, own)
    BY DEF BitOffset, Total
  <2>4. \A j \in own : f[j] \in Int /\ f[j] >= 0
    BY <2>1, SignalsPositive
  <2> HIDE DEF own, f
  <2>5. IsFiniteSet(own)
    BY <2>1, <2>2, FS_Subset
  <2>6. Total(f, own) \in Int /\ Total(f, own) >= 0
    BY <2>4, <2>5, TotalInt
  <2>7. ~(Bits(h) > Capacity)
    BY DEF SomeOverflow, Overflows
  <2> HIDE DEF Bits
  <2> QED
    BY <1>1, <2>3, <2>6, <2>7
<1> HIDE DEF Bits
<1>3. S # {} /\ S \subseteq 0..Capacity /\ Bits(l) \in S
  BY <1>2
<1> DEFINE top == Max(S)
<1>4. top \in S /\ \A x \in S : x <= top
  <2> HIDE DEF S
  <2> QED
    BY <1>1, <1>3, MaxOfBounded
<1>5. LengthOf(w) = (top + ByteBits - 1) \div ByteBits
  BY DEF LengthOf, BytesFor, Bits
<1> HIDE DEF S, top
<1>6. top \in Nat /\ top <= m * ByteBits /\ Bits(l) \in Nat /\ Bits(l) <= top
  BY <1>1, <1>2, <1>3, <1>4
<1>7. ByteBits \in Nat \ {0}
  BY AdmConstants
<1>8. LengthOf(w) \in Nat /\ top <= LengthOf(w) * ByteBits /\ LengthOf(w) <= m
  BY <1>1, <1>5, <1>6, <1>7, RoundedUp
<1>9. LengthOf(w) * ByteBits <= m * ByteBits
  BY <1>1, <1>7, <1>8, Multiples
<1>10. LengthOf(w) * ByteBits \in Nat
  BY <1>7, <1>8
<1>11. Bits(l) <= LengthOf(w) * ByteBits
  BY <1>6, <1>8, <1>10
<1> QED
  BY <1>1, <1>6, <1>8, <1>9, <1>11 DEF Bits

\* The decoder restores value i from its code, its warp's mean and the first
\* LengthOf bytes of its lane's signal.
LEMMA ValueDecodes ==
    ASSUME AmTypes, ~SomeOverflow, amWidth = 16, NEW i \in 1..Len(amIn), NEW bits,
           DOMAIN bits = 1..(LengthOf(WarpOfElem(i)) * ByteBits),
           \A b \in 1..(LengthOf(WarpOfElem(i)) * ByteBits) :
               b \in 1..Capacity => bits[b] = LaneBits(WarpOfElem(i), LaneOfElem(i))[b]
    PROVE  Decode(CodeOf(i, Center(WarpOfElem(i))), Center(WarpOfElem(i)),
                  SignalOf(bits, ((i - 1) % AdmChunk) + 1)) = amIn[i]
<1> DEFINE w == WarpOfElem(i)
           l == LaneOfElem(i)
           c == Center(w)
           len == LengthOf(w) * ByteBits
           f == SignalBits(w)
<1>1. w \in AdmWarps /\ l \in AdmLaneSet /\ c \in Nat
  BY LaneInterval, CenterNat
<1>2. PICK a \in Nat : \E n \in Nat :
         /\ i \in a..n /\ ((i - 1) % AdmChunk) + 1 = (i - a) + 1
         /\ 1 <= a /\ n <= ReadEnd /\ LaneElems(w, l) = a..n
  BY LaneInterval
<1>3. PICK n \in Nat :
         /\ i \in a..n /\ ((i - 1) % AdmChunk) + 1 = (i - a) + 1
         /\ 1 <= a /\ n <= ReadEnd /\ LaneElems(w, l) = a..n
  BY <1>2
<1> DEFINE off == StartsOf(f, a, n)
<1>4. DOMAIN bits = 1..len /\ \A b \in 1..len : b \in 1..Capacity => bits[b] = LaneBits(w, l)[b]
  OBVIOUS
<1> HIDE DEF w, l
<1>5. \A j \in 1..ReadEnd : f[j] = OutputIdx(j, c) /\ f[j] \in Nat \ {0}
  BY <1>1, SignalsPositive
<1>6. /\ len \in Nat /\ Capacity \in Nat /\ BitOffset(w, LaneElems(w, l)) \in Nat
      /\ BitOffset(w, LaneElems(w, l)) <= len /\ len <= Capacity
  <2>1. /\ LengthOf(w) \in Nat /\ Capacity \in Nat /\ BitOffset(w, LaneElems(w, l)) \in Nat
        /\ BitOffset(w, LaneElems(w, l)) <= len /\ len <= Capacity
    BY <1>1, LengthEnough
  <2>2. len \in Nat
    BY <2>1, AdmConstants
  <2> QED
    BY <2>1, <2>2
<1>7. a <= n /\ \A j \in a..n : f[j] \in Nat \ {0}
  <2>1. ReadEnd \in Nat
    BY ReadWithinTail
  <2> HIDE DEF f
  <2> QED
    BY <1>3, <1>5, <2>1
<1> HIDE DEF c, len
<1>8. /\ BitOffset(w, LaneElems(w, l)) = off[n + 1]
      /\ \A b \in 1..Capacity :
            /\ LaneBits(w, l)[b] \in {0, 1}
            /\ b - 1 < off[n + 1] =>
                  (LaneBits(w, l)[b] = 1 <=> \E j \in a..n : off[j] = b - 1)
            /\ b - 1 = off[n + 1] => LaneBits(w, l)[b] = 1
  BY <1>3, <1>7, LaneBitsUnary
<1>9. Offsets(off, a, n) /\ \A j \in a..n : off[j + 1] = off[j] + f[j]
  <2> HIDE DEF f
  <2> QED
    BY <1>7, RunningOffsets
<1> HIDE DEF off, f
<1>10. off[n + 1] \in Nat /\ off[n + 1] <= len
  BY <1>6, <1>8
<1>11. ASSUME NEW b \in 1..len PROVE b \in 1..Capacity /\ bits[b] = LaneBits(w, l)[b]
  BY <1>4, <1>6
<1>12. \A b \in 1..len : bits[b] \in {0, 1}
  BY <1>8, <1>11
<1>13. \A b \in 1..len : b - 1 < off[n + 1] => (bits[b] = 1 <=> \E j \in a..n : off[j] = b - 1)
  BY <1>8, <1>11
<1>14. off[n + 1] < len => bits[off[n + 1] + 1] = 1
  <2> SUFFICES ASSUME off[n + 1] < len PROVE bits[off[n + 1] + 1] = 1
    OBVIOUS
  <2> DEFINE b == off[n + 1] + 1
  <2>1. b \in 1..len /\ b - 1 = off[n + 1]
    BY <1>6, <1>10
  <2> HIDE DEF b
  <2>2. bits[b] = 1
    BY <1>8, <1>11, <2>1
  <2> QED
    BY <2>2 DEF b
<1>15. SignalOf(bits, (i - a) + 1) = ((off[i + 1] - off[i]) - 1) % CounterRange
  <2>1. UnaryBits(bits, len, off, a, n)
    BY <1>4, <1>10, <1>12, <1>13, <1>14 DEF UnaryBits
  <2>2. i \in a..n /\ len \in Nat /\ Offsets(off, a, n)
    BY <1>3, <1>6, <1>9
  <2>3. SignalIs(bits, off, a, i)
    BY <2>1, <2>2, UnarySignal
  <2> QED
    BY <2>3 DEF SignalIs
<1>16. /\ off[i] \in Nat /\ off[i + 1] \in Nat /\ off[i + 1] = off[i] + f[i] /\ f[i] \in Nat \ {0}
       /\ off[i + 1] <= off[n + 1]
  <2>1. /\ i \in a..(n + 1) /\ i + 1 \in a..(n + 1) /\ n + 1 \in a..(n + 1) /\ i \in a..n
        /\ (i + 1 = n + 1 \/ i + 1 < n + 1)
    BY <1>3
  <2>2. off[i] \in Nat /\ off[i + 1] \in Nat
    BY <1>9, <2>1 DEF Offsets
  <2>3. i + 1 < n + 1 => off[i + 1] < off[n + 1]
    BY <1>9, <2>1, OffsetsIncrease
  <2>4. off[i + 1] = off[i] + f[i] /\ f[i] \in Nat \ {0}
    BY <1>7, <1>9, <2>1
  <2>5. off[i + 1] <= off[n + 1]
    <3>1. CASE i + 1 = n + 1
      BY <1>10, <3>1
    <3>2. CASE i + 1 < n + 1
      BY <1>10, <2>2, <2>3, <3>2
    <3> QED
      BY <2>1, <3>1, <3>2
  <2> QED
    BY <2>2, <2>4, <2>5
<1>17. (off[i + 1] - off[i]) - 1 = f[i] - 1 /\ f[i] - 1 \in 0..(Capacity - 1)
  <2> DEFINE x == off[i]
             y == off[i + 1]
             z == off[n + 1]
             g == f[i]
  <2>1. /\ x \in Nat /\ y \in Nat /\ z \in Nat /\ y = x + g /\ g \in Nat \ {0}
        /\ y <= z /\ z <= len
    BY <1>10, <1>16
  <2> HIDE DEF x, y, z, g
  <2>2. (y - x) - 1 = g - 1 /\ g - 1 \in 0..(Capacity - 1)
    BY <1>6, <2>1
  <2> QED
    BY <2>2 DEF x, y, g
<1>18. Capacity = CounterRange
  BY AdmMapAssumption DEF Capacity, MaxSignalBytes
<1>19. SignalOf(bits, (i - a) + 1) = f[i] - 1
  <2> DEFINE g == f[i] - 1
  <2>1. g \in 0..(CounterRange - 1) /\ CounterRange \in Nat \ {0}
    BY <1>17, <1>18, AdmConstants
  <2>2. SignalOf(bits, (i - a) + 1) = g % CounterRange
    BY <1>15, <1>17
  <2> HIDE DEF g
  <2>3. g = 0 * CounterRange + g /\ g \in Int
    BY <2>1
  <2>4. g % CounterRange = g
    BY <2>1, <2>3, Quotient
  <2> QED
    BY <2>2, <2>4 DEF g
<1>20. f[i] = OutputIdx(i, c) /\ Value(i) \in Nat /\ Value(i) = amIn[i]
  <2>1. i \in 1..ReadEnd
    BY ReadWithinTail
  <2> QED
    BY <1>5, <2>1, ReadWithinTail
<1>21. Decode(CodeOf(i, c), c, OutputIdx(i, c) - 1) = Value(i)
  BY <1>1, <1>20, CodeRestores DEF c
<1>22. SignalOf(bits, ((i - 1) % AdmChunk) + 1) = OutputIdx(i, c) - 1
  BY <1>3, <1>19, <1>20
<1> QED
  BY <1>20, <1>21, <1>22 DEF c, w

\* The first m bits.
LEMMA PrefixOf ==
    ASSUME NEW n \in Nat, NEW s \in [1..n -> {0, 1}], NEW m \in 0..n
    PROVE  DOMAIN SubSeq(s, 1, m) = 1..m /\ \A b \in 1..m : SubSeq(s, 1, m)[b] = s[b]
<1>1. s \in Seq({0, 1}) /\ Len(s) = n
  OBVIOUS
<1>2. 1 \in 1..(Len(s) + 1) /\ m \in (1 - 1)..Len(s)
  BY <1>1
<1> QED
  BY <1>1, <1>2, SubSeqProperties

\* What the decoder gets for value i out of the bits of its lane.
FromLane(i, bits) ==
    Decode(amCodes[i], amCenters[WarpOfElem(i)], SignalOf(bits, ((i - 1) % AdmChunk) + 1))

\* What holds between the kernels of a u16 call: every value can be restored
\* from what the kernels so far have stored.
AmInv ==
    /\ AmTypes
    /\ amWidth = 16 =>
          /\ amPhase = "mapped" =>
                \A i \in 1..Len(amIn) :
                   /\ WarpOfElem(i) \in AdmWarps /\ LaneOfElem(i) \in AdmLaneSet
                   /\ FromLane(i, SubSeq(amBitSignals[WarpOfElem(i)][LaneOfElem(i)], 1,
                                         amLengths[WarpOfElem(i)] * ByteBits)) = amIn[i]
          /\ amPhase = "packed" =>
                \A i \in 1..Len(amIn) :
                   FromLane(i, amConcat[WarpOfElem(i)][LaneOfElem(i)]) = amIn[i]
          /\ amPhase = "decoded" => amOut = amIn

\* A lane's buffer holds bits.
LEMMA LaneBitsType == ASSUME NEW w, NEW l PROVE LaneBits(w, l) \in [1..Capacity -> {0, 1}]
  BY DEF LaneBits

\* adm_map_decoupled stores the lanes themselves.
LEMMA MapDecoupledPreserves == AmInv /\ MapDecoupled => AmInv'
<1> SUFFICES ASSUME AmInv, MapDecoupled PROVE AmInv'
  OBVIOUS
<1>1. AmTypes /\ AmTypes' /\ amIn' = amIn /\ amWidth' = amWidth /\ amPhase' = "packed"
  BY DEF AmInv, MapDecoupled, AmTypes
<1>2. ASSUME amWidth = 16, NEW i \in 1..Len(amIn)
      PROVE  FromLane(i, amConcat[WarpOfElem(i)][LaneOfElem(i)])' = amIn[i]
  <2> DEFINE w == WarpOfElem(i)
             l == LaneOfElem(i)
             len == LengthOf(w) * ByteBits
             bits == SubSeq(LaneBits(w, l), 1, len)
  <2>1. w \in AdmWarps /\ l \in AdmLaneSet /\ Center(w) \in Nat /\ ~SomeOverflow
    BY <1>1, LaneInterval, CenterNat DEF MapDecoupled
  <2>2. amConcat'[w][l] = bits
    BY <2>1 DEF MapDecoupled
  <2>3. amCodes'[i] = CodeOf(i, Center(w)) /\ amCenters'[w] = Center(w)
    BY <2>1 DEF MapDecoupled, Encoded
  <2>4. Capacity \in Nat /\ len \in 0..Capacity
    <3>1. LengthOf(w) \in Nat /\ Capacity \in Nat /\ len <= Capacity
      BY <1>1, <2>1, LengthEnough
    <3>2. len \in Nat
      BY <3>1, AdmConstants
    <3> QED
      BY <3>1, <3>2
  <2>5. DOMAIN bits = 1..len /\ \A b \in 1..len : bits[b] = LaneBits(w, l)[b]
    <3> HIDE DEF len, w, l
    <3> QED
      BY <2>4, LaneBitsType, PrefixOf
  <2> HIDE DEF bits
  <2>6. Decode(CodeOf(i, Center(w)), Center(w), SignalOf(bits, ((i - 1) % AdmChunk) + 1)) = amIn[i]
    BY <1>1, <1>2, <2>1, <2>5, ValueDecodes
  <2>7. FromLane(i, amConcat[w][l])' = Decode(amCodes'[i], amCenters'[w], SignalOf(amConcat'[w][l], ((i - 1) % AdmChunk) + 1))
    BY DEF FromLane, WarpOfElem, LaneOfElem
  <2> QED
    BY <2>2, <2>3, <2>6, <2>7
<1> QED
  BY <1>1, <1>2 DEF AmInv

\* adm_map_thrust copies a prefix of each lane that is long enough.
LEMMA MapThrustPreserves == AmInv /\ MapThrust => AmInv'
<1> SUFFICES ASSUME AmInv, MapThrust PROVE AmInv'
  OBVIOUS
<1>1. AmTypes /\ AmTypes' /\ amIn' = amIn /\ amWidth' = amWidth /\ amPhase' = "mapped"
  BY DEF AmInv, MapThrust, AmTypes
<1>2. ASSUME amWidth = 16, NEW i \in 1..Len(amIn)
      PROVE  /\ WarpOfElem(i) \in AdmWarps /\ LaneOfElem(i) \in AdmLaneSet
             /\ FromLane(i, SubSeq(amBitSignals[WarpOfElem(i)][LaneOfElem(i)], 1,
                                   amLengths[WarpOfElem(i)] * ByteBits))' = amIn[i]
  <2> DEFINE w == WarpOfElem(i)
             l == LaneOfElem(i)
             len == LengthOf(w) * ByteBits
             copied == CopiedBytes(LengthOf(w)) * ByteBits
             all == [b \in 1..Capacity |-> IF b <= copied THEN LaneBits(w, l)[b] ELSE 0]
             bits == SubSeq(all, 1, len)
  <2>1. w \in AdmWarps /\ l \in AdmLaneSet /\ Center(w) \in Nat /\ ~SomeOverflow
    BY <1>1, LaneInterval, CenterNat DEF MapThrust
  <2>2. amBitSignals'[w][l] = all
    BY <2>1 DEF MapThrust
  <2>3. /\ amCodes'[i] = CodeOf(i, Center(w)) /\ amCenters'[w] = Center(w)
        /\ amLengths'[w] = LengthOf(w)
    BY <2>1 DEF MapThrust, Encoded
  <2>4. Capacity \in Nat /\ len \in 0..Capacity /\ LengthOf(w) \in Nat
    <3>1. LengthOf(w) \in Nat /\ Capacity \in Nat /\ len <= Capacity
      BY <1>1, <2>1, LengthEnough
    <3>2. len \in Nat
      BY <3>1, AdmConstants
    <3> QED
      BY <3>1, <3>2
  \* The kernel copies whole vectors: at least the length of the warp.
  <2>5. copied \in Nat /\ len <= copied
    <3> DEFINE g == LengthOf(w)
               y == CopiedBytes(g)
    <3>1. y = ((g + 7) \div 8) * 8
      BY <1>2 DEF CopiedBytes
    <3> HIDE DEF g, w, y
    <3>2. g \in Nat
      BY <2>4 DEF g
    <3>3. y \in Nat /\ g <= y
      BY <3>1, <3>2
    <3>4. g * ByteBits <= y * ByteBits
      BY <3>2, <3>3, AdmConstants, Multiples
    <3>5. y * ByteBits \in Nat
      BY <3>3, AdmConstants
    <3> QED
      BY <3>4, <3>5 DEF g, y
  <2>6. DOMAIN bits = 1..len /\ \A b \in 1..len : bits[b] = LaneBits(w, l)[b]
    <3> HIDE DEF len, w, l, copied
    <3>1. all \in [1..Capacity -> {0, 1}]
      <4>1. \A b \in 1..Capacity : LaneBits(w, l)[b] \in {0, 1}
        BY LaneBitsType
      <4> QED
        BY <4>1
    <3>2. \A b \in 1..len : all[b] = LaneBits(w, l)[b]
      <4> SUFFICES ASSUME NEW b \in 1..len PROVE all[b] = LaneBits(w, l)[b]
        OBVIOUS
      <4>1. b \in 1..Capacity /\ b <= copied
        BY <2>4, <2>5
      <4> QED
        BY <4>1
    <3> HIDE DEF all
    <3>3. DOMAIN bits = 1..len /\ \A b \in 1..len : bits[b] = all[b]
      BY <2>4, <3>1, PrefixOf
    <3> QED
      BY <3>2, <3>3
  <2> HIDE DEF bits
  <2>7. Decode(CodeOf(i, Center(w)), Center(w), SignalOf(bits, ((i - 1) % AdmChunk) + 1)) = amIn[i]
    BY <1>1, <1>2, <2>1, <2>6, ValueDecodes
  <2>8. FromLane(i, SubSeq(amBitSignals[w][l], 1, amLengths[w] * ByteBits))'
          = Decode(amCodes'[i], amCenters'[w],
                   SignalOf(SubSeq(amBitSignals'[w][l], 1, amLengths'[w] * ByteBits),
                            ((i - 1) % AdmChunk) + 1))
    BY DEF FromLane, WarpOfElem, LaneOfElem
  <2>9. SubSeq(amBitSignals'[w][l], 1, amLengths'[w] * ByteBits) = bits
    BY <2>2, <2>3 DEF bits
  <2> QED
    BY <2>1, <2>3, <2>7, <2>8, <2>9
<1>3. \A i \in 1..Len(amIn) :
         /\ (WarpOfElem(i) \in AdmWarps)' <=> WarpOfElem(i) \in AdmWarps
         /\ (LaneOfElem(i) \in AdmLaneSet)' <=> LaneOfElem(i) \in AdmLaneSet
  BY <1>1 DEF WarpOfElem, AdmWarps, LaneOfElem, AdmLaneSet, WarpElems
<1> QED
  BY <1>1, <1>2, <1>3 DEF AmInv

\* adm_concat keeps of it what the length says.
LEMMA ConcatPreserves == AmInv /\ Concat => AmInv'
<1> SUFFICES ASSUME AmInv, Concat PROVE AmInv'
  OBVIOUS
<1>1. AmTypes' /\ amIn' = amIn /\ amWidth' = amWidth /\ amPhase' = "packed" /\ amPhase = "mapped"
  BY DEF AmInv, Concat, AmTypes
<1>2. ASSUME amWidth = 16, NEW i \in 1..Len(amIn)
      PROVE  FromLane(i, amConcat[WarpOfElem(i)][LaneOfElem(i)])' = amIn[i]
  <2> DEFINE w == WarpOfElem(i)
             l == LaneOfElem(i)
             bits == SubSeq(amBitSignals[w][l], 1, amLengths[w] * ByteBits)
  <2>1. w \in AdmWarps /\ l \in AdmLaneSet /\ FromLane(i, bits) = amIn[i]
    BY <1>1, <1>2 DEF AmInv
  <2>2. amConcat'[w][l] = bits
    BY <2>1 DEF Concat
  <2>3. amCodes' = amCodes /\ amCenters' = amCenters
    BY DEF Concat
  <2> HIDE DEF bits
  <2>4. FromLane(i, amConcat[w][l])'
          = Decode(amCodes'[i], amCenters'[w], SignalOf(amConcat'[w][l], ((i - 1) % AdmChunk) + 1))
    BY DEF FromLane, WarpOfElem, LaneOfElem
  <2> QED
    BY <2>1, <2>2, <2>3, <2>4 DEF FromLane
<1> QED
  BY <1>1, <1>2 DEF AmInv

\* adm_decompress restores the input.
LEMMA DecompressPreserves == AmInv /\ AdmDecompress => AmInv'
<1> SUFFICES ASSUME AmInv, AdmDecompress PROVE AmInv'
  OBVIOUS
<1>1. AmTypes' /\ amIn' = amIn /\ amWidth' = amWidth /\ amPhase' = "decoded" /\ amPhase = "packed"
  BY DEF AmInv, AdmDecompress, AmTypes
<1>2. ASSUME amWidth = 16 PROVE amOut' = amIn
  <2>1. ASSUME NEW i \in 1..Len(amIn) PROVE Restored(i) = amIn[i]
    <3>1. Restored(i) = FromLane(i, amConcat[WarpOfElem(i)][LaneOfElem(i)])
      BY DEF Restored, FromLane, Decode, LaneOfElem
    <3>2. FromLane(i, amConcat[WarpOfElem(i)][LaneOfElem(i)]) = amIn[i]
      BY <1>1, <1>2 DEF AmInv
    <3> QED
      BY <3>1, <3>2
  <2>2. amOut' = [i \in 1..Len(amIn) |-> Restored(i)]
    BY DEF AdmDecompress
  <2>3. amOut' = [i \in 1..Len(amIn) |-> amIn[i]]
    BY <2>1, <2>2
  <2>4. amIn = [i \in 1..Len(amIn) |-> amIn[i]]
    <3>1. amIn \in Seq(Nat)
      BY DEF AmInv, AmTypes
    <3>2. amIn \in [1..Len(amIn) -> Nat]
      BY <3>1, LenProperties
    <3> QED
      BY <3>2
  <2> QED
    BY <2>3, <2>4
<1> QED
  BY <1>1, <1>2 DEF AmInv

LEMMA RefusedPreserves == AmInv /\ CompressRefused => AmInv'
<1> SUFFICES ASSUME AmInv, CompressRefused PROVE AmInv'
  OBVIOUS
<1>1. AmTypes' /\ amPhase' = "refused"
  BY DEF AmInv, CompressRefused, AmTypes
<1> QED
  BY <1>1 DEF AmInv

LEMMA AmStutter == AmInv /\ UNCHANGED amVars => AmInv'
  BY DEF AmInv, amVars, AmTypes, FromLane, WarpOfElem, LaneOfElem, AdmWarps, AdmLaneSet, WarpElems

\* A u16 call of ADM is lossless or refuses the input, for every chunk, lane and
\* step size, on the look-back path and on the one through d_bit_signals: the
\* signal the decoder counts in a uint8_t never reaches the counter's range,
\* because no lane's signal is longer than its buffer.
THEOREM AdmLosslessCorrect == AdmMapSpec => [](amWidth = 16 => AdmLossless)
<1>1. AdmMapInit => AmInv
  BY AdmMapAssumption DEF AdmMapInit, AmInv, AmTypes
<1>2. AmInv /\ [AdmMapNext]_amVars => AmInv'
  BY MapDecoupledPreserves, MapThrustPreserves, ConcatPreserves, DecompressPreserves,
     RefusedPreserves, AmStutter DEF AdmMapNext
<1>3. AmInv => (amWidth = 16 => AdmLossless)
  BY DEF AmInv, AdmLossless
<1> QED
  BY <1>1, <1>2, <1>3, PTL DEF AdmMapSpec
=============================================================================
