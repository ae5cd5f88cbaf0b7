------------------------------ MODULE AdmScan -------------------------------
(* The decoupled look-back of the ADM map kernels (adm_map_decoupled_u32 and *)
(* its u16 twin).  A thread block holds kWarpsPerBlock warps; its leader     *)
(* sums the signal lengths of the warps, publishes the block total one slot  *)
(* up (locOffset[bid+1], prefix_state[bid+1] = 1), walks back one block at a *)
(* time, then publishes its own exclusive offset in its own slot             *)
(* (blockResolved[bid], prefix_state[bid] = 2) and lets the warps write.     *)
(* Slot b of prefix_state is thus written by two blocks: 1 by block b-1 and  *)
(* 2 by block b.  Volatile stores between fences: one step per store.        *)
EXTENDS Integers, FiniteSets

CONSTANTS NumAdmBlocks,   \* thread blocks of the grid
          WarpsPerBlock,  \* kWarpsPerBlock (8 in the code)
          AdmResidency,   \* thread blocks the device runs at once
          AdmLaunches,    \* compress() calls on the same scratch
          SignalLength,   \* [launch -> [block -> [warp in block -> bytes]]]
          Before          \* the same, up to and including WarpsPerBlock: sums

AdmBlocks == 0..NumAdmBlocks-1
Warps == 0..WarpsPerBlock-1
Calls == 1..AdmLaunches

ASSUME AdmAssumption ==
    /\ NumAdmBlocks \in Nat \ {0}
    /\ WarpsPerBlock \in Nat \ {0}
    /\ AdmResidency \in Nat \ {0}
    /\ AdmLaunches \in Nat \ {0}
    /\ SignalLength \in [Calls -> [AdmBlocks -> [Warps -> Nat]]]

\* Before is the exclusive sum over warps in block order.
ASSUME BeforeAssumption ==
    /\ Before \in [Calls -> [0..NumAdmBlocks -> [0..WarpsPerBlock -> Nat]]]
    /\ \A n \in Calls :
        /\ Before[n][0][0] = 0
        /\ \A b \in AdmBlocks :
            /\ Before[n][b+1][0] = Before[n][b][WarpsPerBlock]
            /\ \A w \in Warps :
                Before[n][b][w+1] = Before[n][b][w] + SignalLength[n][b][w]

VARIABLES admLaunch,
          locOffset, prefixState, blockResolved,   \* device scratch
          admPc, warpIdx, running, warpExcl,       \* the leader's intra-block scan
          lookback, locExcl, status,               \* the leader's look-back
          cmpOffset                                \* d_output_lengths

admVars == <<admLaunch, locOffset, prefixState, blockResolved, admPc, warpIdx,
             running, warpExcl, lookback, locExcl, status, cmpOffset>>

None == -1
Pcs == {"queued", "warps", "total", "first", "announce", "spin", "add",
        "resolve", "flag", "write", "done"}

Cleared == [s \in 0..NumAdmBlocks |-> 0]
ClearedLocals == [b \in AdmBlocks |-> 0]
NoOffsets == [b \in AdmBlocks |-> [w \in Warps |-> None]]

AdmInit ==
    /\ admLaunch = 1
    /\ locOffset = Cleared
    /\ prefixState = Cleared
    /\ blockResolved = Cleared
    /\ admPc = [b \in AdmBlocks |-> "queued"]
    /\ warpIdx = ClearedLocals
    /\ running = ClearedLocals
    /\ warpExcl = [b \in AdmBlocks |-> [w \in Warps |-> 0]]
    /\ lookback = ClearedLocals
    /\ locExcl = ClearedLocals
    /\ status = ClearedLocals
    /\ cmpOffset = NoOffsets

\* Mutant: blocks start in any order.
DispatchBlockAnyOrder(b) ==
    /\ admPc[b] = "queued"
    /\ Cardinality({c \in AdmBlocks : admPc[c] \notin {"queued", "done"}}) < AdmResidency
    /\ admPc' = [admPc EXCEPT ![b] = "warps"]
    /\ UNCHANGED <<admLaunch, locOffset, prefixState, blockResolved, warpIdx,
                   running, warpExcl, lookback, locExcl, status, cmpOffset>>

\* Thread blocks are dispatched in blockIdx order as residency allows.
DispatchBlock(b) ==
    /\ admPc[b] = "queued"
    /\ \A c \in AdmBlocks : c < b => admPc[c] # "queued"
    /\ Cardinality({c \in AdmBlocks : admPc[c] \notin {"queued", "done"}}) < AdmResidency
    /\ admPc' = [admPc EXCEPT ![b] = "warps"]
    /\ UNCHANGED <<admLaunch, locOffset, prefixState, blockResolved, warpIdx,
                   running, warpExcl, lookback, locExcl, status, cmpOffset>>

\* One turn of the leader's loop over s_warp_totals.
ScanWarp(b) ==
    /\ admPc[b] = "warps"
    /\ warpExcl' = [warpExcl EXCEPT ![b][warpIdx[b]] = running[b]]
    /\ running' = [running EXCEPT ![b] = @ + SignalLength[admLaunch][b][warpIdx[b]]]
    /\ warpIdx' = [warpIdx EXCEPT ![b] = @ + 1]
    /\ admPc' = [admPc EXCEPT ![b] = IF warpIdx[b] + 1 = WarpsPerBlock THEN "total" ELSE @]
    /\ UNCHANGED <<admLaunch, locOffset, prefixState, blockResolved, lookback,
                   locExcl, status, cmpOffset>>

PublishTotal(b) ==
    /\ admPc[b] = "total"
    /\ locOffset' = [locOffset EXCEPT ![b+1] = running[b]]
    /\ admPc' = [admPc EXCEPT ![b] = IF b = 0 THEN "first" ELSE "announce"]
    /\ UNCHANGED <<admLaunch, prefixState, blockResolved, warpIdx, running,
                   warpExcl, lookback, locExcl, status, cmpOffset>>

\* Block 0 marks slot 0 resolved before it announces slot 1.
ResolveFirst(b) ==
    /\ admPc[b] = "first"
    /\ prefixState' = [prefixState EXCEPT ![0] = 2]
    /\ admPc' = [admPc EXCEPT ![b] = "announce"]
    /\ UNCHANGED <<admLaunch, locOffset, blockResolved, warpIdx, running,
                   warpExcl, lookback, locExcl, status, cmpOffset>>

\* Mutant: the total is announced in the block's own slot.
AnnounceTotalOwnSlot(b) ==
    /\ admPc[b] = "announce"
    /\ prefixState' = [prefixState EXCEPT ![b] = 1]
    /\ lookback' = [lookback EXCEPT ![b] = b]
    /\ locExcl' = [locExcl EXCEPT ![b] = 0]
    /\ admPc' = [admPc EXCEPT ![b] = IF b = 0 THEN "write" ELSE "spin"]
    /\ UNCHANGED <<admLaunch, locOffset, blockResolved, warpIdx, running,
                   warpExcl, status, cmpOffset>>

\* Block 0 has no look-back: s_block_excl = 0.
AnnounceTotal(b) ==
    /\ admPc[b] = "announce"
    /\ prefixState' = [prefixState EXCEPT ![b+1] = 1]
    /\ lookback' = [lookback EXCEPT ![b] = b]
    /\ locExcl' = [locExcl EXCEPT ![b] = 0]
    /\ admPc' = [admPc EXCEPT ![b] = IF b = 0 THEN "write" ELSE "spin"]
    /\ UNCHANGED <<admLaunch, locOffset, blockResolved, warpIdx, running,
                   warpExcl, status, cmpOffset>>

Spin(b) ==
    /\ admPc[b] = "spin"
    /\ prefixState[lookback[b]] # 0
    /\ status' = [status EXCEPT ![b] = prefixState[lookback[b]]]
    /\ admPc' = [admPc EXCEPT ![b] = "add"]
    /\ UNCHANGED <<admLaunch, locOffset, prefixState, blockResolved, warpIdx,
                   running, warpExcl, lookback, locExcl, cmpOffset>>

AddResolved(b) ==
    /\ admPc[b] = "add"
    /\ status[b] = 2
    /\ locExcl' = [locExcl EXCEPT ![b] = @ + blockResolved[lookback[b]]]
    /\ admPc' = [admPc EXCEPT ![b] = "resolve"]
    /\ UNCHANGED <<admLaunch, locOffset, prefixState, blockResolved, warpIdx,
                   running, warpExcl, lookback, status, cmpOffset>>

\* Mutant: the walk skips a block.
AddTotalTwoBack(b) ==
    /\ admPc[b] = "add"
    /\ status[b] = 1
    /\ lookback[b] > 1
    /\ locExcl' = [locExcl EXCEPT ![b] = @ + locOffset[lookback[b]]]
    /\ lookback' = [lookback EXCEPT ![b] = @ - 2]
    /\ admPc' = [admPc EXCEPT ![b] = IF lookback[b] > 2 THEN "spin" ELSE "resolve"]
    /\ UNCHANGED <<admLaunch, locOffset, prefixState, blockResolved, warpIdx,
                   running, warpExcl, status, cmpOffset>>

AddTotal(b) ==
    /\ admPc[b] = "add"
    /\ status[b] = 1
    /\ locExcl' = [locExcl EXCEPT ![b] = @ + locOffset[lookback[b]]]
    /\ lookback' = [lookback EXCEPT ![b] = @ - 1]
    /\ admPc' = [admPc EXCEPT ![b] = IF lookback[b] > 1 THEN "spin" ELSE "resolve"]
    /\ UNCHANGED <<admLaunch, locOffset, prefixState, blockResolved, warpIdx,
                   running, warpExcl, status, cmpOffset>>

PublishResolved(b) ==
    /\ admPc[b] = "resolve"
    /\ blockResolved' = [blockResolved EXCEPT ![b] = locExcl[b]]
    /\ admPc' = [admPc EXCEPT ![b] = "flag"]
    /\ UNCHANGED <<admLaunch, locOffset, prefixState, warpIdx, running,
                   warpExcl, lookback, locExcl, status, cmpOffset>>

AnnounceResolved(b) ==
    /\ admPc[b] = "flag"
    /\ prefixState' = [prefixState EXCEPT ![b] = 2]
    /\ admPc' = [admPc EXCEPT ![b] = "write"]
    /\ UNCHANGED <<admLaunch, locOffset, blockResolved, warpIdx, running,
                   warpExcl, lookback, locExcl, status, cmpOffset>>

\* After __syncthreads() every warp writes its global offset and its signals.
WriteOffsets(b) ==
    /\ admPc[b] = "write"
    /\ cmpOffset' = [cmpOffset EXCEPT ![b] = [w \in Warps |-> locExcl[b] + warpExcl[b][w]]]
    /\ admPc' = [admPc EXCEPT ![b] = "done"]
    /\ UNCHANGED <<admLaunch, locOffset, prefixState, blockResolved, warpIdx,
                   running, warpExcl, lookback, locExcl, status>>

\* Mutant: prefix_state is not cleared.
NextCallFlagsKept ==
    /\ \A b \in AdmBlocks : admPc[b] = "done"
    /\ admLaunch < AdmLaunches
    /\ admLaunch' = admLaunch + 1
    /\ locOffset' = Cleared
    /\ prefixState' = prefixState
    /\ blockResolved' = Cleared
    /\ admPc' = [b \in AdmBlocks |-> "queued"]
    /\ warpIdx' = ClearedLocals
    /\ running' = ClearedLocals
    /\ cmpOffset' = NoOffsets
    /\ UNCHANGED <<warpExcl, lookback, locExcl, status>>

\* The host clears all three arrays before every launch.
NextCall ==
    /\ \A b \in AdmBlocks : admPc[b] = "done"
    /\ admLaunch < AdmLaunches
    /\ admLaunch' = admLaunch + 1
    /\ locOffset' = Cleared
    /\ prefixState' = Cleared
    /\ blockResolved' = Cleared
    /\ admPc' = [b \in AdmBlocks |-> "queued"]
    /\ warpIdx' = ClearedLocals
    /\ running' = ClearedLocals
    /\ cmpOffset' = NoOffsets
    /\ UNCHANGED <<warpExcl, lookback, locExcl, status>>

BlockStep(b) ==
    \/ DispatchBlock(b)
    \/ ScanWarp(b)
    \/ PublishTotal(b)
    \/ ResolveFirst(b)
    \/ AnnounceTotal(b)
    \/ Spin(b)
    \/ AddResolved(b)
    \/ AddTotal(b)
    \/ PublishResolved(b)
    \/ AnnounceResolved(b)
    \/ WriteOffsets(b)

AdmNext == (\E b \in AdmBlocks : BlockStep(b)) \/ NextCall

AdmSpec == AdmInit /\ [][AdmNext]_admVars

-----------------------------------------------------------------------------
(* The kernel's and the leader's variables stay in their ranges.           *)
AdmTypeOK ==
    /\ admLaunch \in Calls
    /\ locOffset \in [0..NumAdmBlocks -> Nat]
    /\ prefixState \in [0..NumAdmBlocks -> 0..2]
    /\ blockResolved \in [0..NumAdmBlocks -> Nat]
    /\ admPc \in [AdmBlocks -> Pcs]
    /\ warpIdx \in [AdmBlocks -> 0..WarpsPerBlock]
    /\ running \in [AdmBlocks -> Nat]
    /\ warpExcl \in [AdmBlocks -> [Warps -> Nat]]
    /\ lookback \in [AdmBlocks -> 0..NumAdmBlocks]
    /\ locExcl \in [AdmBlocks -> Nat]
    /\ status \in [AdmBlocks -> 0..2]
    /\ cmpOffset \in [AdmBlocks -> [Warps -> Nat \cup {None}]]

Start(b) == Before[admLaunch][b][0]

\* Progress of a leader through its straight-line code.
Summed(b) == admPc[b] \notin {"queued", "warps"}
Totalled(b) == Summed(b) /\ admPc[b] # "total"
Announced(b) == Totalled(b) /\ admPc[b] \notin {"first", "announce"}
Resolving(b) == admPc[b] \in {"resolve", "flag", "write", "done"}

\* The intra-block scan is right as far as it has come.
WarpSums ==
    \A b \in AdmBlocks :
        /\ warpIdx[b] = WarpsPerBlock <=> Summed(b)
        /\ running[b] + Start(b) = Before[admLaunch][b][warpIdx[b]]
        /\ \A w \in Warps : w < warpIdx[b] =>
                warpExcl[b][w] + Start(b) = Before[admLaunch][b][w]

\* A total is in its slot before the slot says so.
TotalsPublished ==
    \A b \in AdmBlocks :
        /\ Totalled(b) => locOffset[b+1] + Start(b) = Start(b+1)
        /\ prefixState[b+1] # 0 => Announced(b)
        /\ admPc[b] = "first" => b = 0

\* An exclusive offset is in its slot before the slot says so.
ResolvedPublished ==
    \A b \in AdmBlocks : b # 0 =>
        /\ admPc[b] \in {"flag", "write", "done"} => blockResolved[b] = Start(b)
        /\ prefixState[b] = 2 => admPc[b] \in {"write", "done"}

(* What a look-back has summed so far, plus where the block it looks at next *)
(* starts, is where the looking block starts: it neither skips nor counts    *)
(* twice a block whose slot goes from 1 to 2 while it walks.                 *)
LookBackSums ==
    \A b \in AdmBlocks :
        /\ admPc[b] \in {"spin", "add"} =>
            /\ lookback[b] \in 1..b
            /\ locExcl[b] + Start(lookback[b]) = Start(b)
        /\ admPc[b] = "add" =>
            /\ status[b] # 0
            /\ prefixState[lookback[b]] # 0
            /\ status[b] = 2 => prefixState[lookback[b]] = 2
        /\ admPc[b] \in {"spin", "add"} /\ lookback[b] < b => prefixState[b] # 0
        /\ admPc[b] \in {"resolve", "flag"} => b # 0 /\ prefixState[b] # 0
        /\ Resolving(b) => locExcl[b] = Start(b)

\* A warp's offset is written by the last step of its block.
OffsetsWritten ==
    \A b \in AdmBlocks, w \in Warps :
        cmpOffset[b][w] = IF admPc[b] = "done" THEN Before[admLaunch][b][w] ELSE None

(* The inductive invariant of the look-back.                                *)
AdmInv ==
    /\ AdmTypeOK
    /\ WarpSums
    /\ TotalsPublished
    /\ ResolvedPublished
    /\ LookBackSums
    /\ OffsetsWritten

(* Slot b is written by block b-1 (1) and by block b (2) with no lock: in a  *)
(* call it only ever goes 0, 1, 2, the late writer never undoes a 2.        *)
SlotsAdvance ==
    [][admLaunch' = admLaunch =>
         \A s \in 0..NumAdmBlocks : prefixState'[s] >= prefixState[s]]_admVars

AdmItems == AdmBlocks \X Warps
AdmOffsets == [i \in AdmItems |-> cmpOffset[i[1]][i[2]]]
AdmBefore == [n \in Calls |-> [i \in AdmItems |-> Before[n][i[1]][i[2]]]]

AdmAbstract == INSTANCE ExclusiveScan WITH
    Items <- AdmItems, Launches <- AdmLaunches, Before <- AdmBefore,
    Unknown <- None, scanLaunch <- admLaunch, scanOffset <- AdmOffsets

(* The ADM look-back implements the exclusive scan over warps: every warp    *)
(* writes its signals once, right behind those of the warp before it, in     *)
(* every compress() call.                                                    *)
AdmScanIsScan == AdmAbstract!ScanSpec

(* No block spins for ever: every compress() call that starts ends.          *)
AdmCallsEnd ==
    \A n \in Calls :
        (admLaunch = n /\ \E b \in AdmBlocks : admPc[b] # "queued")
            ~> (admLaunch = n /\ \A b \in AdmBlocks : admPc[b] = "done")
=============================================================================
