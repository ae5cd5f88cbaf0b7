------------------------------ MODULE LookBack ------------------------------
(* The single-pass fused kernels: one CTA of one warp per tile, a tile being *)
(* a run of consecutive blocks.  A tile publishes the bytes its blocks cost, *)
(* finds its base by a warp-wide look-back over the tiles before it, then    *)
(* publishes base plus cost and packs its blocks.  The lanes of the window   *)
(* poll g_state independently, so a window can mix reads made at different   *)
(* times; g_agg and g_incl keep the values of the previous launch, only      *)
(* g_state is cleared by the host.  __threadfence() keeps each value before  *)
(* the state that announces it: every write below is a step of its own.     *)
EXTENDS Integers, FiniteSets, FiniteSetsExt

CONSTANTS NumBlocks,      \* blocks of the input
          BlocksPerWarp,  \* blocks owned by one tile
          WindowLanes,    \* lanes of the look-back window (32 in the code)
          Residency,      \* CTAs the device runs at once
          LbLaunches,     \* kernel launches on the same scratch arrays
          BlockCost       \* [1..LbLaunches -> [blocks -> bytes]], the coder's costs

ASSUME LookBackAssumption ==
    /\ {NumBlocks, BlocksPerWarp, WindowLanes, Residency, LbLaunches} \subseteq Nat \ {0}
    /\ BlockCost \in [1..LbLaunches -> [0..NumBlocks-1 -> Nat]]

LB_NONE == 0
LB_AGG == 1
LB_PREFIX == 2

Blocks == 0..NumBlocks-1
NumWarps == (NumBlocks + BlocksPerWarp - 1) \div BlocksPerWarp
Tiles == 0..NumWarps-1
Lanes == 0..WindowLanes-1

VARIABLES lbLaunch,   \* the launch running
          gState, gAgg, gIncl,   \* the three scratch arrays
          lbPc,       \* where each warp is
          look,       \* look-back: highest predecessor of the window
          excl,       \* look-back: the sum so far
          lane,       \* look-back: what each lane has read, [st, vv]
          packed      \* byte offset at which each block was packed

lbVars == <<lbLaunch, gState, gAgg, gIncl, lbPc, look, excl, lane, packed>>

NotPacked == -1
Unread == [st |-> LB_NONE, vv |-> 0, read |-> FALSE]
FreshLanes == [l \in Lanes |-> Unread]

OwnBlocks(t) == {b \in Blocks : b \div BlocksPerWarp = t}
CostOf(S) == MapThenSumSet(LAMBDA b : BlockCost[lbLaunch][b], S)

WarpTotal(t) == CostOf(OwnBlocks(t))

\* s_base: exclusive byte offset of a block inside its tile.
SBase(b) == CostOf({c \in OwnBlocks(b \div BlocksPerWarp) : c < b})

LbInit ==
    /\ lbLaunch = 1
    /\ gState = [t \in Tiles |-> LB_NONE]
    /\ gAgg = [t \in Tiles |-> 0]
    /\ gIncl = [t \in Tiles |-> 0]
    /\ lbPc = [t \in Tiles |-> "queued"]
    /\ look = [t \in Tiles |-> 0]
    /\ excl = [t \in Tiles |-> 0]
    /\ lane = [t \in Tiles |-> FreshLanes]
    /\ packed = [b \in Blocks |-> NotPacked]

Resident == {t \in Tiles : lbPc[t] \notin {"queued", "done"}}

\* Mutant: tiles start in any order.
DispatchAnyOrder(t) ==
    /\ lbPc[t] = "queued"
    /\ Cardinality(Resident) < Residency
    /\ lbPc' = [lbPc EXCEPT ![t] = "agg"]
    /\ UNCHANGED <<lbLaunch, gState, gAgg, gIncl, look, excl, lane, packed>>

\* The device dispatches CTAs in blockIdx order as residency allows.
Dispatch(t) ==
    /\ lbPc[t] = "queued"
    /\ \A s \in Tiles : s < t => lbPc[s] # "queued"
    /\ Cardinality(Resident) < Residency
    /\ lbPc' = [lbPc EXCEPT ![t] = "agg"]
    /\ UNCHANGED <<lbLaunch, gState, gAgg, gIncl, look, excl, lane, packed>>

PublishAgg(t) ==
    /\ lbPc[t] = "agg"
    /\ gAgg' = [gAgg EXCEPT ![t] = WarpTotal(t)]
    /\ lbPc' = [lbPc EXCEPT ![t] = "announce"]
    /\ UNCHANGED <<lbLaunch, gState, gIncl, look, excl, lane, packed>>

\* The state flips to AGG and the look-back starts at the tile before; `look`
\* holds the index plus one so that tile 0 has nothing to look at.
AnnounceAgg(t) ==
    /\ lbPc[t] = "announce"
    /\ gState' = [gState EXCEPT ![t] = LB_AGG]
    /\ look' = [look EXCEPT ![t] = t]
    /\ excl' = [excl EXCEPT ![t] = 0]
    /\ lane' = [lane EXCEPT ![t] = FreshLanes]
    /\ lbPc' = [lbPc EXCEPT ![t] = IF t = 0 THEN "incl" ELSE "look"]
    /\ UNCHANGED <<lbLaunch, gAgg, gIncl, packed>>

\* Tile examined by lane l; a lane past tile 0 contributes an inclusive 0.
InRange(t, l) == look[t] > l
Predecessor(t, l) == look[t] - 1 - l

\* A lane leaves its spin once the predecessor has announced something.
LaneState(t, l) ==
    /\ lbPc[t] = "look"
    /\ lane[t][l].st = LB_NONE
    /\ IF InRange(t, l)
       THEN /\ gState[Predecessor(t, l)] # LB_NONE
            /\ lane' = [lane EXCEPT ![t][l].st = gState[Predecessor(t, l)]]
       ELSE lane' = [lane EXCEPT ![t][l] = [st |-> LB_PREFIX, vv |-> 0, read |-> TRUE]]
    /\ UNCHANGED <<lbLaunch, gState, gAgg, gIncl, lbPc, look, excl, packed>>

\* After its fence it reads the slot the state it saw refers to.
LaneValue(t, l) ==
    /\ lbPc[t] = "look"
    /\ lane[t][l].st # LB_NONE
    /\ ~lane[t][l].read
    /\ LET p == Predecessor(t, l)
           vv == IF lane[t][l].st = LB_PREFIX THEN gIncl[p] ELSE gAgg[p]
       IN  lane' = [lane EXCEPT ![t][l].vv = vv, ![t][l].read = TRUE]
    /\ UNCHANGED <<lbLaunch, gState, gAgg, gIncl, lbPc, look, excl, packed>>

PrefixLanes(t) == {l \in Lanes : lane[t][l].st = LB_PREFIX}

\* The lanes whose values count: up to the nearest PREFIX, or all of them.
CountedLanes(t) ==
    {l \in Lanes : \A f \in PrefixLanes(t) : l <= f}

\* Ballot and shuffle reduction, once every lane has its value.
Reduce(t) ==
    /\ lbPc[t] = "look"
    /\ \A l \in Lanes : lane[t][l].read
    /\ LET vv == [l \in Lanes |-> lane[t][l].vv] IN
       excl' = [excl EXCEPT ![t] = @ + MapThenSumSet(LAMBDA l : vv[l], CountedLanes(t))]
    /\ IF PrefixLanes(t) # {}
       THEN /\ lbPc' = [lbPc EXCEPT ![t] = "incl"]
            /\ UNCHANGED look
       ELSE /\ look' = [look EXCEPT ![t] = @ - WindowLanes]
            /\ lbPc' = [lbPc EXCEPT ![t] = IF look[t] <= WindowLanes THEN "incl" ELSE "look"]
    /\ lane' = [lane EXCEPT ![t] = FreshLanes]
    /\ UNCHANGED <<lbLaunch, gState, gAgg, gIncl, packed>>

PublishIncl(t) ==
    /\ lbPc[t] = "incl"
    /\ gIncl' = [gIncl EXCEPT ![t] = excl[t] + WarpTotal(t)]
    /\ lbPc' = [lbPc EXCEPT ![t] = "prefix"]
    /\ UNCHANGED <<lbLaunch, gState, gAgg, look, excl, lane, packed>>

AnnouncePrefix(t) ==
    /\ lbPc[t] = "prefix"
    /\ gState' = [gState EXCEPT ![t] = LB_PREFIX]
    /\ lbPc' = [lbPc EXCEPT ![t] = "pack"]
    /\ UNCHANGED <<lbLaunch, gAgg, gIncl, look, excl, lane, packed>>

Pack(t) ==
    /\ lbPc[t] = "pack"
    /\ packed' = [b \in Blocks |->
                    IF b \in OwnBlocks(t) THEN excl[t] + SBase(b) ELSE packed[b]]
    /\ lbPc' = [lbPc EXCEPT ![t] = "done"]
    /\ UNCHANGED <<lbLaunch, gState, gAgg, gIncl, look, excl, lane>>

\* Mutant: g_state is not cleared.
ClearedStateKept(old) == old
\* What the host clears before a launch; the pool may hand it used memory.
ClearedState(old) == [t \in Tiles |-> LB_NONE]

KernelDone == \A t \in Tiles : lbPc[t] = "done"

\* The host has synchronised, read g_incl[last] and launches the kernel again.
LaunchNext ==
    /\ KernelDone
    /\ lbLaunch < LbLaunches
    /\ lbLaunch' = lbLaunch + 1
    /\ gState' = ClearedState(gState)
    /\ lbPc' = [t \in Tiles |-> "queued"]
    /\ look' = [t \in Tiles |-> 0]
    /\ excl' = [t \in Tiles |-> 0]
    /\ lane' = [t \in Tiles |-> FreshLanes]
    /\ packed' = [b \in Blocks |-> NotPacked]
    /\ UNCHANGED <<gAgg, gIncl>>

LookBackStep(t) ==
    \/ \E l \in Lanes : LaneState(t, l) \/ LaneValue(t, l)
    \/ Reduce(t)

WarpStep(t) ==
    \/ Dispatch(t)
    \/ PublishAgg(t)
    \/ AnnounceAgg(t)
    \/ LookBackStep(t)
    \/ PublishIncl(t)
    \/ AnnouncePrefix(t)
    \/ Pack(t)

LbNext == (\E t \in Tiles : WarpStep(t)) \/ LaunchNext

LbSpec == LbInit /\ [][LbNext]_lbVars

-----------------------------------------------------------------------------
BlocksBefore == [n \in 1..LbLaunches |-> [b \in Blocks |->
                    MapThenSumSet(LAMBDA c : BlockCost[n][c], {c \in Blocks : c < b})]]

LbScan == INSTANCE ExclusiveScan WITH
    Items <- Blocks, Launches <- LbLaunches, Before <- BlocksBefore,
    Unknown <- NotPacked, scanLaunch <- lbLaunch, scanOffset <- packed

(* The look-back kernel implements the exclusive scan: whatever the order in *)
(* which lanes see NONE, AGG and PREFIX, and whatever values the previous    *)
(* launch left in g_agg and g_incl, every block is packed once, at the sum   *)
(* of the costs of the blocks before it.                                     *)
LookBackIsScan == LbScan!ScanSpec

(* Spinning never deadlocks: with CTAs dispatched in order, and any residency*)
(* limit, every launch that starts ends.                                     *)
KernelsEnd ==
    \A n \in 1..LbLaunches :
        (lbLaunch = n /\ \E t \in Tiles : lbPc[t] # "queued") ~> (lbLaunch = n /\ KernelDone)
=============================================================================
