--------------------------- MODULE ExclusiveScan ---------------------------
(* What a device-wide exclusive prefix sum promises its kernel: in every   *)
(* launch each item learns, once, the sum of the lengths of the items      *)
(* before it, and the next launch starts only when all of them know it.    *)
(* The two decoupled look-back kernels (LookBack, AdmScan) implement it.    *)
EXTENDS Naturals

CONSTANTS Items,     \* the items scanned, an initial segment of the naturals
          Launches,  \* how many times the kernel is launched
          Before,    \* [1..Launches -> [Items -> Nat]], the sums promised
          Unknown    \* the offset of an item that has not been resolved

VARIABLES scanLaunch, scanOffset

scanVars == <<scanLaunch, scanOffset>>

ScanInit ==
    /\ scanLaunch = 1
    /\ scanOffset = [i \in Items |-> Unknown]

\* The items of S learn their offsets together (a tile resolves all its blocks).
Resolve(S) ==
    /\ \A i \in S : scanOffset[i] = Unknown
    /\ scanOffset' = [i \in Items |->
                        IF i \in S THEN Before[scanLaunch][i] ELSE scanOffset[i]]
    /\ UNCHANGED scanLaunch

Relaunch ==
    /\ scanLaunch < Launches
    /\ \A i \in Items : scanOffset[i] # Unknown
    /\ scanLaunch' = scanLaunch + 1
    /\ scanOffset' = [i \in Items |-> Unknown]

ScanNext ==
    \/ \E S \in SUBSET Items : Resolve(S)
    \/ Relaunch

ScanSpec == ScanInit /\ [][ScanNext]_scanVars
=============================================================================
