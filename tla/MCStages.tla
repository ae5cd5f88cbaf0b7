------------------------------ MODULE MCStages ------------------------------
(* The stages and their kernels, each checked by itself: `part` picks the    *)
(* one that runs, the others stay in one of their initial states.  Sizes are *)
(* scaled down together (lanes, chunks, bits a byte, windows), so that       *)
(* partial tiles and chunks, several warps and every number of words per     *)
(* thread the LC coders tell apart occur on inputs of a few elements; only   *)
(* decoding with a number of words that is neither 1, 2 nor 4 in a chunk of  *)
(* at most 4 * TPB bytes does not, nor can it with chunks and words of a     *)
(* power of two.                                                             *)
EXTENDS MCCodecs, LookBack, AdmScan, Quantizer, LcStage, Adm

CONSTANT Parts   \* subset of {"lookback", "admscan", "quantizer", "lc", "adm", "codec"}

VARIABLE part

stageVars == <<part, lbVars, admVars, qVars, lcVars, amVars, stVars>>

\* Costs of five blocks, zeros included, for the two launches.
MCBlockCost == <<(0 :> 1 @@ 1 :> 2 @@ 2 :> 0 @@ 3 :> 3 @@ 4 :> 1),
                 (0 :> 3 @@ 1 :> 0 @@ 2 :> 0 @@ 3 :> 0 @@ 4 :> 2)>>

MCLength == <<[b \in 0..3 |-> [w \in 0..1 |-> b + w + 1]],
              [b \in 0..3 |-> [w \in 0..1 |-> 2 * ((b + w) % 2)]]>>
MCWarpsBefore(b, w) == {p \in (0..3) \X (0..1) : p[1] < b \/ (p[1] = b /\ p[2] < w)}
MCBefore ==
    [n \in 1..2 |-> [b \in 0..4 |-> [w \in 0..2 |->
        MapThenSumSet(LAMBDA p : MCLength[n][p[1]][p[2]], MCWarpsBefore(b, w))]]]

\* Three elements, the first two in one warp.
MCWarpOf == <<1, 1, 2>>
MCDither == <<-1, 2, 1>>
MCQConf(mode, zigzag, dither, max, optOut) ==
    [mode |-> mode, zigzag |-> zigzag, dither |-> dither, max |-> max, optOut |-> optOut]
MCQConfigs ==
    {MCQConf("split", z, d, n, FALSE) : z \in BOOLEAN, d \in BOOLEAN, n \in {1, 3}}
    \cup {MCQConf("fused", TRUE, FALSE, n, FALSE) : n \in {1, 3}}
    \cup {MCQConf("split", FALSE, FALSE, 0, TRUE)}
    \cup {MCQConf(m, FALSE, FALSE, 1, FALSE) : m \in {"inplace", "linear"}}
MCQInputs == {<<a, b, c>> : a \in {0, 2, -19}, b \in {-6, 9, 40}, c \in {3, -11, 24}}
MCQSecond == {<<5, 40, 1>>, <<-4, 7, -40>>}

\* Runs, zeros, squares: whole, short and tail chunks, compressible or not.
MCRuns(n, p, q, a, c) ==
    [i \in 1..n |-> IF i < p THEN a ELSE IF i < q THEN 2 ELSE IF i % 3 = 0 THEN c ELSE a]
MCLcInputs ==
    {MCRuns(n, 9, q, a, c) : n \in {3, 16, 35}, q \in {14, 22}, a \in {0, 3}, c \in {0, 1}}
    \cup {[i \in 1..n |-> (i * i) % 4] : n \in {5, 19}}
    \cup {MCRuns(70, 37, 50, 0, 1)}
\* Chunks of one, two, four and more words per thread, in bytes, shorts and
\* words of four bytes.
LcGeometry(c, w) == [C |-> c, W |-> w]
MCGeometries ==
    {LcGeometry(c, w) : c \in {16, 32, 64}, w \in {1, 2}} \cup {LcGeometry(64, 4), LcGeometry(256, 4)}
\* Accepted, with a last bitmap level of no bytes: 4096 or 8192 bytes in words
\* of four bytes, or 4096 in words of two, in the code.
MCThinGeometries == {LcGeometry(32, 4)}

\* Values around a mean of about 11, with outliers up to and past the capacity.
MCNear(n) == [i \in 1..n |-> 10 + (i % 3)]
MCAdmInputs ==
    {[MCNear(n) EXCEPT ![p] = v] : n \in {3, 6, 8, 13}, p \in 1..3,
                                   v \in {0, 5, 17, 30, 50, 57, 60, 90}}
    \cup {[MCNear(8) EXCEPT ![2] = a, ![3] = b, ![4] = c] :
             a \in {0, 11, 25}, b \in {11, 20, 30}, c \in {1, 40}}
MCAdmTails == {<<0, 0, 0, 0>>, <<12, 12, 60, 12>>}

First(S) == CHOOSE x \in S : TRUE
StagesInit ==
    /\ part \in Parts
    /\ StageInit
    /\ part # "codec" => stConf.kind = "golomb"
    /\ part # "quantizer" => qConf = First(QConfigs) /\ qIn = First(QInputs)
    /\ part # "lc" => lcCoder = First(LcCoders) /\ lcGeo = First(LcGeometries)
    /\ part # "adm" => /\ amWidth = First(Widths)
                       /\ amPath = First(Paths)
                       /\ amIn = First(AdmInputs)
                       /\ amTail = First(AdmTails)
    /\ LbInit /\ AdmInit /\ QInit /\ LcInit /\ AdmMapInit

CodecOnly == part = "codec" /\ UNCHANGED <<part, lbVars, admVars, qVars, lcVars, amVars>>

StagesNext ==
    \/ part = "lookback" /\ LbNext /\ UNCHANGED <<part, admVars, qVars, lcVars, amVars, stVars>>
    \/ part = "admscan" /\ AdmNext /\ UNCHANGED <<part, lbVars, qVars, lcVars, amVars, stVars>>
    \/ part = "quantizer" /\ QNext /\ UNCHANGED <<part, lbVars, admVars, lcVars, amVars, stVars>>
    \/ part = "lc" /\ LcNext /\ UNCHANGED <<part, lbVars, admVars, qVars, amVars, stVars>>
    \/ part = "adm" /\ AdmMapNext /\ UNCHANGED <<part, lbVars, admVars, qVars, lcVars, stVars>>
    \/ CodecOnly /\ RleNext
    \/ CodecOnly /\ BitpackNext
    \/ CodecOnly /\ GolombRiceNext
    \/ CodecOnly /\ AdaptiveNext
    \/ CodecOnly /\ RecodeNext
    \/ CodecOnly /\ LorenzoNext
    \/ CodecOnly /\ TiledLorenzoNext
    \/ CodecOnly /\ LorenzoQuantNext
    \/ CodecOnly /\ AdaptiveLorenzoNext
    \/ CodecOnly /\ GinterpNext
    \/ CodecOnly /\ GpulzNext
    \/ CodecOnly /\ HuffmanNext
    \/ CodecOnly /\ SzxNext
    \/ CodecOnly /\ BitshuffleNext
    \/ CodecOnly /\ LogNext
    \/ CodecOnly /\ StructuralNext
    \/ CodecOnly /\ QuantStageNext
    \/ CodecOnly /\ ChunkFusionNext

\* The device gives every resident warp and thread block its turns, and starts
\* the next one when there is room.
StagesFairness ==
    /\ \A t \in Tiles : WF_lbVars(part = "lookback" /\ WarpStep(t))
    /\ \A b \in AdmBlocks : WF_admVars(part = "admscan" /\ BlockStep(b))

StagesSpec == StagesInit /\ [][StagesNext]_stageVars /\ StagesFairness
=============================================================================
