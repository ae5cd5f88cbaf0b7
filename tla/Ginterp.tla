------------------------------ MODULE Ginterp -------------------------------
(* GInterpStage: interpolation from a grid of anchors, level by level, over  *)
(* tiles that share their borders, with the residuals quantised on the way.  *)
(* A border point is encoded by every tile that holds it, its code is stored *)
(* by one of them, and every tile decodes it from that code.  Codes are laid *)
(* out by level; a code beyond the radius goes to the outliers.              *)
(* Values are integers; `\div` stands for the rounding of the floating-point *)
(* interpolation, which is the same in both directions.  Tile edge (16) and  *)
(* levels (4) are scaled down together: the edge is 2^levels.                *)
(* stConf: [kind |-> "ginterp", data, size, eb, errorBound, den, ebMode,     *)
(* base, radius, minRadius, codeSize, codeBits, cap, capDen, dims, levels,   *)
(* stride, mode, alpha, beta, float]: stride is the distance of the sample   *)
(* blocks in tiles, alpha (in thousandths) and beta the manual pair or 0.    *)
(* stMem: the absolute bound, the outlier counter, the radius and the        *)
(* resolved INTERPOLATION_PARAMS of the last call.                           *)
EXTENDS LorenzoQuant

GiEdge == 2^stConf.levels
GiSides == IF stConf.dims[3] > 1 THEN 3 ELSE 2
GiDimsSet == stConf.dims[1] > 0 /\ stConf.dims[2] > 1
GiCount == stConf.dims[1] * stConf.dims[2] * stConf.dims[3]
ginterpAnchorLen == [a \in 1..3 |-> DivUp(stConf.dims[a], GiEdge)]
Offset3(g, d) == g[1] + g[2] * d[1] + g[3] * d[1] * d[2]
Plus(o, p) == [a \in 1..3 |-> o[a] + p[a]]
Minus(g, o) == [a \in 1..3 |-> g[a] - o[a]]
Along(p, a, k) == [p EXCEPT ![a] = @ + k]
\* Corner of the tile that stores g.
GiOrigin(g) == [a \in 1..3 |-> g[a] - (g[a] % GiEdge)]
GiGrid == (0..stConf.dims[1] - 1) \X (0..stConf.dims[2] - 1) \X (0..stConf.dims[3] - 1)
GiOrigins == {g \in GiGrid : GiOrigin(g) = g}
\* The tiles, the first axis running fastest.
GiTiles ==
    [i \in 1..Cardinality(GiOrigins) |->
        CHOOSE o \in GiOrigins : Offset3([a \in 1..3 |-> o[a] \div GiEdge], ginterpAnchorLen) = i - 1]

\* Positions of the tile at o, the far border included, that are in the data.
xyz_predicate(o) ==
    LET upTo(a) == 0..Min({GiEdge, stConf.dims[a] - 1 - o[a]}) IN upTo(1) \X upTo(2) \X upTo(3)
\* Odd: halfway between two points of the coarser grid.
IsOdd(p, a, u) == p[a] % (2 * u) = u
OnGrid(p, a, u) == p[a] % u = 0

\* Points before and after p along a that can be used: 4 is two on each side.
get_interp_order(o, p, a, u) ==
    LET inner == o[a] + GiEdge < stConf.dims[a]
        back3 == p[a] >= 3 * u
        ahead3 == p[a] + 3 * u <= GiEdge /\ (inner \/ o[a] + p[a] + 3 * u < stConf.dims[a])
        ahead1 == inner \/ o[a] + p[a] + u < stConf.dims[a]
    IN  CASE ahead3 -> IF back3 THEN 4 ELSE 2
          [] ~ahead3 /\ ahead1 -> IF back3 THEN 3 ELSE 1
          [] OTHER -> 0
\* Interpolation along a from the points of that order.
ByOrder(s, p, a, u, order, natural) ==
    LET t(k) == s[Along(p, a, k * u)]
    IN  CASE order = 4 -> IF natural THEN (-3 * t(-3) + 23 * t(-1) + 23 * t(1) - 3 * t(3)) \div 40
                                     ELSE (-t(-3) + 9 * t(-1) + 9 * t(1) - t(3)) \div 16
          [] order = 3 -> (-t(-3) + 6 * t(-1) + 3 * t(1)) \div 8
          [] order = 2 -> (3 * t(-1) + 6 * t(1) - t(3)) \div 8
          [] order = 1 -> (t(-1) + t(1)) \div 2
          [] order = 0 -> t(-1)
Interpolated(s, o, p, a, u, natural) ==
    ByOrder(s, p, a, u, get_interp_order(o, p, a, u), natural)

\* One axis after the other; this kernel takes the natural weights for 0.
AxisOrder(reverse) == IF reverse THEN SubSeq(<<1, 2, 3>>, 1, GiSides)
                      ELSE SubSeq(<<3, 2, 1>>, 4 - GiSides, 3)
AxisPoints(s, axes, k, u) ==
    {p \in DOMAIN s : /\ IsOdd(p, axes[k], u)
                      /\ \A j \in 1..k - 1 : OnGrid(p, axes[j], u)
                      /\ \A j \in k + 1..Len(axes) : OnGrid(p, axes[j], 2 * u)}
interpolate_stage(s, o, p, a, u, natural) == Interpolated(s, o, p, a, u, ~natural)

\* Points with k coordinates halfway: edges, faces and the middle of a cube.
MdPoints(s, k, u) ==
    {p \in DOMAIN s : /\ \A a \in 1..3 : OnGrid(p, a, u)
                      /\ Cardinality({a \in 1..3 : IsOdd(p, a, u)}) = k}
\* Cubic beats quadratic beats linear; equals are averaged; with no point
\* ahead on either axis the parallelogram closes the face.
Rank(order) == CASE order = 4 -> 3 [] order \in {2, 3} -> 2 [] order \in {0, 1} -> order
FacePrediction(s, o, p, a, b, u, natural) ==
    LET va == Interpolated(s, o, p, a, u, natural)
        vb == Interpolated(s, o, p, b, u, natural)
        ra == Rank(get_interp_order(o, p, a, u))
        rb == Rank(get_interp_order(o, p, b, u))
    IN  CASE ra > rb -> va
          [] ra < rb -> vb
          [] ra = rb /\ ra > 0 -> (va + vb) \div 2
          [] ra = rb /\ ra = 0 -> va + vb - s[Along(Along(p, a, -u), b, -u)]
CubePrediction(s, o, p, u, natural) ==
    LET cubic == {a \in 1..3 : get_interp_order(o, p, a, u) = 4}
    IN  IF cubic = {} THEN Interpolated(s, o, p, 1, u, natural)
        ELSE SumSeq([a \in 1..3 |-> IF a \in cubic THEN Interpolated(s, o, p, a, u, natural) ELSE 0])
             \div Cardinality(cubic)
interpolate_stage_md(s, o, p, u, natural) ==
    LET odd == {a \in 1..3 : IsOdd(p, a, u)}
    IN  CASE Cardinality(odd) = 1 -> Interpolated(s, o, p, CHOOSE a \in odd : TRUE, u, natural)
          [] Cardinality(odd) = 2 -> FacePrediction(s, o, p, Max(odd), Min(odd), u, natural)
          [] Cardinality(odd) = 3 -> CubePrediction(s, o, p, u, natural)

\* Step k of a level: the points it predicts, and from what.
LevelPoints(s, flags, k, u) ==
    IF flags.md THEN MdPoints(s, k, u) ELSE AxisPoints(s, AxisOrder(flags.reverse), k, u)
LevelPrediction(s, o, p, flags, k, u) ==
    IF flags.md THEN interpolate_stage_md(s, o, p, u, flags.natural)
    ELSE interpolate_stage(s, o, p, AxisOrder(flags.reverse)[k], u, flags.natural)
\* The last step of level 0 leaves the far border to the tile that owns it.
StepPoints(s, flags, lev, k) ==
    IF lev = 0 /\ k = GiSides /\ (GiSides = 3 \/ ~(flags.md \/ flags.reverse))
    THEN {p \in LevelPoints(s, flags, k, 1) : \A a \in 1..GiSides : p[a] < GiEdge}
    ELSE LevelPoints(s, flags, k, 2^lev)

\* The quantum of a level: 2 eb / alpha^level, at least 2 eb / beta.
calc_eb(ebx2, par, lev) ==
    Max({(ebx2 * 1000^lev) \div par.alpha^lev, ebx2 \div par.beta})
\* Nearest multiple of the quantum, halves away from zero.
QuantumCode(err, q) == RoundDiv(err, q)

\* A tile under way: values s and codes c by position.
StepTaken(t, codes, preds, q, radius) ==
    [s |-> [p \in DOMAIN preds |-> preds[p] + (codes[p] - radius) * q] @@ t.s, c |-> codes @@ t.c]
CompressStep(t, preds, q, radius) ==
    StepTaken(t, [p \in DOMAIN preds |-> radius + QuantumCode(t.s[p] - preds[p], q)], preds, q, radius)
TileStep(t, o, par, ebx2, radius, lev, k, compress) ==
    LET preds == [p \in StepPoints(t.s, par.flags[lev], lev, k) |->
                     LevelPrediction(t.s, o, p, par.flags[lev], k, 2^lev)]
        q == calc_eb(ebx2, par, lev)
    IN  IF compress THEN CompressStep(t, preds, q, radius)
        ELSE StepTaken(t, [p \in DOMAIN preds |-> t.c[p]], preds, q, radius)
\* Coarse levels first, the steps of a level in turn.
GiSteps == FlattenSeq([l \in 1..stConf.levels |->
                          [k \in 1..GiSides |-> <<stConf.levels - l, k>>]])
spline_layout_interpolate(t, o, par, ebx2, radius, compress) ==
    FoldLeft(LAMBDA acc, st : TileStep(acc, o, par, ebx2, radius, st[1], st[2], compress), t, GiSteps)

\* Place of g in the code array: finest level last, each level without the
\* points of the next.
pre_compute(lev) == [a \in 1..3 |-> DivUp(stConf.dims[a], 2^lev)]
CodeLevel(g) == Max({l \in 0..stConf.levels : \A a \in 1..3 : g[a] % 2^l = 0})
CodeIndexAt(h, lev, coarser) ==
    IF lev = stConf.levels THEN Offset3(h, pre_compute(lev))
    ELSE Offset3(h, pre_compute(lev)) + coarser[1] * coarser[2] * coarser[3]
         - ((h[3] + 1) \div 2) * coarser[1] * coarser[2]
         - (IF h[3] % 2 = 0 THEN ((h[2] + 1) \div 2) * coarser[1] ELSE 0)
         - (IF h[3] % 2 = 0 /\ h[2] % 2 = 0 THEN (h[1] + 1) \div 2 ELSE 0)
CodeIndex(g) ==
    LET lev == CodeLevel(g)
    IN  CodeIndexAt([a \in 1..3 |-> g[a] \div 2^lev], lev, pre_compute(lev + 1))

c_gather_anchor(x) ==
    [i \in DOMAIN GiTiles |-> x[Offset3(GiTiles[i], stConf.dims) + 1]]
global2shmem_data(x, o) ==
    [p \in xyz_predicate(o) |-> x[Offset3(Plus(o, p), stConf.dims) + 1]]
\* The codes of the points the tile owns.
OwnCodes(t, o) ==
    [g \in {Plus(o, p) : p \in {q \in DOMAIN t.c : \A a \in 1..GiSides : q[a] < GiEdge}} |->
        t.c[Minus(g, o)]]
CompressedTile(s, o, par, ebx2, radius) ==
    OwnCodes(spline_layout_interpolate([s |-> s, c |-> [p \in DOMAIN s |-> radius]],
                                       o, par, ebx2, radius, TRUE), o)
c_spline_infprecis_data(x, par, ebx2, radius) ==
    FoldLeft(LAMBDA acc, o : CompressedTile(global2shmem_data(x, o), o, par, ebx2, radius) @@ acc,
             <<>>, GiTiles)
\* Codes by place, 0 where the code went to the outliers.
shmem2global_data_with_compaction(code, place, radius) ==
    [i \in 1..GiCount |->
        LET at == {g \in GiGrid : place[g] = i - 1}
            g == CHOOSE g \in at : TRUE
        IN  IF at # {} /\ code[g] \in 0..2 * radius - 1 THEN code[g] % 2^stConf.codeBits ELSE 0]
\* Threads claim the slots in any order; the list is then sorted by index.
GiOutliers(code, radius) ==
    SelectSeq([i \in 1..GiCount |-> <<(i - 1) % stConf.dims[1], ((i - 1) \div stConf.dims[1]) % stConf.dims[2],
                                      (i - 1) \div (stConf.dims[1] * stConf.dims[2])>>],
              LAMBDA g : code[g] \notin 0..2 * radius - 1)

\* What the decoder starts from: the anchors around the tile, zeros elsewhere.
x_reset_scratch_data(o, anchors) ==
    [p \in xyz_predicate(o) |->
        IF \A a \in 1..GiSides : p[a] % GiEdge = 0
        THEN anchors[Offset3([a \in 1..3 |-> (o[a] + p[a]) \div GiEdge], ginterpAnchorLen) + 1] ELSE 0]
global2shmem_fuse(o, codes, place, outlier) ==
    [p \in xyz_predicate(o) |->
        codes[place[Plus(o, p)] + 1] + outlier[Offset3(Plus(o, p), stConf.dims) + 1]]
\* A tile writes its values, the border left to the tiles that own it.
shmem2global_data(t, o) ==
    [i \in {Offset3(Plus(o, p), stConf.dims) + 1 : p \in {q \in DOMAIN t.s : \A a \in 1..GiSides : q[a] < GiEdge}} |->
        t.s[<<((i - 1) % stConf.dims[1]) - o[1], (((i - 1) \div stConf.dims[1]) % stConf.dims[2]) - o[2],
              ((i - 1) \div (stConf.dims[1] * stConf.dims[2])) - o[3]>>]]
x_spline_infprecis_data(codes, place, outlier, anchors, par, ebx2, radius) ==
    FoldLeft(LAMBDA acc, o :
                shmem2global_data(spline_layout_interpolate(
                    [s |-> x_reset_scratch_data(o, anchors), c |-> global2shmem_fuse(o, codes, place, outlier)],
                    o, par, ebx2, radius, FALSE), o) @@ acc,
             <<>>, GiTiles)

-----------------------------------------------------------------------------
(* The parameters of a call.                                                 *)
Flags(md, natural, reverse) == [md |-> md, natural |-> natural, reverse |-> reverse]
GiBaseline == [l \in 0..3 |-> Flags(l <= 1, FALSE, FALSE)]
\* alpha in thousandths from the relative bound p / q: a ramp per decade.
pickAlphaFromRelEb(p, q) ==
    IF 10 * p >= q THEN 2000
    ELSE LET decades == {k \in 1..4 : 10^(k + 1) * p >= q}
         IN  IF decades = {} THEN 1000
             ELSE LET k == Min(decades)
                  IN  2000 - 250 * k + (250 * (10^(k + 1) * p - q)) \div (9 * q)
GiRange(x) == Max(ToSet(x)) - Min(ToSet(x))
RelAlpha(x) ==
    IF stConf.ebMode # "ABS" THEN pickAlphaFromRelEb(stConf.errorBound, stConf.den)
    ELSE IF GiRange(x) > 0 THEN pickAlphaFromRelEb(stConf.errorBound, stConf.den * GiRange(x))
    ELSE pickAlphaFromRelEb(0, 1)
pickAutoRadius(range, ebx2) ==
    LET top == 2^(stConf.codeBits - 1) - 1
    IN  IF range <= 0 THEN stConf.minRadius
        ELSE Min({top, Max({stConf.minRadius, DivUp(4 * range, ebx2)})})

\* Error k of the profiling kernel: the level and the variant it is about.
Variant(level, j, natural) == [level |-> level, flags |-> Flags(j = 2, natural, j > 0)]
pre_compute_att(e) ==
    IF GiSides = 3
    THEN CASE e < 6 -> Variant(3 - (e \div 3), e % 3, FALSE)
           [] e \in 6..11 -> Variant(1, e % 3, e > 8)
           [] e \in 12..17 -> Variant(0, e % 3, e > 14)
    ELSE CASE e \in 6..8 -> Variant(3, e % 3, FALSE)
           [] e \in 9..14 -> Variant(2, e % 3, e > 11)
           [] e \in 15..20 -> Variant(1, e % 3, FALSE)
           [] e \in 21..26 -> Variant(0, e % 3, e > 23)
\* Quotient rounded towards zero.
Truncated(a, b) == IF a >= 0 THEN a \div b ELSE -((-a) \div b)
\* Corners of the sample blocks along a, around the middle.
calc_start_size(a) ==
    LET d == stConf.dims[a]
        stride == stConf.stride * GiEdge
        before == Truncated((d \div 2) - (GiEdge \div 2), stride)
        after == Truncated(d - (GiEdge \div 2) - 1 - (d \div 2), stride)
    IN  {Max({0, (d \div 2) - before * stride}) + i * stride : i \in 0..Max({0, before + after})}
global2shmem_data_att(x, o) == global2shmem_data(x, o)
\* Prediction errors of one level of a block, nothing being quantised.
ErrorsAt(s, points, Pred(_)) == MapThenSumSet(LAMBDA p : AbsOf(s[p] - Pred(p)), points)
interpolate_stage_att(s, o, v, k) ==
    ErrorsAt(s, AxisPoints(s, AxisOrder(v.flags.reverse), k, 2^v.level),
             LAMBDA p : interpolate_stage(s, o, p, AxisOrder(v.flags.reverse)[k], 2^v.level, v.flags.natural))
LineErrors(s, o, u, natural) ==
    ErrorsAt(s, MdPoints(s, 1, u),
             LAMBDA p : Interpolated(s, o, p, CHOOSE a \in 1..3 : IsOdd(p, a, u), u, natural))
FaceErrors(s, o, u, natural) ==
    ErrorsAt(s, MdPoints(s, 2, u), LAMBDA p : interpolate_stage_md(s, o, p, u, natural))
CubeErrors(s, o, u, natural) ==
    ErrorsAt(s, MdPoints(s, 3, u), LAMBDA p : CubePrediction(s, o, p, u, natural))
spline_layout_interpolate_att(s, o, v) ==
    CASE 2^v.level > GiEdge \div 2 -> 0
      [] 2^v.level <= GiEdge \div 2 /\ v.flags.md ->
            LineErrors(s, o, 2^v.level, v.flags.natural) + FaceErrors(s, o, 2^v.level, v.flags.natural)
            + (IF GiSides = 3 THEN CubeErrors(s, o, 2^v.level, v.flags.natural) ELSE 0)
      [] OTHER -> SumSeq([k \in 1..GiSides |-> interpolate_stage_att(s, o, v, k)])
\* Codes that would not be 0 with that alpha and beta; the flags of level 0
\* serve every level.
NonzeroCodes(s, o, par, ebx2) ==
    LET same == [par EXCEPT !.flags = [l \in DOMAIN @ |-> par.flags[0]]]
        coded == spline_layout_interpolate([s |-> s, c |-> [p \in DOMAIN s |-> 0]], o, same, ebx2, 0, TRUE)
    IN  Cardinality({p \in DOMAIN coded.c : coded.c[p] # 0})
SampleCorners == calc_start_size(1) \X calc_start_size(2) \X calc_start_size(3)
pa_spline_infprecis_data(x, e) ==
    MapThenSumSet(LAMBDA o : spline_layout_interpolate_att(global2shmem_data_att(x, o), o, pre_compute_att(e)),
                  SampleCorners)
kAlphaBeta == <<<<1000, 2>>, <<1250, 2>>, <<1500, 2>>, <<1500, 3>>, <<1500, 4>>, <<1750, 2>>,
                <<1750, 3>>, <<1750, 4>>, <<2000, 2>>, <<2000, 3>>, <<2000, 4>>>>
AlphaBetaErrors(x, flags, ebx2) ==
    [i \in 1..11 |-> MapThenSumSet(LAMBDA o : NonzeroCodes(
                         global2shmem_data_att(x, o), o,
                         [alpha |-> kAlphaBeta[i][1], beta |-> kAlphaBeta[i][2], flags |-> flags], ebx2),
                     SampleCorners)]

\* First of the smallest errors.
FirstBest(err, from, to) ==
    CHOOSE e \in from..to : /\ \A j \in from..to : err[e] <= err[j]
                            /\ \A j \in from..e - 1 : err[e] < err[j]
\* The order with the smaller error; both axes at once if that is smaller still.
BestOfThree(err, e) ==
    Flags(err[e + 2] < Min({err[e], err[e + 1]}), FALSE, err[e] > err[e + 1])
BestOfSix(err, from) ==
    LET i == FirstBest(err, from, from + 5) - from IN Flags(i % 3 = 2, i > 2, i % 3 > 0)
runAutoTuneMode3(err) ==
    (3 :> BestOfThree(err, 0)) @@ (2 :> BestOfThree(err, 3)) @@ (1 :> BestOfSix(err, 6)) @@ (0 :> BestOfSix(err, 12))
\* In two dimensions the decoder takes the other weights.
decode_6(err, from) == [BestOfSix(err, from) EXCEPT !.natural = ~@]
runAutoTuneMode3_2D(err) ==
    (3 :> BestOfThree(err, 6)) @@ (2 :> decode_6(err, 9)) @@ (1 :> decode_6(err, 15)) @@ (0 :> decode_6(err, 21))
TunedFlags(err) == IF GiSides = 3 THEN runAutoTuneMode3(err) ELSE runAutoTuneMode3_2D(err)
runAutoTuneMode4(err) == kAlphaBeta[FirstBest(err, 1, 11)]

\* Modes 1 and 2 decide from a handful of samples: any decision is possible.
runAutoTuneMode1 == {[l \in 0..3 |-> Flags(l <= 1, FALSE, r)] : r \in BOOLEAN}
runAutoTuneMode2 == {[l \in 0..3 |-> Flags(FALSE, n, r)] : n \in BOOLEAN, r \in BOOLEAN}
GiProfile(x) == [e \in (IF GiSides = 3 THEN 0..17 ELSE 6..26) |-> pa_spline_infprecis_data(x, e)]
Par(alpha, beta, flags) == [alpha |-> alpha, beta |-> beta, flags |-> flags]
\* The parameters the call may resolve to; `kept` are those of the last call.
GiParams(x, ebx2, kept) ==
    CASE stConf.mode = 5 ->
            {Par(IF stConf.alpha > 0 THEN stConf.alpha ELSE RelAlpha(x),
                 IF stConf.beta > 0 THEN stConf.beta ELSE 4, GiBaseline)}
      [] stConf.float /\ stConf.mode = 1 /\ GiSides = 3 -> {Par(RelAlpha(x), 4, f) : f \in runAutoTuneMode1}
      [] stConf.float /\ stConf.mode = 2 -> {Par(RelAlpha(x), 4, f) : f \in runAutoTuneMode2}
      [] stConf.float /\ stConf.mode \in {3, 4} ->
            UNION {IF stConf.mode = 3 THEN {Par(RelAlpha(x), 4, TunedFlags(err))}
                   ELSE {Par(ab[1], ab[2], TunedFlags(err)) :
                            ab \in {runAutoTuneMode4(AlphaBetaErrors(x, TunedFlags(err), ebx2))}} :
                      err \in {GiProfile(x)}}
      [] OTHER -> {kept}

GiAbsNumerator(x) ==
    IF stConf.ebMode = "ABS" \/ ValueBase(x) <= 0 THEN stConf.errorBound
    ELSE stConf.errorBound * ValueBase(x)
\* Chosen on the first call, then part of the configuration.
GiRadius(x, ebx2, mem) ==
    IF mem.radius > 0 THEN mem.radius
    ELSE pickAutoRadius(CASE stConf.ebMode = "NOA" /\ ValueBase(x) > 0 -> ValueBase(x)
                          [] stConf.ebMode = "PREL" /\ ValueBase(x) > 0 -> 2 * ValueBase(x)
                          [] OTHER -> GiRange(x), ebx2)
GiMem == IF stCall = 0 THEN [num |-> 0, count |-> 0, radius |-> stConf.radius,
                             par |-> Par(1750, 4, GiBaseline)]
         ELSE stMem
GiAnchors == Cardinality(GiOrigins)
GiBytes(n, outliers) ==
    n * stConf.codeSize + GiAnchors * stConf.size + outliers * (stConf.size + 4)

GinterpExecuted(x, num, radius, par, code, outliers) ==
    LET kept == Min({Len(outliers), getMaxOutlierCount(Len(x))})
    IN  ExecutedAs(x, [num |-> num, count |-> Len(outliers), radius |-> radius, par |-> par],
                   ("codes" :> shmem2global_data_with_compaction(code, [g \in GiGrid |-> CodeIndex(g)] @@ <<>>, radius))
                   @@ ("anchor" :> c_gather_anchor(x))
                   @@ ("outlier_vals" :> [s \in 1..kept |-> code[outliers[s]]])
                   @@ ("outlier_idxs" :> [s \in 1..kept |-> Offset3(outliers[s], stConf.dims)]),
                   GiBytes(Len(x), getMaxOutlierCount(Len(x))))
GiEbx2(num) == (2 * num) \div stConf.den
GinterpForward ==
    /\ StageReady("ginterp")
    /\ GiDimsSet
    /\ \E x \in StageInputs[stConf.data] \ {<<>>} :
       \E num \in {GiAbsNumerator(x)} :
       \E radius \in {GiRadius(x, GiEbx2(num), GiMem)} :
       \E par \in GiParams(x, GiEbx2(num), GiMem.par) :
       \E code \in {c_spline_infprecis_data(x, par, GiEbx2(num), radius)} :
           GinterpExecuted(x, num, radius, par, code, GiOutliers(code, radius))
\* Nothing is launched and the device counter is not reset.
GinterpForwardEmpty ==
    /\ StageReady("ginterp")
    /\ GiDimsSet
    /\ <<>> \in StageInputs[stConf.data]
    /\ ExecutedAs(<<>>, GiMem, <<>>, GiBytes(0, 0))
GinterpRefused ==
    /\ StageReady("ginterp")
    /\ ~GiDimsSet
    /\ \E x \in StageInputs[stConf.data] : Refused(x)

GinterpOverflow ==
    /\ Awaited("ginterp")
    /\ stMem.count > getMaxOutlierCount(Len(stIn))
    /\ SyncRefused("ginterp")
GinterpPostStreamSync ==
    /\ Awaited("ginterp")
    /\ stMem.count <= getMaxOutlierCount(Len(stIn))
    /\ SizedAs("ginterp", <<>>, IF stIn = <<>> THEN 0 ELSE GiBytes(Len(stIn), stMem.count))

scatterOutliersKernel(vals, idxs) ==
    [i \in 1..GiCount |-> IF \E s \in DOMAIN idxs : idxs[s] = i - 1
                          THEN vals[CHOOSE s \in DOMAIN idxs : idxs[s] = i - 1] ELSE 0]
\* The header carries the bound, radius, count, dimensions and parameters.
GinterpInverse ==
    /\ CanDecode("ginterp")
    /\ stIn # <<>>
    /\ \E outlier \in {scatterOutliersKernel(SubSeq(Section(stArchive, "outlier_vals"), 1, stMem.count),
                                             SubSeq(Section(stArchive, "outlier_idxs"), 1, stMem.count))} :
       \E out \in {x_spline_infprecis_data(Section(stArchive, "codes"), [g \in GiGrid |-> CodeIndex(g)] @@ <<>>,
                                           outlier, Section(stArchive, "anchor"),
                                           stMem.par, GiEbx2(stMem.num), stMem.radius)} :
           DecodedAs([i \in 1..GiCount |-> out[i]], Len(Section(stArchive, "codes")))

GinterpNext ==
    \/ GinterpForward \/ GinterpForwardEmpty \/ GinterpRefused
    \/ GinterpOverflow \/ GinterpPostStreamSync \/ GinterpInverse
=============================================================================
