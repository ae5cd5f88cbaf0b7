---------------------------- MODULE LogTransform ----------------------------
(* LogTransformStage: magnitudes are replaced by their base-2 logarithms,    *)
(* signs packed into bits, and values that have no usable logarithm (zero,   *)
(* denormal, infinite, below the threshold, or not restored by exp2 within   *)
(* the tolerance) are kept as outliers in slots the threads claim with an    *)
(* atomic counter.                                                           *)
(* stConf: [kind |-> "log", size, errorBound, minBound, threshold, inf, cap, *)
(* capDen, minSlots, byte]: the capacity is cap / capDen.  The magnitudes    *)
(* that log2 followed by exp2 restores are the powers of two.                *)
(* stMem: [n, count, kept]: num_elements_, the device counter and            *)
(* actual_outlier_count_.                                                    *)
EXTENDS StageBase

LogMem == stMem @@ [n |-> 0, count |-> 0, kept |-> 0]
maxOutlierCount(n) == Min({n, Max({stConf.minSlots, (n * stConf.cap) \div stConf.capDen})})
signBytes(n) == DivUp(n, stConf.byte)
LogBytes(n, outliers) == n * stConf.size + signBytes(n) + outliers * (stConf.size + 4)

Log2(a) == Max({k \in 0..20 : 2^k <= a})
Escalates(x) ==
    \/ x = 0
    \/ AbsOf(x) >= stConf.inf
    \/ stConf.threshold > 0 /\ AbsOf(x) < stConf.threshold
    \/ 2^Log2(AbsOf(x)) # AbsOf(x)
\* FLT_MIN's exponent when no threshold is set.
LogFloor == IF stConf.threshold > 0 THEN Log2(stConf.threshold) ELSE 0
logTransformFwdKernel(x) == [i \in DOMAIN x |-> IF Escalates(x[i]) THEN LogFloor ELSE Log2(AbsOf(x[i]))]
\* Slots are claimed in the order the threads get there: two of the orders.
SlotOrders(x) ==
    LET ascending == SelectSeq(Indices(Len(x)), LAMBDA i : Escalates(x[i]))
    IN  {ascending, Reverse(ascending)}
\* Byte b, from 0, as the set of its ones.
logTransformSignPackKernel(x) ==
    [b \in 0..signBytes(Len(x))-1 |->
        {j \in 0..stConf.byte-1 : b * stConf.byte + j < Len(x) /\ x[b * stConf.byte + j + 1] < 0}]

BoundRefused == stConf.errorBound <= 0 \/ stConf.errorBound < stConf.minBound
LogForward ==
    /\ StageReady("log")
    /\ ~BoundRefused
    /\ \E x \in StageInputs[stConf.data] \ {<<>>} : \E order \in SlotOrders(x) :
        LET room == maxOutlierCount(Len(x))
            slots == 1..Min({room, Len(order)})
        IN  ExecutedAs(x, [LogMem EXCEPT !.n = Len(x), !.count = Len(order)],
                       [output |-> logTransformFwdKernel(x), signs |-> logTransformSignPackKernel(x),
                        outlier_vals |-> [s \in slots |-> x[order[s]]],
                        outlier_idxs |-> [s \in slots |-> order[s]]],
                       LogBytes(Len(x), room))
\* Nothing is launched, and the device counter is not reset.
LogForwardEmpty ==
    /\ StageReady("log")
    /\ ~BoundRefused
    /\ <<>> \in StageInputs[stConf.data]
    /\ ExecutedAs(<<>>, [LogMem EXCEPT !.n = 0, !.kept = 0], [output |-> <<>>], 0)
LogRefused ==
    /\ StageReady("log")
    /\ BoundRefused
    /\ \E x \in StageInputs[stConf.data] : Refused(x)

LogOverflow == stMem.count > maxOutlierCount(stMem.n)
LogPostStreamSync ==
    /\ Awaited("log")
    /\ ~LogOverflow
    /\ SizedLeaving("log", [stMem EXCEPT !.kept = stMem.count], LogBytes(stMem.n, stMem.count))
\* Values were lost; after an empty call, only an old count is too large.
LogSyncThrows ==
    /\ Awaited("log")
    /\ LogOverflow
    /\ SyncRefusedLeaving("log", [stMem EXCEPT !.kept = maxOutlierCount(stMem.n)])

logTransformInvKernel(y, signs) ==
    [i \in DOMAIN y |->
        IF (i - 1) % stConf.byte \in signs[(i - 1) \div stConf.byte] THEN -(2^y[i]) ELSE 2^y[i]]
scatter_assign_kernel(vals, idxs, out) ==
    [i \in DOMAIN out |-> LET slot == {s \in DOMAIN idxs : idxs[s] = i}
                          IN  IF slot = {} THEN out[i] ELSE vals[CHOOSE s \in slot : TRUE]]
\* The header carries num_elements_ and the outlier count.
LogInverse ==
    /\ CanDecode("log")
    /\ \E y \in {Section(stArchive, "output")} :
       \E n \in {IF stMem.n > 0 THEN stMem.n ELSE Len(y)} :
           DecodedAs(IF n = 0 THEN <<>>
                     ELSE scatter_assign_kernel(SubSeq(Section(stArchive, "outlier_vals"), 1, stMem.kept),
                                                SubSeq(Section(stArchive, "outlier_idxs"), 1, stMem.kept),
                                                logTransformInvKernel(SubSeq(y, 1, n), Section(stArchive, "signs"))),
                     Len(y))

LogNext ==
    LogForward \/ LogForwardEmpty \/ LogRefused \/ LogPostStreamSync \/ LogSyncThrows \/ LogInverse
=============================================================================
