--------------------------- MODULE DagExecProofs ---------------------------
(***************************************************************************)
(* What execute() guarantees for every wiring, every number of streams and *)
(* calls, and every interleaving of the device's streams with the host.    *)
(***************************************************************************)
EXTENDS DagExec, DagProofs, SequenceTheorems

-----------------------------------------------------------------------------
(***************************************************************************)
(* Enqueuing.                                                              *)
(***************************************************************************)

\* What is enqueued for a stage waits for the events that all its dependencies
\* record in the same call.
WaitsForAll(op) ==
    op.node # 0 =>
        /\ op.node \in Nodes
        /\ ProducersFirst => \A d \in Deps(op.node) : <<d, op.run>> \in op.waits

GoodOps == {op \in Ops : WaitsForAll(op)}
Logs == [Streams -> Seq(GoodOps)]

\* lg2 is lg with operations added at the end of its streams.
Extends(lg, lg2) ==
    \A t \in Streams : /\ Len(lg[t]) <= Len(lg2[t])
                       /\ \A i \in 1..Len(lg[t]) : lg2[t][i] = lg[t][i]

LEMMA BarrierType ==
    ASSUME NEW lg \in Logs, NEW s
    PROVE  Barrier(lg, s) \in [Streams -> Nat]
BY DEF Barrier, Logs

LEMMA EnqueueKeeps ==
    ASSUME NEW lg \in Logs, NEW s, NEW work \in GoodOps
    PROVE  Enqueue(lg, s, work) \in Logs /\ Extends(lg, Enqueue(lg, s, work))
<1> DEFINE op == [work EXCEPT !.after = Barrier(lg, s)]
<1>1. op \in GoodOps
  <2>1. Barrier(lg, s) \in [Streams -> Nat]
    BY BarrierType
  <2>2. op \in Ops
    BY <2>1 DEF GoodOps, Ops
  <2>3. op.node = work.node /\ op.run = work.run /\ op.waits = work.waits
    BY DEF GoodOps, Ops
  <2> QED
    BY <2>2, <2>3 DEF GoodOps, WaitsForAll
<1> HIDE DEF op
<1>2. Enqueue(lg, s, work) = [lg EXCEPT ![s] = Append(@, op)]
  BY DEF Enqueue, op
<1>3. ASSUME NEW t \in Streams
      PROVE  /\ Enqueue(lg, s, work)[t] \in Seq(GoodOps)
             /\ Len(lg[t]) <= Len(Enqueue(lg, s, work)[t])
             /\ \A i \in 1..Len(lg[t]) : Enqueue(lg, s, work)[t][i] = lg[t][i]
  <2>1. lg[t] \in Seq(GoodOps)
    BY DEF Logs
  <2>2. CASE t = s
    <3>1. Enqueue(lg, s, work)[t] = Append(lg[t], op)
      BY <1>2, <2>2 DEF Logs
    <3> QED
      BY <1>1, <2>1, <3>1
  <2>3. CASE t # s
    <3>1. Enqueue(lg, s, work)[t] = lg[t]
      BY <1>2, <2>3 DEF Logs
    <3> QED
      BY <2>1, <3>1
  <2> QED
    BY <2>2, <2>3
<1>4. Enqueue(lg, s, work) = [t \in Streams |-> Enqueue(lg, s, work)[t]]
  BY <1>2 DEF Logs
<1> QED
  BY <1>3, <1>4 DEF Logs, Extends

LEMMA ExtendsItself ==
    ASSUME NEW lg \in Logs
    PROVE  Extends(lg, lg)
BY DEF Extends, Logs

LEMMA ExtendsTransitive ==
    ASSUME NEW a \in Logs, NEW b \in Logs, NEW c \in Logs,
           Extends(a, b), Extends(b, c)
    PROVE  Extends(a, c)
<1> SUFFICES ASSUME NEW t \in Streams
             PROVE  /\ Len(a[t]) <= Len(c[t])
                    /\ \A i \in 1..Len(a[t]) : c[t][i] = a[t][i]
  BY DEF Extends
<1>1. Len(a[t]) \in Nat /\ Len(b[t]) \in Nat /\ Len(c[t]) \in Nat
  BY DEF Logs
<1>2. /\ Len(a[t]) <= Len(b[t]) /\ Len(b[t]) <= Len(c[t])
      /\ \A i \in 1..Len(a[t]) : b[t][i] = a[t][i]
      /\ \A i \in 1..Len(b[t]) : c[t][i] = b[t][i]
  BY DEF Extends
<1> QED
  BY <1>1, <1>2

-----------------------------------------------------------------------------
(***************************************************************************)
(* The inductive invariant.                                                *)
(***************************************************************************)

\* execute() runs on a finished plan, and in a call the nodes dispatched so
\* far have recorded their events in this very call.
HostInv ==
    /\ caller \in Callers
    /\ host \in {"idle", "dispatch", "sync"}
    /\ run \in 0..MaxRuns
    /\ aborted \subseteq 1..MaxRuns
    /\ dispatched \subseteq Nodes /\ executed \subseteq Nodes
    /\ allocated \subseteq g.bufs
    /\ recorded \in [Nodes -> 0..MaxRuns]
    /\ host # "idle" => phase = "ready" /\ run > 0
    /\ host = "dispatch" => \A n \in dispatched : recorded[n] = run

\* A call starts from full reference counts, also after a call that threw.
CountInv ==
    /\ dirty \in BOOLEAN
    /\ remaining \in [g.bufs -> Nat]
    /\ host = "idle" /\ ~dirty => remaining = RestoredCounts
    /\ host = "dispatch" =>
         \A b \in g.bufs :
            /\ remaining[b] >= Cardinality(g.cons[b] \ dispatched)
            /\ g.group = {} => remaining[b] = Cardinality(g.cons[b] \ dispatched)

\* A running operation is the next one of its stream and what it waits for has
\* fired.
DeviceInv ==
    /\ log \in Logs
    /\ pc \in [Streams -> Nat]
    /\ busy \in [Streams -> BOOLEAN]
    /\ fired \subseteq Nodes \X (0..MaxRuns)
    /\ content \in [g.bufs -> 0..MaxRuns]
    /\ mapped \subseteq g.bufs
    /\ \A s \in Streams : pc[s] <= Len(log[s])
    /\ \A s \in Streams : busy[s] => /\ pc[s] < Len(log[s])
                                     /\ Current(s).waits \subseteq fired

PlanInv == PlanTypeOK /\ LevelInv
ExecInv == PlanInv /\ HostInv /\ CountInv /\ DeviceInv

\* What depends on the wiring and the streams alone stays as it is.
LEMMA ExecFixed ==
    ASSUME g' = g, configured' = configured
    PROVE  /\ Streams' = Streams /\ Logs' = Logs
           /\ RestoredCounts' = RestoredCounts
<1>1. Streams' = Streams /\ Nodes' = Nodes /\ Ops' = Ops
        /\ (ProducersFirst)' = ProducersFirst /\ \A n : Deps(n)' = Deps(n)
  BY WiringFixed DEF Streams, Ops, Nodes
<1>2. GoodOps' = GoodOps
  BY <1>1 DEF GoodOps, WaitsForAll
<1> QED
  BY <1>1, <1>2 DEF Logs, RestoredCounts

LEMMA SetsOfBuffers ==
    ASSUME NEW n
    PROVE  /\ External \subseteq g.bufs /\ FusedInternal \subseteq g.bufs
           /\ Inputs(n) \subseteq g.bufs /\ Outputs(n) \subseteq g.bufs
           /\ NewOutputs(n) \subseteq g.bufs /\ LastRead(n) \subseteq g.bufs
           /\ FusedReads \subseteq g.bufs /\ FusedWrites \subseteq g.bufs
           /\ PipelineOutputs \subseteq g.bufs
BY DEF External, FusedInternal, Inputs, Outputs, NewOutputs, LastRead,
       FusedReads, FusedWrites, PipelineOutputs

LEMMA RestoredType ==
    ASSUME IsWiring(g)
    PROVE  RestoredCounts \in [g.bufs -> Nat]
<1>1. \A b \in g.bufs : g.cons[b] \subseteq Nodes
  BY DEF IsWiring, Nodes
<1> QED
  BY <1>1, FiniteParts DEF RestoredCounts

LEMMA ExecInvInit == ExecInit => ExecInv
<1> SUFFICES ASSUME ExecInit PROVE ExecInv
  OBVIOUS
<1>1. PlanInv
  BY LevelInvInit DEF ExecInit, PlanInv
<1>2. HostInv
  <2>1. allocated \subseteq g.bufs
    BY DEF ExecInit
  <2> QED
    BY <2>1, ExecAssumption DEF ExecInit, HostInv
<1>3. CountInv
  <2>1. remaining = RestoredCounts
    BY DEF ExecInit, RestoredCounts
  <2>2. remaining \in [g.bufs -> Nat]
    BY <1>1, <2>1, RestoredType DEF PlanInv, PlanTypeOK
  <2>3. host = "idle" /\ dirty = FALSE
    BY DEF ExecInit
  <2> QED
    BY <2>1, <2>2, <2>3 DEF CountInv
<1>4. DeviceInv
  <2>1. log \in Logs /\ \A s \in Streams : Len(log[s]) = 0
    BY DEF ExecInit, Logs
  <2>2. mapped \subseteq g.bufs
    BY <1>2, SetsOfBuffers DEF ExecInit, HostInv
  <2>3. /\ busy = [s \in Streams |-> FALSE]
        /\ pc = [s \in Streams |-> 0]
        /\ fired = {}
        /\ content = [b \in g.bufs |-> 0]
    BY DEF ExecInit
  <2>4. content \in [g.bufs -> 0..MaxRuns]
    BY <2>3, ExecAssumption
  <2> QED
    BY <2>1, <2>2, <2>3, <2>4 DEF DeviceInv
<1> QED
  BY <1>1, <1>2, <1>3, <1>4 DEF ExecInv

-----------------------------------------------------------------------------
(***************************************************************************)
(* The operations the host enqueues are good.                              *)
(***************************************************************************)
LEMMA NoWorkType ==
    ASSUME HostInv
    PROVE  /\ NoWork \in Ops /\ NoWork.run = run /\ NoWork.node = 0
           /\ NoWork.waits = {} /\ NoWork \in GoodOps
<1>1. [t \in Streams |-> 0] \in [Streams -> Nat]
  OBVIOUS
<1> QED
  BY <1>1 DEF NoWork, Ops, HostInv, GoodOps, WaitsForAll

LEMMA EventsType ==
    ASSUME HostInv, ExecAssumption, NEW S \in SUBSET Nodes
    PROVE  EventsOf(S) \in SUBSET (Nodes \X Nat)
BY DEF HostInv, EventsOf

\* The heart of the argument: execute() goes level by level, so when it comes
\* to a node, its producers have recorded their events in this call.
LEMMA ProducersRecorded ==
    ASSUME PlanInv, HostInv, host = "dispatch", NEW n, IsNext(n),
           ProducersFirst, NEW d \in Deps(n)
    PROVE  <<d, run>> \in EventsOf(Deps(n))
<1>1. n \in Nodes /\ d \in Nodes
  BY DepsAreNodes DEF IsNext, PlanInv, PlanTypeOK
<1>2. phase = "ready" /\ run > 0
  BY DEF HostInv
<1>3. n < cursor
  BY <1>1, <1>2 DEF PlanInv, LevelInv, PlanTypeOK, IsWiring, Nodes
<1>4. level[d] < level[n]
  BY <1>1, <1>3 DEF PlanInv, LevelInv, LevelsSoFar
<1>5. level[d] \in Int /\ level[n] \in Int
  BY <1>1 DEF PlanInv, PlanTypeOK
<1>6. d \in dispatched
  BY <1>1, <1>4, <1>5 DEF IsNext
<1>7. recorded[d] = run
  BY <1>6 DEF HostInv
<1> QED
  BY <1>2, <1>7 DEF EventsOf

LEMMA LaunchGood ==
    ASSUME PlanInv, HostInv, host = "dispatch", NEW n, IsNext(n)
    PROVE  Launch(n) \in GoodOps /\ FusedLaunch(n) \in GoodOps
<1>1. n \in Nodes /\ n \in Nat
  BY DEF IsNext, PlanInv, PlanTypeOK, IsWiring, Nodes
<1>2. Deps(n) \subseteq Nodes
  BY <1>1, DepsAreNodes DEF PlanInv, PlanTypeOK
<1>3. EventsOf(Deps(n)) \in SUBSET (Nodes \X Nat)
  BY <1>2, EventsType, ExecAssumption
<1>4. run \in 0..MaxRuns /\ g.group \subseteq Nodes
  BY DEF HostInv, PlanInv, PlanTypeOK, IsWiring, Nodes
<1>5. ProducersFirst => \A d \in Deps(n) : <<d, run>> \in EventsOf(Deps(n))
  BY ProducersRecorded
<1>6. NoWork \in Ops /\ NoWork.run = run
  BY NoWorkType
<1>7. /\ Launch(n) \in Ops /\ Launch(n).node = n /\ Launch(n).run = run
      /\ Launch(n).waits = EventsOf(Deps(n))
  BY <1>1, <1>3, <1>4, <1>6, SetsOfBuffers DEF Launch, Ops
<1>8. /\ FusedLaunch(n) \in Ops /\ FusedLaunch(n).node = n
      /\ FusedLaunch(n).run = run /\ FusedLaunch(n).waits = EventsOf(Deps(n))
  BY <1>1, <1>3, <1>4, <1>6, SetsOfBuffers DEF FusedLaunch, Ops
<1> QED
  BY <1>1, <1>5, <1>7, <1>8 DEF GoodOps, WaitsForAll

\* The other operations: those of a stage that throws, of reset(), of the
\* input copy, of the barrier and of the gather.
LEMMA ThrownGood ==
    ASSUME PlanInv, HostInv, host = "dispatch", NEW n, IsNext(n)
    PROVE  /\ [Launch(n) EXCEPT !.signals = {}, !.frees = {}] \in GoodOps
           /\ [FusedLaunch(n) EXCEPT !.signals = {}] \in GoodOps
           /\ [NoWork EXCEPT !.waits = EventsOf(Deps(n)),
                             !.allocs = NewOutputs(n)] \in GoodOps
           /\ [NoWork EXCEPT !.waits = EventsOf(Deps(n))] \in GoodOps
           /\ [NoWork EXCEPT !.signals = {n}] \in GoodOps
<1>1. Launch(n) \in GoodOps /\ FusedLaunch(n) \in GoodOps
  BY LaunchGood
<1>2. n \in Nodes /\ Deps(n) \subseteq Nodes
  BY DepsAreNodes DEF IsNext, PlanInv, PlanTypeOK
<1>3. EventsOf(Deps(n)) \in SUBSET (Nodes \X Nat)
  BY <1>2, EventsType, ExecAssumption
<1>4. NoWork \in Ops /\ NoWork.node = 0
  BY NoWorkType
<1>5. [Launch(n) EXCEPT !.signals = {}, !.frees = {}] \in GoodOps
  BY <1>1 DEF GoodOps, Ops, WaitsForAll
<1>6. [FusedLaunch(n) EXCEPT !.signals = {}] \in GoodOps
  BY <1>1 DEF GoodOps, Ops, WaitsForAll
<1>7. [NoWork EXCEPT !.waits = EventsOf(Deps(n)), !.allocs = NewOutputs(n)] \in GoodOps
  BY <1>3, <1>4, SetsOfBuffers DEF GoodOps, Ops, WaitsForAll
<1>8. [NoWork EXCEPT !.waits = EventsOf(Deps(n))] \in GoodOps
  BY <1>3, <1>4 DEF GoodOps, Ops, WaitsForAll
<1>9. [NoWork EXCEPT !.signals = {n}] \in GoodOps
  BY <1>2, <1>4 DEF GoodOps, Ops, WaitsForAll
<1> QED
  BY <1>5, <1>6, <1>7, <1>8, <1>9

LEMMA PlainGood ==
    ASSUME HostInv, NEW r \in 0..MaxRuns
    PROVE  /\ InputCopy(r) \in GoodOps
           /\ [NoWork EXCEPT !.reads = PipelineOutputs] \in GoodOps
           /\ JoinSet \subseteq Nodes /\ [NoWork EXCEPT !.waits = EventsOf(JoinSet)] \in GoodOps
<1>1. NoWork \in Ops /\ NoWork.node = 0
  BY NoWorkType
<1>2. JoinSet \subseteq Nodes
  BY DEF JoinSet, HostInv
<1>3. EventsOf(JoinSet) \in SUBSET (Nodes \X Nat)
  BY <1>2, EventsType, ExecAssumption
<1>4. InputCopy(r) \in GoodOps
  BY <1>1, SetsOfBuffers DEF InputCopy, GoodOps, Ops, WaitsForAll
<1>5. [NoWork EXCEPT !.reads = PipelineOutputs] \in GoodOps
  BY <1>1, SetsOfBuffers DEF GoodOps, Ops, WaitsForAll
<1>6. [NoWork EXCEPT !.waits = EventsOf(JoinSet)] \in GoodOps
  BY <1>1, <1>3 DEF GoodOps, Ops, WaitsForAll
<1> QED
  BY <1>2, <1>4, <1>5, <1>6

LEMMA EnqueueResetKeeps ==
    ASSUME HostInv, NEW lg \in Logs, NEW al \in SUBSET g.bufs
    PROVE  EnqueueReset(lg, al) \in Logs /\ Extends(lg, EnqueueReset(lg, al))
<1> DEFINE work == [NoWork EXCEPT !.frees = ResetFrees(al)]
<1>1. ResetFrees(al) \subseteq g.bufs
  BY DEF ResetFrees
<1>2. work \in GoodOps
  BY <1>1, NoWorkType DEF GoodOps, Ops, WaitsForAll
<1> HIDE DEF work
<1>3. EnqueueReset(lg, al) = IF ResetFrees(al) # {} THEN Enqueue(lg, 0, work) ELSE lg
  BY DEF EnqueueReset, EnqueueIf, work
<1>4. Enqueue(lg, 0, work) \in Logs /\ Extends(lg, Enqueue(lg, 0, work))
  BY <1>2, EnqueueKeeps
<1> QED
  BY <1>3, <1>4, ExtendsItself

-----------------------------------------------------------------------------
(***************************************************************************)
(* The device's part of the invariant.                                     *)
(***************************************************************************)

\* Work the host adds behind what is enqueued does not disturb the device.
LEMMA HostKeepsDevice ==
    ASSUME DeviceInv, log' \in Logs, Extends(log, log'),
           g' = g, configured' = configured, pc' = pc, busy' = busy,
           fired' = fired, mapped' = mapped,
           content' \in [g.bufs -> 0..MaxRuns]
    PROVE  DeviceInv'
<1>1. Streams' = Streams /\ Logs' = Logs /\ Nodes' = Nodes
  BY ExecFixed, WiringFixed
<1>2. ASSUME NEW s \in Streams
      PROVE  /\ pc[s] <= Len(log'[s])
             /\ busy[s] => /\ pc[s] < Len(log'[s])
                           /\ log'[s][pc[s] + 1].waits \subseteq fired
  <2>1. pc[s] \in Nat /\ Len(log[s]) \in Nat /\ Len(log'[s]) \in Nat
    BY DEF DeviceInv, Logs
  <2>2. /\ Len(log[s]) <= Len(log'[s])
        /\ \A i \in 1..Len(log[s]) : log'[s][i] = log[s][i]
    BY DEF Extends
  <2>3. pc[s] <= Len(log[s])
    BY DEF DeviceInv
  <2>4. ASSUME busy[s]
        PROVE  pc[s] < Len(log[s]) /\ log[s][pc[s] + 1].waits \subseteq fired
    BY <2>4 DEF DeviceInv, Current
  <2> QED
    BY <2>1, <2>2, <2>3, <2>4
<1>3. /\ log' \in Logs' /\ pc' \in [Streams' -> Nat]
      /\ fired' \subseteq Nodes' \X (0..MaxRuns)
      /\ content' \in [g'.bufs -> 0..MaxRuns] /\ mapped' \subseteq g'.bufs
  BY <1>1 DEF DeviceInv
<1>4. busy' \in [Streams' -> BOOLEAN]
  BY <1>1, Zenon DEF DeviceInv
<1>5. \A s \in Streams' : pc'[s] <= Len(log'[s])
  BY <1>1, <1>2
<1>6. \A s \in Streams' : busy'[s] => /\ pc'[s] < Len(log'[s])
                                      /\ log'[s][pc'[s] + 1].waits \subseteq fired'
  BY <1>1, <1>2
<1> QED
  BY <1>3, <1>4, <1>5, <1>6 DEF DeviceInv, Current

LEMMA StartOpDevice ==
    ASSUME DeviceInv, NEW s \in Streams, StartOp(s)
    PROVE  DeviceInv'
<1>1. g' = g /\ configured' = configured
  BY Zenon DEF StartOp, planVars
<1>2. Streams' = Streams /\ Logs' = Logs /\ Nodes' = Nodes
  BY <1>1, ExecFixed, WiringFixed
<1>3. /\ log' = log /\ pc' = pc /\ fired' = fired
      /\ busy' = [busy EXCEPT ![s] = TRUE]
      /\ mapped' = mapped \cup Current(s).allocs
      /\ content' = [b \in g.bufs |->
                       IF b \in Clobbered(Current(s).writes) THEN 0 ELSE content[b]]
      /\ pc[s] < Len(log[s]) /\ Current(s).waits \subseteq fired
  BY Zenon DEF StartOp
<1>4. pc[s] \in Nat /\ log[s] \in Seq(GoodOps)
  BY DEF DeviceInv, Logs
<1>5. Current(s) \in Ops
  BY <1>3, <1>4 DEF Current, GoodOps
<1>6. mapped' \subseteq g.bufs /\ content' \in [g.bufs -> 0..MaxRuns]
  BY <1>3, <1>5, ExecAssumption DEF DeviceInv, Ops
<1>7. busy' \in [Streams -> BOOLEAN] /\ \A t \in Streams : t # s => busy'[t] = busy[t]
  BY <1>3 DEF DeviceInv
<1>8. \A t \in Streams : busy'[t] => /\ pc[t] < Len(log[t])
                                     /\ log[t][pc[t] + 1].waits \subseteq fired
  BY <1>3, <1>7 DEF DeviceInv, Current
<1> QED
  BY <1>1, <1>2, <1>3, <1>6, <1>7, <1>8 DEF DeviceInv, Current

LEMMA FinishOpDevice ==
    ASSUME DeviceInv, NEW s \in Streams, FinishOp(s)
    PROVE  DeviceInv'
<1>1. g' = g /\ configured' = configured
  BY Zenon DEF FinishOp, planVars
<1>2. Streams' = Streams /\ Logs' = Logs /\ Nodes' = Nodes
  BY <1>1, ExecFixed, WiringFixed
<1>3. /\ log' = log /\ pc' = [pc EXCEPT ![s] = @ + 1]
      /\ fired' = fired \cup {<<n, Current(s).run>> : n \in Current(s).signals}
      /\ busy' = [busy EXCEPT ![s] = FALSE]
      /\ mapped' = mapped \ Current(s).frees
      /\ content' = [b \in g.bufs |->
                     IF b \in Current(s).frees THEN 0
                     ELSE IF b \in Current(s).writes THEN Current(s).run
                     ELSE IF b \in Clobbered(Current(s).writes) THEN 0
                     ELSE content[b]]
      /\ busy[s]
  BY Zenon DEF FinishOp
<1>4. pc[s] \in Nat /\ log[s] \in Seq(GoodOps) /\ pc[s] < Len(log[s])
  BY <1>3 DEF DeviceInv, Logs
<1>5. Current(s) \in Ops
  BY <1>4 DEF Current, GoodOps
<1>6. mapped' \subseteq g.bufs /\ content' \in [g.bufs -> 0..MaxRuns]
  BY <1>3, <1>5, ExecAssumption DEF DeviceInv, Ops
<1>7. fired' \subseteq Nodes \X (0..MaxRuns) /\ fired \subseteq fired'
  BY <1>3, <1>5 DEF DeviceInv, Ops
<1>8. busy' \in [Streams -> BOOLEAN] /\ ~busy'[s]
        /\ \A t \in Streams : t # s => busy'[t] = busy[t]
  BY <1>3 DEF DeviceInv
<1>9. pc' \in [Streams -> Nat] /\ \A t \in Streams : t # s => pc'[t] = pc[t]
  BY <1>3 DEF DeviceInv
<1>10. \A t \in Streams : pc'[t] <= Len(log[t])
  <2> SUFFICES ASSUME NEW t \in Streams PROVE pc'[t] <= Len(log[t])
    OBVIOUS
  <2>1. CASE t = s
    <3>1. pc'[s] = pc[s] + 1 /\ Len(log[s]) \in Nat
      BY <1>3, <1>4 DEF DeviceInv
    <3> QED
      BY <1>4, <2>1, <3>1
  <2>2. CASE t # s
    BY <1>9, <2>2 DEF DeviceInv
  <2> QED
    BY <2>1, <2>2
<1>11. \A t \in Streams : busy'[t] => /\ pc'[t] < Len(log[t])
                                      /\ log[t][pc'[t] + 1].waits \subseteq fired'
  <2> SUFFICES ASSUME NEW t \in Streams, busy'[t]
               PROVE  pc'[t] < Len(log[t]) /\ log[t][pc'[t] + 1].waits \subseteq fired'
    OBVIOUS
  <2>1. t # s /\ busy[t] /\ pc'[t] = pc[t]
    BY <1>8, <1>9
  <2>2. pc[t] < Len(log[t]) /\ log[t][pc[t] + 1].waits \subseteq fired
    BY <2>1 DEF DeviceInv, Current
  <2> QED
    BY <1>7, <2>1, <2>2
<1> QED
  BY <1>1, <1>2, <1>3, <1>6, <1>7, <1>8, <1>9, <1>10, <1>11 DEF DeviceInv, Current

LEMMA EnqueueIfKeeps ==
    ASSUME NEW c \in BOOLEAN, NEW lg \in Logs, NEW s, NEW work \in GoodOps
    PROVE  EnqueueIf(c, lg, s, work) \in Logs /\ Extends(lg, EnqueueIf(c, lg, s, work))
<1>1. CASE c
  BY <1>1, EnqueueKeeps DEF EnqueueIf
<1>2. CASE ~c
  BY <1>2, ExtendsItself DEF EnqueueIf
<1> QED
  BY <1>1, <1>2

\* The end of a call by an exception.
LEMMA AbortLog ==
    ASSUME HostInv, NEW lg \in Logs, Extends(log, lg), log \in Logs,
           NEW al \in SUBSET g.bufs, Abort(lg, al)
    PROVE  /\ log' \in Logs /\ Extends(log, log')
           /\ allocated' \subseteq g.bufs
           /\ g' = g /\ configured' = configured /\ pc' = pc /\ busy' = busy
           /\ fired' = fired /\ mapped' = mapped /\ content' = content
<1>1. /\ g' = g /\ configured' = configured /\ pc' = pc /\ busy' = busy
      /\ fired' = fired /\ mapped' = mapped /\ content' = content
  BY Zenon DEF Abort, planVars, gpuVars
<1>2. \/ log' = EnqueueReset(lg, al) /\ allocated' = al \ ResetFrees(al)
      \/ log' = lg /\ allocated' = al
  BY Zenon DEF Abort
<1>3. EnqueueReset(lg, al) \in Logs /\ Extends(lg, EnqueueReset(lg, al))
  BY EnqueueResetKeeps
<1>4. Extends(log, EnqueueReset(lg, al))
  BY <1>3, ExtendsTransitive
<1>5. allocated' \subseteq g.bufs
  BY <1>2
<1> QED
  BY <1>1, <1>2, <1>3, <1>4, <1>5

\* Each action of the host only adds good operations to the streams.
LEMMA HostStepLog ==
    ASSUME PlanInv, HostInv, DeviceInv, HostStep
    PROVE  /\ log' \in Logs /\ Extends(log, log')
           /\ allocated' \subseteq g.bufs
           /\ g' = g /\ configured' = configured /\ pc' = pc /\ busy' = busy
           /\ fired' = fired /\ mapped' = mapped
           /\ content' \in [g.bufs -> 0..MaxRuns]
<1> DEFINE Goal == /\ log' \in Logs /\ Extends(log, log')
                   /\ allocated' \subseteq g.bufs
                   /\ g' = g /\ configured' = configured /\ pc' = pc /\ busy' = busy
                   /\ fired' = fired /\ mapped' = mapped
                   /\ content' \in [g.bufs -> 0..MaxRuns]
<1>0. /\ log \in Logs /\ content \in [g.bufs -> 0..MaxRuns]
      /\ allocated \subseteq g.bufs /\ run \in 0..MaxRuns
  BY DEF HostInv, DeviceInv
<1>1. CASE BeginCall
  <2>1. /\ g' = g /\ configured' = configured /\ pc' = pc /\ busy' = busy
        /\ fired' = fired /\ mapped' = mapped /\ run' = run + 1 /\ run < MaxRuns
    BY <1>1, Zenon DEF BeginCall, planVars, gpuVars
  <2>2. run' \in 0..MaxRuns
    BY <1>0, <2>1, ExecAssumption
  <2>3. content' \in [g.bufs -> 0..MaxRuns]
    BY <1>0, <1>1, Zenon DEF BeginCall, gpuVars
  <2>4. InputCopy(run') \in GoodOps
    BY <2>2, PlainGood
  <2>5. \/ /\ log' = EnqueueIf(StagedInput, EnqueueReset(log, allocated), 0,
                               InputCopy(run'))
           /\ allocated' = allocated \ ResetFrees(allocated)
        \/ /\ log' = EnqueueIf(StagedInput, log, 0, InputCopy(run'))
           /\ allocated' = allocated
    BY <1>1, Zenon DEF BeginCall
  <2>6. allocated' \subseteq g.bufs
    BY <1>0, <2>5
  <2>7. EnqueueReset(log, allocated) \in Logs /\ Extends(log, EnqueueReset(log, allocated))
    BY <1>0, EnqueueResetKeeps
  <2>8. StagedInput \in BOOLEAN
    BY ExecAssumption DEF HostInv, StagedInput, Callings
  <2>9. ASSUME NEW lg \in Logs, Extends(log, lg),
               log' = EnqueueIf(StagedInput, lg, 0, InputCopy(run'))
        PROVE  log' \in Logs /\ Extends(log, log')
    <3>1. log' \in Logs /\ Extends(lg, log')
      BY <2>4, <2>8, <2>9, EnqueueIfKeeps
    <3> QED
      BY <1>0, <2>9, <3>1, ExtendsTransitive
  <2>10. log' \in Logs /\ Extends(log, log')
    BY <1>0, <2>5, <2>7, <2>9, ExtendsItself
  <2> QED
    BY <2>1, <2>3, <2>6, <2>10
<1>2. ASSUME NEW n \in Nodes, Dispatch(n) PROVE Goal
  <2>1. /\ g' = g /\ configured' = configured /\ pc' = pc /\ busy' = busy
        /\ fired' = fired /\ mapped' = mapped /\ content' = content
        /\ host = "dispatch" /\ IsNext(n)
        /\ log' = Enqueue(log, ExecStream(n), Launch(n))
        /\ allocated' = (allocated \cup NewOutputs(n)) \ LastRead(n)
    BY <1>2, Zenon DEF Dispatch, planVars, gpuVars
  <2>2. log' \in Logs /\ Extends(log, log')
    BY <1>0, <2>1, LaunchGood, EnqueueKeeps
  <2>3. allocated' \subseteq g.bufs
    BY <1>0, <2>1, SetsOfBuffers
  <2> QED
    BY <1>0, <2>1, <2>2, <2>3
<1>3. ASSUME NEW n \in Nodes, DispatchFusedHead(n) PROVE Goal
  <2>1. /\ g' = g /\ configured' = configured /\ pc' = pc /\ busy' = busy
        /\ fired' = fired /\ mapped' = mapped /\ content' = content
        /\ host = "dispatch" /\ IsNext(n)
        /\ log' = Enqueue(log, 0, FusedLaunch(n))
        /\ allocated' = allocated
    BY <1>3, Zenon DEF DispatchFusedHead, planVars, gpuVars
  <2>2. log' \in Logs /\ Extends(log, log')
    BY <1>0, <2>1, LaunchGood, EnqueueKeeps
  <2> QED
    BY <1>0, <2>1, <2>2
<1>4. ASSUME NEW n \in Nodes, DispatchFusedMember(n) PROVE Goal
  <2>1. /\ g' = g /\ configured' = configured /\ pc' = pc /\ busy' = busy
        /\ fired' = fired /\ mapped' = mapped /\ content' = content
        /\ host = "dispatch" /\ IsNext(n)
        /\ log' = Enqueue(log, 0, [NoWork EXCEPT !.signals = {n}])
        /\ allocated' = allocated
    BY <1>4, Zenon DEF DispatchFusedMember, planVars, gpuVars
  <2>2. log' \in Logs /\ Extends(log, log')
    BY <1>0, <2>1, ThrownGood, EnqueueKeeps
  <2> QED
    BY <1>0, <2>1, <2>2
<1>5. ASSUME NEW n \in Nodes, NEW launched \in BOOLEAN, ThrowStage(n, launched)
      PROVE  Goal
  <2> DEFINE work == IF launched THEN [Launch(n) EXCEPT !.signals = {}, !.frees = {}]
                     ELSE [NoWork EXCEPT !.waits = EventsOf(Deps(n)),
                                         !.allocs = NewOutputs(n)]
  <2>1. /\ host = "dispatch" /\ IsNext(n)
        /\ Abort(Enqueue(log, ExecStream(n), work), allocated \cup NewOutputs(n))
    BY <1>5, Zenon DEF ThrowStage
  <2>2. work \in GoodOps
    BY <2>1, ThrownGood
  <2> HIDE DEF work
  <2>3. /\ Enqueue(log, ExecStream(n), work) \in Logs
        /\ Extends(log, Enqueue(log, ExecStream(n), work))
    BY <1>0, <2>2, EnqueueKeeps
  <2>4. allocated \cup NewOutputs(n) \in SUBSET g.bufs
    BY <1>0, SetsOfBuffers
  <2> QED
    BY <1>0, <2>1, <2>3, <2>4, AbortLog
<1>6. ASSUME NEW n \in Nodes, NEW launched \in BOOLEAN, ThrowFused(n, launched)
      PROVE  Goal
  <2> DEFINE work == IF launched THEN [FusedLaunch(n) EXCEPT !.signals = {}]
                     ELSE [NoWork EXCEPT !.waits = EventsOf(Deps(n))]
  <2>1. /\ host = "dispatch" /\ IsNext(n)
        /\ Abort(Enqueue(log, 0, work), allocated)
    BY <1>6, Zenon DEF ThrowFused
  <2>2. work \in GoodOps
    BY <2>1, ThrownGood
  <2> HIDE DEF work
  <2>3. Enqueue(log, 0, work) \in Logs /\ Extends(log, Enqueue(log, 0, work))
    BY <1>0, <2>2, EnqueueKeeps
  <2> QED
    BY <1>0, <2>1, <2>3, AbortLog
<1>7. CASE JoinStreams
  <2>1. /\ g' = g /\ configured' = configured /\ pc' = pc /\ busy' = busy
        /\ fired' = fired /\ mapped' = mapped /\ content' = content
        /\ log' = EnqueueIf(JoinSet # {}, log, 0,
                            [NoWork EXCEPT !.waits = EventsOf(JoinSet)])
        /\ allocated' = allocated
    BY <1>7, Zenon DEF JoinStreams, planVars, gpuVars
  <2>2. [NoWork EXCEPT !.waits = EventsOf(JoinSet)] \in GoodOps
    BY <1>0, PlainGood
  <2>3. log' \in Logs /\ Extends(log, log')
    BY <1>0, <2>1, <2>2, EnqueueIfKeeps
  <2> QED
    BY <1>0, <2>1, <2>3
<1>8. CASE ReturnCompressed
  <2>1. /\ g' = g /\ configured' = configured /\ pc' = pc /\ busy' = busy
        /\ fired' = fired /\ mapped' = mapped /\ content' = content
        /\ log' = EnqueueIf(Cardinality(PipelineOutputs) > 1, log, 0,
                            [NoWork EXCEPT !.reads = PipelineOutputs])
        /\ allocated' = allocated
    BY <1>8, Zenon DEF ReturnCompressed, planVars, gpuVars
  <2>2. [NoWork EXCEPT !.reads = PipelineOutputs] \in GoodOps
    BY <1>0, PlainGood
  <2>3. log' \in Logs /\ Extends(log, log')
    <3>1. CASE Cardinality(PipelineOutputs) > 1
      <4>1. log' = Enqueue(log, 0, [NoWork EXCEPT !.reads = PipelineOutputs])
        BY <2>1, <3>1 DEF EnqueueIf
      <4> QED
        BY <1>0, <2>2, <4>1, EnqueueKeeps
    <3>2. CASE ~(Cardinality(PipelineOutputs) > 1)
      <4>1. log' = log
        BY <2>1, <3>2 DEF EnqueueIf
      <4> QED
        BY <1>0, <4>1, ExtendsItself
    <3> QED
      BY <3>1, <3>2
  <2> QED
    BY <1>0, <2>1, <2>3
<1>9. CASE ReturnDecompressed
  <2>1. /\ g' = g /\ configured' = configured /\ pc' = pc /\ busy' = busy
        /\ fired' = fired /\ mapped' = mapped /\ content' = content
        /\ log' = EnqueueReset(log, allocated)
        /\ allocated' = allocated \ ResetFrees(allocated)
    BY <1>9, Zenon DEF ReturnDecompressed, planVars, gpuVars
  <2>2. log' \in Logs /\ Extends(log, log')
    BY <1>0, <2>1, EnqueueResetKeeps
  <2> QED
    BY <1>0, <2>1, <2>2
<1>10. CASE ThrowResult
  <2>1. Abort(log, allocated)
    BY <1>10, Zenon DEF ThrowResult
  <2> QED
    BY <1>0, <2>1, AbortLog, ExtendsItself
<1>11. CASE ResetPipeline
  <2>1. /\ g' = g /\ configured' = configured /\ pc' = pc /\ busy' = busy
        /\ fired' = fired /\ mapped' = mapped /\ content' = content
        /\ log' = EnqueueReset(log, allocated)
        /\ allocated' = allocated \ ResetFrees(allocated)
    BY <1>11, Zenon DEF ResetPipeline, planVars, gpuVars
  <2>2. log' \in Logs /\ Extends(log, log')
    BY <1>0, <2>1, EnqueueResetKeeps
  <2> QED
    BY <1>0, <2>1, <2>2
<1> QED
  BY <1>1, <1>2, <1>3, <1>4, <1>5, <1>6, <1>7, <1>8, <1>9, <1>10, <1>11, Zenon
     DEF HostStep

-----------------------------------------------------------------------------
(***************************************************************************)
(* The host's part of the invariant, action by action.                     *)
(***************************************************************************)
LEMMA HostInvStep ==
    ASSUME PlanInv, HostInv, DeviceInv, HostStep
    PROVE  HostInv'
<1>1. allocated' \subseteq g.bufs /\ g' = g
  BY HostStepLog
<1>2. Nodes' = Nodes
  BY <1>1, WiringFixed
<1> USE DEF HostInv
<1>3. CASE BeginCall
  <2>1. /\ host' = "dispatch" /\ run' = run + 1 /\ run < MaxRuns
        /\ dispatched' = {} /\ aborted' = aborted /\ caller' = caller
        /\ recorded' = recorded
        /\ phase = "ready" /\ phase' = phase
        /\ (executed' = {} \/ executed' = executed)
    BY <1>3, Zenon DEF BeginCall, planVars
  <2> QED
    BY <1>1, <1>2, <2>1, ExecAssumption
<1>4. ASSUME NEW n \in Nodes, Dispatch(n) PROVE HostInv'
  <2>1. /\ host = "dispatch" /\ host' = host /\ run' = run
        /\ aborted' = aborted /\ caller' = caller /\ phase' = phase
        /\ recorded' = [recorded EXCEPT ![n] = run]
        /\ dispatched' = dispatched \cup {n}
        /\ executed' = executed \cup {n}
    BY <1>4, Zenon DEF Dispatch, planVars
  <2> QED
    BY <1>1, <1>2, <2>1
<1>5. ASSUME NEW n \in Nodes, DispatchFusedHead(n) PROVE HostInv'
  <2>1. /\ host = "dispatch" /\ host' = host /\ run' = run
        /\ aborted' = aborted /\ caller' = caller /\ phase' = phase
        /\ executed' = executed
        /\ recorded' = [m \in Nodes |-> IF m \in g.group THEN run ELSE recorded[m]]
        /\ dispatched' = dispatched \cup {n} /\ n \in g.group
    BY <1>5, Zenon DEF DispatchFusedHead, planVars
  <2> QED
    BY <1>1, <1>2, <2>1
<1>6. ASSUME NEW n \in Nodes, DispatchFusedMember(n) PROVE HostInv'
  <2>1. /\ host = "dispatch" /\ host' = host /\ run' = run
        /\ aborted' = aborted /\ caller' = caller /\ phase' = phase
        /\ executed' = executed
        /\ recorded' = [recorded EXCEPT ![n] = run]
        /\ dispatched' = dispatched \cup {n}
    BY <1>6, Zenon DEF DispatchFusedMember, planVars
  <2> QED
    BY <1>1, <1>2, <2>1
<1>7. ASSUME NEW lg, NEW al, host # "idle", Abort(lg, al) PROVE HostInv'
  <2>1. /\ aborted' = aborted \cup {run} /\ host' = "idle" /\ caller' = caller
        /\ (executed' = {} \/ executed' = executed)
        /\ run' = run /\ dispatched' = dispatched /\ recorded' = recorded
    BY <1>7, Zenon DEF Abort
  <2>2. run \in 1..MaxRuns
    BY <1>7, ExecAssumption
  <2> QED
    BY <1>1, <1>2, <2>1, <2>2
<1>8. ASSUME NEW n \in Nodes, NEW launched \in BOOLEAN,
             ThrowStage(n, launched) \/ ThrowFused(n, launched)
      PROVE  HostInv'
  <2>1. host = "dispatch" /\ \E lg, al : Abort(lg, al)
    BY <1>8, Zenon DEF ThrowStage, ThrowFused
  <2> QED
    BY <1>7, <2>1
<1>9. CASE JoinStreams
  <2>1. /\ host' = "sync" /\ host = "dispatch" /\ run' = run
        /\ aborted' = aborted /\ caller' = caller /\ phase' = phase
        /\ executed' = executed
        /\ recorded' = recorded /\ dispatched' = dispatched
    BY <1>9, Zenon DEF JoinStreams, planVars
  <2> QED
    BY <1>1, <1>2, <2>1
<1>10. CASE ReturnCompressed \/ ReturnDecompressed \/ ResetPipeline
  <2>1. /\ host' = "idle" /\ run' = run /\ caller' = caller
        /\ aborted' = aborted /\ (executed' = executed \/ executed' = {})
        /\ recorded' = recorded /\ dispatched' = dispatched
    BY <1>10, Zenon DEF ReturnCompressed, ReturnDecompressed, ResetPipeline
  <2> QED
    BY <1>1, <1>2, <2>1
<1>11. CASE ThrowResult
  <2>1. host = "sync" /\ Abort(log, allocated)
    BY <1>11, Zenon DEF ThrowResult
  <2> QED
    BY <1>7, <2>1
<1> QED
  BY <1>3, <1>4, <1>5, <1>6, <1>8, <1>9, <1>10, <1>11, Zenon DEF HostStep

\* Going through one more consumer of a buffer takes one off what is left.
LEMMA OneConsumerLess ==
    ASSUME IsWiring(g), NEW b \in g.bufs, NEW n \in Nodes \ dispatched
    PROVE  Cardinality(g.cons[b] \ (dispatched \cup {n})) =
             Cardinality(g.cons[b] \ dispatched) - (IF b \in Inputs(n) THEN 1 ELSE 0)
<1> DEFINE S == g.cons[b] \ dispatched
<1>1. IsFiniteSet(S) /\ Cardinality(S) \in Nat
  <2>1. S \in SUBSET Nodes
    BY DEF IsWiring, Nodes
  <2> QED
    BY <2>1, FiniteParts
<1>2. g.cons[b] \ (dispatched \cup {n}) = S \ {n}
  OBVIOUS
<1>3. b \in Inputs(n) <=> n \in S
  BY DEF Inputs
<1>4. CASE n \in S
  <2>1. Cardinality(S \ {n}) = Cardinality(S) - 1
    BY <1>1, <1>4, FS_RemoveElement
  <2> QED
    BY <1>2, <1>3, <1>4, <2>1
<1>5. CASE n \notin S
  <2>1. S \ {n} = S
    BY <1>5
  <2>2. Cardinality(g.cons[b] \ (dispatched \cup {n})) = Cardinality(S)
    BY <1>2, <2>1
  <2> HIDE DEF S
  <2>3. Cardinality(S) = Cardinality(S) - (IF b \in Inputs(n) THEN 1 ELSE 0)
    BY <1>1, <1>3, <1>5
  <2> QED
    BY <2>2, <2>3 DEF S
<1> QED
  BY <1>4, <1>5

LEMMA CountStep ==
    ASSUME PlanInv, HostInv, CountInv, DeviceInv, HostStep
    PROVE  CountInv'
<1>1. g' = g /\ IsWiring(g)
  BY HostStepLog DEF PlanInv, PlanTypeOK
<1>2. /\ RestoredCounts' = RestoredCounts
      /\ RestoredCounts \in [g.bufs -> Nat]
      /\ \A b \in g.bufs : RestoredCounts[b] = Cardinality(g.cons[b] \ {})
  <2>1. RestoredCounts' = RestoredCounts
    BY <1>1, ExecFixed DEF RestoredCounts
  <2>2. \A b \in g.bufs : g.cons[b] \ {} = g.cons[b]
    OBVIOUS
  <2> QED
    BY <1>1, <2>1, <2>2, RestoredType DEF RestoredCounts
<1> HIDE DEF RestoredCounts
<1>3. CASE BeginCall
  <2>1. host = "idle" /\ host' = "dispatch" /\ dispatched' = {} /\ dirty' = FALSE
    BY <1>3, Zenon DEF BeginCall
  <2>2. dirty => remaining' = RestoredCounts
    BY <1>3, Zenon DEF BeginCall
  <2>3. ~dirty => remaining' = remaining
    BY <1>3, Zenon DEF BeginCall
  <2>4. ~dirty => remaining = RestoredCounts
    BY <2>1, Zenon DEF CountInv
  <2>5. remaining' = RestoredCounts
    BY <2>2, <2>3, <2>4, Zenon
  <2>6. remaining' \in [g.bufs -> Nat]
    BY <1>2, <2>5
  <2>7. \A b \in g.bufs : remaining'[b] = Cardinality(g.cons[b] \ dispatched')
    BY <1>2, <2>1, <2>5
  <2>8. \A b \in g.bufs : remaining'[b] >= Cardinality(g.cons[b] \ dispatched')
    BY <2>6, <2>7
  <2>9. host' # "idle" /\ dirty' \in BOOLEAN
    BY <2>1
  <2> QED
    BY <1>1, <2>6, <2>7, <2>8, <2>9, Zenon DEF CountInv
<1>4. ASSUME NEW n \in Nodes, Dispatch(n) PROVE CountInv'
  <2>1. /\ host = "dispatch" /\ host' = "dispatch" /\ n \in Nodes \ dispatched
        /\ dispatched' = dispatched \cup {n}
        /\ remaining' = [b \in g.bufs |-> remaining[b] - IF b \in Inputs(n) THEN 1 ELSE 0]
        /\ dirty' = dirty
    BY <1>4, Zenon DEF Dispatch, IsNext
  <2>2. ASSUME NEW b \in g.bufs
        PROVE  /\ remaining'[b] \in Nat
               /\ remaining'[b] >= Cardinality(g.cons[b] \ dispatched')
               /\ g.group = {} => remaining'[b] = Cardinality(g.cons[b] \ dispatched')
    <3> DEFINE old == Cardinality(g.cons[b] \ dispatched)
               new == Cardinality(g.cons[b] \ dispatched')
               one == IF b \in Inputs(n) THEN 1 ELSE 0
    <3>1. new = old - one
      BY <1>1, <2>1, OneConsumerLess
    <3>2. old \in Nat /\ new \in Nat /\ one \in Nat
      <4>1. g.cons[b] \ dispatched \in SUBSET Nodes /\ g.cons[b] \ dispatched' \in SUBSET Nodes
        BY <1>1 DEF IsWiring, Nodes
      <4> QED
        BY <1>1, <4>1, FiniteParts
    <3>3. /\ remaining[b] \in Nat /\ remaining[b] >= old
          /\ g.group = {} => remaining[b] = old
      BY <2>1 DEF CountInv
    <3>4. remaining'[b] = remaining[b] - one
      BY <2>1
    <3> HIDE DEF old, new, one
    <3>5. /\ remaining'[b] \in Nat /\ remaining'[b] >= new
          /\ g.group = {} => remaining'[b] = new
      BY <3>1, <3>2, <3>3, <3>4
    <3> QED
      BY <3>5 DEF new
  <2>3. remaining' \in [g.bufs -> Nat]
    BY <2>1, <2>2
  <2>4. dirty' \in BOOLEAN
    BY <2>1, Zenon DEF CountInv
  <2> QED
    BY <1>1, <2>1, <2>2, <2>3, <2>4 DEF CountInv
<1>5. ASSUME NEW n \in Nodes, DispatchFusedHead(n) \/ DispatchFusedMember(n)
      PROVE  CountInv'
  <2>1. /\ host = "dispatch" /\ host' = "dispatch" /\ n \in Nodes \ dispatched
        /\ dispatched' = dispatched \cup {n}
        /\ remaining' = remaining /\ dirty' = dirty
    BY <1>5, Zenon DEF DispatchFusedHead, DispatchFusedMember, IsNext
  <2>2. g.group # {}
    BY <1>5 DEF DispatchFusedHead, DispatchFusedMember
  <2>3. ASSUME NEW b \in g.bufs
        PROVE  remaining[b] >= Cardinality(g.cons[b] \ dispatched')
    <3> DEFINE old == Cardinality(g.cons[b] \ dispatched)
               new == Cardinality(g.cons[b] \ dispatched')
               one == IF b \in Inputs(n) THEN 1 ELSE 0
    <3>1. new = old - one
      BY <1>1, <2>1, OneConsumerLess
    <3>2. old \in Nat /\ one \in Nat
      <4>1. g.cons[b] \ dispatched \in SUBSET Nodes
        BY <1>1 DEF IsWiring, Nodes
      <4> QED
        BY <1>1, <4>1, FiniteParts
    <3>3. remaining[b] \in Nat /\ remaining[b] >= old
      BY <2>1 DEF CountInv
    <3> HIDE DEF old, new, one
    <3>4. remaining[b] >= new
      BY <3>1, <3>2, <3>3
    <3> QED
      BY <3>4 DEF new
  <2>4. dirty' \in BOOLEAN
    BY <2>1, Zenon DEF CountInv
  <2> QED
    BY <1>1, <2>1, <2>2, <2>3, <2>4 DEF CountInv
<1>6. ASSUME NEW lg, NEW al, Abort(lg, al) PROVE CountInv'
  <2>1. /\ host' = "idle"
        /\ \/ remaining' = RestoredCounts /\ dirty' = FALSE
           \/ remaining' = remaining /\ dirty' = TRUE
    BY <1>6, Zenon DEF Abort
  <2> QED
    BY <1>1, <1>2, <2>1 DEF CountInv
<1>7. ASSUME NEW n \in Nodes, NEW launched \in BOOLEAN,
             ThrowStage(n, launched) \/ ThrowFused(n, launched)
      PROVE  CountInv'
  <2>1. \E lg, al : Abort(lg, al)
    BY <1>7, Zenon DEF ThrowStage, ThrowFused
  <2> QED
    BY <1>6, <2>1
<1>8. CASE JoinStreams
  <2>1. host' = "sync" /\ remaining' = remaining /\ dirty' = dirty
    BY <1>8, Zenon DEF JoinStreams
  <2> QED
    BY <1>1, <2>1 DEF CountInv
<1>9. CASE ReturnCompressed \/ ReturnDecompressed
  <2>1. /\ host' = "idle" /\ dirty' = TRUE
        /\ (remaining' = remaining \/ remaining' = RestoredCounts)
    BY <1>9, Zenon DEF ReturnCompressed, ReturnDecompressed
  <2> QED
    BY <1>1, <1>2, <2>1 DEF CountInv
<1>10. CASE ThrowResult
  BY <1>6, <1>10 DEF ThrowResult
<1>11. CASE ResetPipeline
  <2>1. host' = "idle" /\ dirty' = FALSE /\ remaining' = RestoredCounts
    BY <1>11, Zenon DEF ResetPipeline
  <2> QED
    BY <1>1, <1>2, <2>1 DEF CountInv
<1> QED
  BY <1>3, <1>4, <1>5, <1>7, <1>8, <1>9, <1>10, <1>11, Zenon DEF HostStep

-----------------------------------------------------------------------------
(***************************************************************************)
(* The whole step, and the theorems.                                       *)
(***************************************************************************)

\* A step that leaves the host, the streams and the plan's fixed part alone.
LEMMA PlanningKeeps ==
    ASSUME HostInv, CountInv, DeviceInv, UNCHANGED execVars,
           g' = g, configured' = configured, host # "idle" => phase' = phase
    PROVE  HostInv' /\ CountInv' /\ DeviceInv'
<1>1. UNCHANGED <<hostVars, log, gpuVars>>
  BY Zenon DEF execVars
<1>2. /\ Streams' = Streams /\ Logs' = Logs /\ Nodes' = Nodes
      /\ RestoredCounts' = RestoredCounts
  BY ExecFixed, WiringFixed
<1>3. HostInv'
  BY <1>1, <1>2 DEF HostInv, hostVars
<1>4. CountInv'
  BY <1>1, <1>2, Zenon DEF CountInv, hostVars
<1>5. DeviceInv'
  <2>1. log \in Logs /\ Extends(log, log) /\ content \in [g.bufs -> 0..MaxRuns]
    BY ExtendsItself DEF DeviceInv
  <2>2. /\ log' = log /\ pc' = pc /\ busy' = busy /\ fired' = fired
        /\ mapped' = mapped /\ content' = content
    BY <1>1, Zenon DEF gpuVars
  <2> QED
    BY <2>1, <2>2, HostKeepsDevice
<1> QED
  BY <1>3, <1>4, <1>5

\* finalize() fixes the wiring and the stream configuration.
LEMMA PlanStepFixed ==
    ASSUME PlanStep
    PROVE  g' = g /\ configured' = configured /\ phase # "ready"
<1>1. g' = g /\ configured' = configured
  BY Zenon DEF PlanStep, KahnVisit, KahnDone, AssignLevel, LevelsDone,
       AssignStreams, ColorBuffer, ColoringGuard, inputVars
<1>2. phase \in {"kahn", "levels", "streams", "color"}
  BY Zenon DEF PlanStep, KahnVisit, KahnDone, AssignLevel, LevelsDone,
       AssignStreams, ColorBuffer, ColoringGuard
<1> QED
  BY <1>1, <1>2

LEMMA PlanInvStep ==
    ASSUME PlanInv, [PlanStep]_planVars
    PROVE  PlanInv'
BY TypeStep, LevelStep DEF PlanInv

LEMMA ExecInvStep == ExecInv /\ [Next]_vars => ExecInv'
<1> SUFFICES ASSUME ExecInv, [Next]_vars PROVE ExecInv'
  OBVIOUS
<1> USE DEF ExecInv
<1>1. CASE PlanStep /\ UNCHANGED execVars
  <2>1. g' = g /\ configured' = configured /\ phase # "ready"
    BY <1>1, PlanStepFixed
  <2>2. host = "idle"
    BY <2>1 DEF HostInv
  <2> QED
    BY <1>1, <2>1, <2>2, PlanInvStep, PlanningKeeps
<1>2. CASE HostStep
  <2>1. UNCHANGED planVars
    BY <1>2, Zenon DEF HostStep, BeginCall, Dispatch, DispatchFusedHead,
         DispatchFusedMember, ThrowStage, ThrowFused, JoinStreams,
         ReturnCompressed, ReturnDecompressed, ThrowResult, ResetPipeline,
         Abort
  <2>2. PlanInv'
    BY <2>1, PlanInvStep
  <2>3. DeviceInv'
    BY <1>2, HostStepLog, HostKeepsDevice
  <2> QED
    BY <1>2, <2>2, <2>3, HostInvStep, CountStep
<1>3. ASSUME NEW s \in Streams, StartOp(s) \/ FinishOp(s) PROVE ExecInv'
  <2>1. UNCHANGED planVars /\ UNCHANGED hostVars
    BY <1>3, Zenon DEF StartOp, FinishOp
  <2>2. PlanInv'
    BY <2>1, PlanInvStep
  <2>3. DeviceInv'
    BY <1>3, StartOpDevice, FinishOpDevice
  <2>4. g' = g /\ configured' = configured /\ phase' = phase
    BY <2>1, Zenon DEF planVars
  <2>5. Nodes' = Nodes /\ RestoredCounts' = RestoredCounts
    BY <2>4, ExecFixed, WiringFixed
  <2>6. HostInv'
    BY <2>1, <2>4, <2>5 DEF HostInv, hostVars
  <2>7. CountInv'
    BY <2>1, <2>4, <2>5, Zenon DEF CountInv, hostVars
  <2> QED
    BY <2>2, <2>3, <2>6, <2>7
<1>4. CASE UNCHANGED vars
  <2>1. UNCHANGED planVars /\ UNCHANGED execVars
    BY <1>4, Zenon DEF vars
  <2>2. g' = g /\ configured' = configured /\ phase' = phase
    BY <2>1, Zenon DEF planVars
  <2> QED
    BY <2>1, <2>2, PlanInvStep, PlanningKeeps
<1> QED
  BY <1>1, <1>2, <1>3, <1>4, Zenon DEF Next

\* Every variable of execute(), of the call protocol and of the device keeps its
\* type; in particular no reference count ever drops below zero.
THEOREM ExecTypeCorrect == Spec => []ExecTypeOK
<1>1. ExecInv => ExecTypeOK
  <2> SUFFICES ASSUME ExecInv PROVE ExecTypeOK
    OBVIOUS
  <2>1. log \in [Streams -> Seq(Ops)]
    <3>1. Seq(GoodOps) \subseteq Seq(Ops)
      BY DEF GoodOps
    <3> QED
      BY <3>1 DEF ExecInv, DeviceInv, Logs
  <2> QED
    BY <2>1, Zenon DEF ExecInv, PlanInv, HostInv, CountInv, DeviceInv, ExecTypeOK
<1> QED
  BY <1>1, ExecInvInit, ExecInvStep, PTL DEF Spec

\* No stage starts before every stage it reads from has finished in the same
\* call, whatever the streams do, also in the calls after one that threw: the
\* cudaStreamWaitEvent calls of execute() are enough.
THEOREM DependenciesOrdered == Spec => []DependenciesComplete
<1>1. ExecInv => DependenciesComplete
  <2> SUFFICES ASSUME ExecInv, ProducersFirst, NEW s \in Streams, busy[s],
                      Current(s).node # 0, NEW d \in Deps(Current(s).node)
               PROVE  <<d, Current(s).run>> \in fired
    BY DEF DependenciesComplete
  <2>1. pc[s] < Len(log[s]) /\ Current(s).waits \subseteq fired
    BY DEF ExecInv, DeviceInv
  <2>2. pc[s] \in Nat /\ log[s] \in Seq(GoodOps)
    BY DEF ExecInv, DeviceInv, Logs
  <2>3. Current(s) \in GoodOps
    BY <2>1, <2>2 DEF Current
  <2> QED
    BY <2>1, <2>3 DEF GoodOps, WaitsForAll
<1> QED
  BY <1>1, ExecInvInit, ExecInvStep, PTL DEF Spec

\* The reference counts by which MINIMAL decides what to free are exact at
\* every point of every call, also after a call that threw half way.
THEOREM RefCountsCorrect == Spec => []RefCountExact
<1>1. ExecInv => RefCountExact
  BY DEF ExecInv, CountInv, RefCountExact
<1> QED
  BY <1>1, ExecInvInit, ExecInvStep, PTL DEF Spec

-----------------------------------------------------------------------------
(***************************************************************************)
(* What execute() guarantees of the data and of the memory of a pipeline   *)
(* that runs on the caller's stream alone: with no streams configured and  *)
(* one stage per level finalize() creates none (dag.cpp, assignStreams).   *)
(* The results hold for every such wiring, with and without buffer         *)
(* colouring, under both memory strategies (with a fused group under       *)
(* PREALLOCATE), for every call protocol and for every sequence of calls,  *)
(* exceptions and resets.                                                  *)
(*                                                                         *)
(* The device executes the operations of one stream in the order in which  *)
(* the host enqueued them.  The argument follows the memory through them:  *)
(* a timeline gives what is mapped, and what each buffer holds, after each *)
(* operation, and the host's flags are what the timeline ends with.        *)
(***************************************************************************)

\* No node has a stream of its own.
OneStream == \A n \in Nodes : streamOf[n] = 0

\* A buffer nobody reads is a result and is kept (compressor.cpp:791-798 and
\* compressor_inverse_dag.cpp:118).
OutputsPersistent == \A b \in g.bufs : g.cons[b] = {} => b \in g.persistent

\* A fused group needs PREALLOCATE, see FusionPreallocated.
Sequential == OneStream /\ ProducersFirst /\ OutputsPersistent /\ FusionPreallocated

\* The buffers, the memory each one shares with others, and what the caller
\* owns: all that the effect of an operation depends on.
World == [bufs |-> g.bufs, own |-> CallerOwned,
          shared |-> [b \in g.bufs |-> {a \in g.bufs : SharesMemory(a, b)}]]

\* The device as far as the caller's stream is concerned.
Device == [pc |-> pc[0], on |-> IF busy[0] THEN 1 ELSE 0,
           mapped |-> mapped, content |-> content]

Touched(w, S) == UNION {w.shared[b] : b \in S}

AfterMap(m, op) == (m \cup op.allocs) \ op.frees
DuringCon(w, c, op) ==
    [b \in w.bufs |-> IF b \in Touched(w, op.writes) THEN 0 ELSE c[b]]
AfterCon(w, c, op) ==
    [b \in w.bufs |-> IF b \in op.frees THEN 0
                      ELSE IF b \in op.writes THEN op.run
                      ELSE IF b \in Touched(w, op.writes) THEN 0 ELSE c[b]]

\* With memory m mapped and contents c the operation touches mapped memory
\* only, and what it reads is of its own call and not under its own output.
RunsWell(w, m, c, op) ==
    /\ op.reads \cup op.writes \subseteq m \cup op.allocs
    /\ \A b \in op.reads \ w.own : c[b] = op.run /\ b \notin Touched(w, op.writes)

\* M and C are the mapped memory and the contents after each operation of L.
History(w, L, M, C) ==
    \A i \in 1..Len(L) :
        /\ M[i] = AfterMap(M[i-1], L[i])
        /\ C[i] = AfterCon(w, C[i-1], L[i])
        /\ RunsWell(w, M[i-1], C[i-1], L[i])

\* The device is where the timeline says, between two operations or in one.
OnTime(w, d, L, M, C) ==
    \/ /\ d.on = 0
       /\ d.mapped = M[d.pc] /\ d.content = C[d.pc]
    \/ /\ d.on = 1
       /\ d.mapped = M[d.pc] \cup L[d.pc + 1].allocs
       /\ d.content = DuringCon(w, C[d.pc], L[d.pc + 1])

\* The timeline of L ends with m and c.
Timeline(w, d, L, m, c) ==
    \E M, C : /\ History(w, L, M, C) /\ OnTime(w, d, L, M, C)
              /\ m = M[Len(L)] /\ c = C[Len(L)]

\* The memory there is when al is allocated, and what reset() leaves of it.
Held(al) == al \cup External
AfterReset(al) == al \ ResetFrees(al)
IsAllocation(al) == al \subseteq Colorable

\* Only the caller's stream differs.
OthersKept(lg, lg2) == \A s \in Streams \ {0} : lg2[s] = lg[s]

\* How far the device is in L.
Within(d, L) == d.pc \in 0..Len(L) /\ (d.on = 1 => d.pc < Len(L))

\* An operation at the end of the stream moves the end of the timeline.
LEMMA TimelineAppend ==
    ASSUME NEW w, NEW d, NEW T, NEW L \in Seq(T), NEW m, NEW c, NEW op \in T,
           Within(d, L), Timeline(w, d, L, m, c), RunsWell(w, m, c, op)
    PROVE  /\ Within(d, Append(L, op))
           /\ Timeline(w, d, Append(L, op), AfterMap(m, op), AfterCon(w, c, op))
<1> DEFINE N == Len(L)
           L2 == Append(L, op)
<1>1. PICK M, C : /\ History(w, L, M, C) /\ OnTime(w, d, L, M, C)
                  /\ m = M[N] /\ c = C[N]
  BY DEF Timeline
<1> DEFINE m2 == AfterMap(m, op)
           c2 == AfterCon(w, c, op)
<1> DEFINE M2 == [i \in 0..(N + 1) |-> IF i <= N THEN M[i] ELSE m2]
           C2 == [i \in 0..(N + 1) |-> IF i <= N THEN C[i] ELSE c2]
<1>2. N \in Nat /\ Len(L2) = N + 1 /\ L2[N + 1] = op /\ \A i \in 1..N : L2[i] = L[i]
  OBVIOUS
<1>3. /\ \A i \in 0..N : M2[i] = M[i] /\ C2[i] = C[i]
      /\ M2[N + 1] = m2 /\ C2[N + 1] = c2
  BY <1>2
<1> HIDE DEF M2, C2, L2, N, m2, c2
<1>4. History(w, L2, M2, C2)
  <2> SUFFICES ASSUME NEW i \in 1..(N + 1)
               PROVE  /\ M2[i] = AfterMap(M2[i-1], L2[i])
                      /\ C2[i] = AfterCon(w, C2[i-1], L2[i])
                      /\ RunsWell(w, M2[i-1], C2[i-1], L2[i])
    BY <1>2 DEF History
  <2>1. CASE i <= N
    <3>1. i \in 1..N /\ i \in 0..N /\ i - 1 \in 0..N
      BY <1>2, <2>1
    <3>2. /\ M2[i] = M[i] /\ C2[i] = C[i] /\ M2[i-1] = M[i-1] /\ C2[i-1] = C[i-1]
          /\ L2[i] = L[i]
      BY <1>2, <1>3, <3>1
    <3> QED
      BY <1>1, <3>1, <3>2 DEF History, N
  <2>2. CASE i = N + 1
    <3>1. N \in 0..N /\ i - 1 = N
      BY <1>2, <2>2
    <3>2. /\ M2[i] = m2 /\ C2[i] = c2 /\ M2[i-1] = m /\ C2[i-1] = c /\ L2[i] = op
      BY <1>1, <1>2, <1>3, <2>2, <3>1
    <3> QED
      BY <3>2 DEF m2, c2
  <2> QED
    BY <1>2, <2>1, <2>2
<1>5. Within(d, L2)
  BY <1>2 DEF Within, N
<1>6. OnTime(w, d, L2, M2, C2)
  <2>1. d.pc \in 0..N
    BY DEF Within, N
  <2>2. M2[d.pc] = M[d.pc] /\ C2[d.pc] = C[d.pc]
    BY <1>3, <2>1
  <2>3. d.on = 1 => L2[d.pc + 1] = L[d.pc + 1]
    BY <1>2, <2>1 DEF Within, N
  <2> QED
    BY <1>1, <2>2, <2>3 DEF OnTime
<1> QED
  BY <1>2, <1>3, <1>4, <1>5, <1>6 DEF Timeline, L2, m2, c2

\* A running operation is one the timeline vouches for.
LEMMA TimelineCurrent ==
    ASSUME NEW w, NEW d, NEW L, NEW m, NEW c, Len(L) \in Nat,
           Within(d, L), Timeline(w, d, L, m, c), d.on = 1
    PROVE  LET op == L[d.pc + 1]
           IN  /\ op.reads \cup op.writes \subseteq d.mapped
               /\ \A b \in (op.reads \ w.own) \cap w.bufs : d.content[b] = op.run
<1>1. PICK M, C : History(w, L, M, C) /\ OnTime(w, d, L, M, C)
  BY DEF Timeline
<1> DEFINE op == L[d.pc + 1]
           i == d.pc + 1
<1>2. i \in 1..Len(L) /\ i - 1 = d.pc
  BY DEF Within
<1>3. RunsWell(w, M[d.pc], C[d.pc], op)
  BY <1>1, <1>2 DEF History
<1>4. d.mapped = M[d.pc] \cup op.allocs /\ d.content = DuringCon(w, C[d.pc], op)
  BY <1>1 DEF OnTime
<1> HIDE DEF op
<1> QED
  BY <1>3, <1>4 DEF RunsWell, DuringCon, op

\* At the end of the stream the device is where the timeline ends.
LEMMA TimelineDrained ==
    ASSUME NEW w, NEW d, NEW L, NEW m, NEW c,
           Timeline(w, d, L, m, c), d.on = 0, d.pc = Len(L)
    PROVE  d.mapped = m /\ d.content = c
BY DEF Timeline, OnTime

\* An operation starts: the timeline stays, the device is inside it.
LEMMA TimelineStart ==
    ASSUME NEW w, NEW d, NEW L, NEW m, NEW c, Len(L) \in Nat, Within(d, L),
           Timeline(w, d, L, m, c), NEW e, d.on = 0, d.pc < Len(L),
           e.on = 1, e.pc = d.pc, e.mapped = d.mapped \cup L[d.pc + 1].allocs,
           e.content = DuringCon(w, d.content, L[d.pc + 1])
    PROVE  Within(e, L) /\ Timeline(w, e, L, m, c)
<1>1. PICK M, C : /\ History(w, L, M, C) /\ OnTime(w, d, L, M, C)
                  /\ m = M[Len(L)] /\ c = C[Len(L)]
  BY DEF Timeline
<1>2. OnTime(w, e, L, M, C)
  BY <1>1 DEF OnTime
<1> QED
  BY <1>1, <1>2 DEF Timeline, Within

\* An operation ends: the device is behind it.
LEMMA TimelineFinish ==
    ASSUME NEW w, NEW d, NEW L, NEW m, NEW c, Len(L) \in Nat, Within(d, L),
           Timeline(w, d, L, m, c), NEW e, d.on = 1,
           e.on = 0, e.pc = d.pc + 1, e.mapped = d.mapped \ L[d.pc + 1].frees,
           e.content = AfterCon(w, d.content, L[d.pc + 1])
    PROVE  Within(e, L) /\ Timeline(w, e, L, m, c)
<1> DEFINE op == L[d.pc + 1]
           i == d.pc + 1
<1>1. PICK M, C : /\ History(w, L, M, C) /\ OnTime(w, d, L, M, C)
                  /\ m = M[Len(L)] /\ c = C[Len(L)]
  BY DEF Timeline
<1>2. i \in 1..Len(L) /\ i - 1 = d.pc
  BY DEF Within
<1>3. M[i] = AfterMap(M[d.pc], op) /\ C[i] = AfterCon(w, C[d.pc], op)
  BY <1>1, <1>2 DEF History
<1>4. d.mapped = M[d.pc] \cup op.allocs /\ d.content = DuringCon(w, C[d.pc], op)
  BY <1>1 DEF OnTime
<1> HIDE DEF op
<1>5. e.mapped = M[i]
  BY <1>3, <1>4 DEF AfterMap, op
<1>6. e.content = C[i]
  <2>1. AfterCon(w, DuringCon(w, C[d.pc], op), op) = AfterCon(w, C[d.pc], op)
    BY DEF AfterCon, DuringCon
  <2> QED
    BY <1>3, <1>4, <2>1 DEF op
<1>7. OnTime(w, e, L, M, C)
  BY <1>5, <1>6 DEF OnTime
<1>8. Within(e, L)
  BY <1>2 DEF Within
<1> QED
  BY <1>1, <1>7, <1>8 DEF Timeline

-----------------------------------------------------------------------------
(***************************************************************************)
(* What the host knows while it goes through the levels.                   *)
(***************************************************************************)

\* Nodes whose work has been enqueued in this call: a fused group runs with its
\* head.
Done == {n \in Nodes : n \in dispatched \/ (n \in g.group /\ FusedHead \in dispatched)}

\* The buffer holds data that is still to be read, or a result.
Live(b) == g.prod[b] \in Done /\ (g.cons[b] = {} \/ g.cons[b] \ Done # {})

OrderInv ==
    /\ host = "sync" => dispatched = Nodes
    /\ host # "idle" =>
         \A d \in dispatched : \A m \in Nodes \ dispatched : level[d] <= level[m]

\* What the flags is_allocated say: under PREALLOCATE everything, under MINIMAL
\* what has been produced and is still to be read or kept.
AllocInv ==
    /\ allocated \subseteq Colorable
    /\ ~Minimal => allocated = Colorable
    /\ Minimal => g.group = {}
    /\ Minimal /\ host = "idle" /\ ~dirty => allocated \subseteq g.persistent
    /\ Minimal /\ host # "idle" =>
         \A b \in Colorable :
           /\ b \in allocated => b \in g.persistent \/ g.cons[b] \ dispatched # {}
           /\ /\ g.prod[b] \in dispatched
              /\ b \in g.persistent \/ g.cons[b] \ dispatched # {}
              => b \in allocated

\* Contents at the end of the timeline.
Knows(c) ==
    host # "idle" =>
        /\ \A b \in Colorable : Live(b) => c[b] = run
        /\ StagedInput => \A b \in External : c[b] = run

\* Buffers the colouring is not about share their memory with nobody.
PlainColors == \A b \in g.bufs \ Colorable : color[b] = -1

\* Every dependency is on a lower level (assignLevels).
LEMMA LevelOrder ==
    ASSUME PlanInv, phase = "ready", ProducersFirst, NEW n \in Nodes, NEW d \in Deps(n)
    PROVE  d \in Nodes /\ level[d] \in Int /\ level[n] \in Int /\ level[d] < level[n] /\ d < n
<1>1. d \in Nodes
  BY DepsAreNodes DEF PlanInv, PlanTypeOK
<1>2. n < cursor
  BY DEF PlanInv, LevelInv, PlanTypeOK, IsWiring, Nodes
<1>3. level[d] < level[n]
  BY <1>2 DEF PlanInv, LevelInv, LevelsSoFar
<1> QED
  BY <1>1, <1>3 DEF PlanInv, PlanTypeOK, ProducersFirst

\* The member before a member of the group, and the buffer between them.
LEMMA MemberInputs ==
    ASSUME IsWiring(g), NEW n \in g.group, n # FusedHead
    PROVE  /\ \E p \in g.group : p < n /\ p \in Deps(n)
           /\ Inputs(n) \ External \subseteq FusedInternal
<1> DEFINE S == {m \in g.group : m < n}
           p == Max(S)
<1>1. g.group \subseteq Nat /\ n \in Nat /\ g.prod \in [g.bufs -> 0..g.nodes]
        /\ g.nodes \in Nat
  BY DEF IsWiring
<1>2. FusedHead \in g.group /\ FusedHead <= n
  BY <1>1, MinIsLeast DEF FusedHead
<1>3. FusedHead \in S
  BY <1>1, <1>2
<1>4. S \subseteq Int /\ S # {} /\ \A x \in S : x <= n
  BY <1>1, <1>3
<1>5. p \in S
  BY SMTT(60), <1>1, <1>4, MaxIsGreatest
<1>6. LinearEdge(g, p, n)
  BY <1>3 DEF IsWiring, IsChain
<1> HIDE DEF p
<1>7. PICK b \in g.bufs :
        /\ {x \in g.bufs : g.prod[x] = p /\ g.cons[x] # {}} = {b}
        /\ {x \in g.bufs : g.prod[x] # 0 /\ n \in g.cons[x]} = {b}
        /\ g.cons[b] = {n}
  BY <1>6 DEF LinearEdge
<1>8. g.prod[b] = p /\ g.prod[b] # 0 /\ n \in g.cons[b]
  BY <1>7
<1>9. b \in FusedInternal /\ p \in Deps(n)
  BY <1>5, <1>7, <1>8 DEF FusedInternal, Deps, Inputs, External
<1>10. \A x \in Inputs(n) \ External : x = b
  BY <1>7 DEF Inputs, External
<1> QED
  BY <1>5, <1>9, <1>10

\* The head has the lowest level of its group.
LEMMA HeadLowest ==
    ASSUME PlanInv, phase = "ready", ProducersFirst, NEW n \in g.group
    PROVE  /\ FusedHead \in g.group /\ FusedHead <= n
           /\ level[FusedHead] \in Int /\ level[n] \in Int
           /\ level[FusedHead] <= level[n]
           /\ n # FusedHead => level[FusedHead] < level[n]
<1>0. IsWiring(g) /\ level \in [Nodes -> Int]
  BY DEF PlanInv, PlanTypeOK
<1>1. /\ g.group \subseteq Nodes /\ Nodes \subseteq Nat
      /\ \A m \in Nodes : level[m] \in Int
  BY <1>0 DEF IsWiring, Nodes
<1>2. FusedHead \in g.group /\ \A m \in g.group : FusedHead <= m
  <2>1. g.group \subseteq Nat /\ g.group # {}
    BY <1>1
  <2> QED
    BY <2>1, MinIsLeast DEF FusedHead
<1>4. level[FusedHead] \in Int /\ \A m \in g.group : m \in Nat /\ level[m] \in Int
  BY <1>1, <1>2
<1> DEFINE Low == {m \in g.group : level[m] < level[FusedHead]}
<1>3. Low = {}
  <2> SUFFICES ASSUME Low # {} PROVE FALSE
    OBVIOUS
  <2>1. Low \subseteq Nat
    BY <1>1
  <2>2. PICK m \in Low : \A k \in Low : m <= k
    BY <2>1, LeastNatural
  <2>3. m # FusedHead /\ m \in g.group /\ m \in Nodes /\ level[m] < level[FusedHead]
    <3>1. m \in g.group /\ level[m] < level[FusedHead]
      OBVIOUS
    <3> QED
      BY <1>1, <1>4, <3>1
  <2>4. PICK p \in g.group : p < m /\ p \in Deps(m)
    BY <1>0, <2>3, MemberInputs
  <2>5. level[p] < level[m] /\ level[p] \in Int /\ level[m] \in Int
    BY <2>3, <2>4, LevelOrder
  <2>6. p \in Low
    BY <1>4, <2>3, <2>4, <2>5
  <2> QED
    BY <1>4, <2>2, <2>3, <2>4, <2>6
<1>5. \A m \in g.group : level[FusedHead] <= level[m]
  BY <1>3, <1>4
<1>6. ASSUME n # FusedHead PROVE level[FusedHead] < level[n]
  <2>1. PICK p \in g.group : p < n /\ p \in Deps(n)
    BY <1>0, <1>6, MemberInputs
  <2>2. level[p] < level[n]
    BY <1>1, <2>1, LevelOrder
  <2> QED
    BY <1>4, <1>5, <2>2
<1> QED
  BY <1>2, <1>4, <1>5, <1>6

\* What the next launch writes: the outputs of the node, or of its whole group.
NextWrites(n) == IF n \in g.group THEN FusedWrites ELSE Outputs(n)
NextReads(n) == IF n \in g.group THEN FusedReads ELSE Inputs(n)

\* The node execute() launches next, alone or as the head of the group.
Launches(n) == IsNext(n) /\ (n \in g.group => n = FusedHead)

\* The next launch is of a node that has not run.
LEMMA NextNotDone ==
    ASSUME NEW n, Launches(n)
    PROVE  n \in Nodes /\ n \notin Done
BY DEF Launches, IsNext, Done

\* Everything a launch reads from other stages was produced in this call.
LEMMA ReadsLive ==
    ASSUME PlanInv, phase = "ready", ProducersFirst, NEW n, Launches(n),
           NEW b \in NextReads(n) \ External
    PROVE  b \in Colorable /\ Live(b)
<1>0. IsWiring(g)
  BY DEF PlanInv, PlanTypeOK
<1>1. n \in Nodes /\ n \notin Done
  BY NextNotDone
<1>2. b \in Inputs(n) /\ b \notin FusedInternal
  <2>1. CASE n \notin g.group
    BY <2>1 DEF NextReads, Inputs, FusedInternal
  <2>2. CASE n \in g.group
    <3>1. PICK m \in g.group : b \in Inputs(m) /\ b \notin FusedInternal
      BY <2>2 DEF NextReads, FusedReads
    <3>2. m = FusedHead
      BY <1>0, <3>1, MemberInputs
    <3> QED
      BY <2>2, <3>1, <3>2 DEF Launches
  <2> QED
    BY <2>1, <2>2
<1>3. g.prod[b] \in Deps(n)
  BY <1>2 DEF Deps
<1>4. /\ g.prod[b] \in Nodes /\ level[g.prod[b]] \in Int /\ level[n] \in Int
      /\ level[g.prod[b]] < level[n]
  BY <1>1, <1>3, LevelOrder
<1>5. g.prod[b] \in dispatched
  BY <1>1, <1>4 DEF Launches, IsNext
<1>6. g.prod[b] \in Done /\ n \in g.cons[b] \ Done
  BY <1>1, <1>2, <1>4, <1>5 DEF Done, Inputs
<1> QED
  BY <1>2, <1>6 DEF Live, Colorable, Inputs

\* What a launch writes is born at its level.
LEMMA WritesBorn ==
    ASSUME PlanInv, phase = "ready", ProducersFirst, OrderInv, host = "dispatch",
           NEW n, Launches(n), NEW o \in NextWrites(n)
    PROVE  /\ o \in Colorable /\ g.prod[o] \notin Done
           /\ level[n] \in Int /\ Born(o) = level[n]
           /\ Dies(o) \in Int /\ level[n] <= Dies(o)
<1>0. IsWiring(g) /\ level \in [Nodes -> Int]
  BY DEF PlanInv, PlanTypeOK
<1>1. g.group \subseteq Nodes /\ 0 \notin Nodes
        /\ \A b \in g.bufs : g.cons[b] \subseteq Nodes
  BY <1>0 DEF IsWiring, Nodes
<1>2. n \in Nodes /\ n \notin Done /\ n \notin dispatched /\ level[n] \in Int
  BY <1>0, NextNotDone DEF Launches, IsNext
<1>3. /\ o \in g.bufs /\ o \notin FusedInternal /\ g.prod[o] \in Nodes
      /\ n \notin g.group => g.prod[o] = n
      /\ n \in g.group => g.prod[o] \in g.group /\ n = FusedHead
  <2>1. CASE n \notin g.group
    BY <1>2, <2>1 DEF NextWrites, Outputs, FusedInternal
  <2>2. CASE n \in g.group
    BY <1>1, <2>2 DEF NextWrites, FusedWrites, Outputs, Launches
  <2> QED
    BY <2>1, <2>2
<1>4. o \in Colorable
  BY <1>1, <1>3 DEF Colorable, External
<1>5. NodeLevel(g.prod[o]) = level[n] /\ level[n] <= level[g.prod[o]]
        /\ level[g.prod[o]] \in Int
  <2>1. CASE n \notin g.group
    BY <1>2, <1>3, <2>1 DEF NodeLevel
  <2>2. CASE n \in g.group
    BY <1>3, <2>2, HeadLowest DEF NodeLevel
  <2> QED
    BY <2>1, <2>2
<1>6. g.prod[o] \notin Done
  <2>1. CASE n \notin g.group
    BY <1>2, <1>3, <2>1
  <2>2. CASE n \in g.group
    <3>1. n = FusedHead /\ g.prod[o] \in g.group
      BY <1>3, <2>2
    <3>2. g.prod[o] \notin dispatched
      <4>1. g.prod[o] # FusedHead => level[FusedHead] < level[g.prod[o]]
              /\ level[FusedHead] \in Int /\ level[g.prod[o]] \in Int
        BY <3>1, HeadLowest
      <4>2. g.prod[o] \in dispatched => level[g.prod[o]] <= level[n]
        BY <1>2 DEF OrderInv
      <4> QED
        BY <1>2, <3>1, <4>1, <4>2
    <3> QED
      BY <1>2, <3>1, <3>2 DEF Done
  <2> QED
    BY <2>1, <2>2
<1>7. Dies(o) \in Int /\ level[n] <= Dies(o)
  <2>1. /\ Dies(o) \in Int
        /\ g.cons[o] = {} => \A m \in Nodes : level[m] <= Dies(o)
        /\ \A m \in g.cons[o] : NodeLevel(m) \in Int /\ NodeLevel(m) <= Dies(o)
    BY <1>4, LiveRanges DEF PlanInv
  <2>2. CASE g.cons[o] = {}
    BY <1>2, <2>1, <2>2
  <2>3. CASE g.cons[o] # {}
    <3>1. PICK m : m \in g.cons[o]
      BY <2>3
    <3>2. m \in Nodes /\ o \in Inputs(m) \ External
      BY <1>1, <1>3, <1>4, <3>1 DEF Inputs, Colorable
    <3>3. g.prod[o] \in Deps(m)
      BY <3>2 DEF Deps
    <3>4. level[g.prod[o]] < level[m] /\ level[m] \in Int
      BY <3>2, <3>3, LevelOrder
    <3>5. m \in g.group => m = FusedHead
      BY <1>0, <1>3, <3>2, MemberInputs
    <3>6. NodeLevel(m) = level[m]
      BY <3>5 DEF NodeLevel
    <3> QED
      BY <1>2, <1>5, <2>1, <3>1, <3>4, <3>6
  <2> QED
    BY <2>2, <2>3
<1> QED
  BY <1>2, <1>4, <1>5, <1>6, <1>7 DEF Born

\* What is live is live at the level of the next node.
LEMMA LiveAtNext ==
    ASSUME PlanInv, phase = "ready", ProducersFirst, OrderInv, host = "dispatch",
           NEW n, IsNext(n), NEW b \in Colorable, Live(b)
    PROVE  /\ Born(b) \in Int /\ Dies(b) \in Int /\ level[n] \in Int
           /\ Born(b) <= level[n] /\ level[n] <= Dies(b)
<1>0. IsWiring(g) /\ level \in [Nodes -> Int]
  BY DEF PlanInv, PlanTypeOK
<1>1. g.group \subseteq Nodes /\ \A x \in g.bufs : g.cons[x] \subseteq Nodes
  BY <1>0 DEF IsWiring, Nodes
<1>2. n \in Nodes /\ n \notin dispatched /\ level[n] \in Int
  BY <1>0 DEF IsNext
<1>3. /\ Born(b) \in Int /\ Dies(b) \in Int
      /\ g.cons[b] = {} => \A m \in Nodes : level[m] <= Dies(b)
      /\ \A m \in g.cons[b] : NodeLevel(m) \in Int /\ NodeLevel(m) <= Dies(b)
  BY LiveRanges DEF PlanInv
<1>4. Born(b) <= level[n]
  <2>1. g.prod[b] \in Done
    BY DEF Live
  <2>2. CASE g.prod[b] \in g.group
    <3>1. FusedHead \in g.group
      BY <2>2, HeadLowest
    <3>2. FusedHead \in dispatched \/ g.prod[b] \in dispatched
      BY <2>1 DEF Done
    <3>3. level[FusedHead] <= level[n]
      <4>1. CASE FusedHead \in dispatched
        BY <1>2, <4>1 DEF OrderInv
      <4>2. CASE g.prod[b] \in dispatched
        <5>1. level[g.prod[b]] <= level[n]
          BY <1>2, <4>2 DEF OrderInv
        <5>2. /\ level[FusedHead] \in Int /\ level[g.prod[b]] \in Int
              /\ level[FusedHead] <= level[g.prod[b]]
          BY <2>2, HeadLowest
        <5> QED
          BY <1>2, <5>1, <5>2
      <4> QED
        BY <3>2, <4>1, <4>2
    <3> QED
      BY <2>2, <3>3 DEF Born, NodeLevel
  <2>3. CASE g.prod[b] \notin g.group
    <3>1. g.prod[b] \in dispatched
      BY <2>1, <2>3 DEF Done
    <3>2. level[g.prod[b]] <= level[n]
      BY <1>2, <3>1 DEF OrderInv
    <3> QED
      BY <2>3, <3>2 DEF Born, NodeLevel
  <2> QED
    BY <2>2, <2>3
<1>5. level[n] <= Dies(b)
  <2>1. CASE g.cons[b] = {}
    BY <1>2, <1>3, <2>1
  <2>2. CASE g.cons[b] # {}
    <3>1. PICK m : m \in g.cons[b] /\ m \notin Done
      BY <2>2 DEF Live
    <3>2. m \in Nodes /\ m \notin dispatched /\ b \in Inputs(m) \ External
            /\ b \notin FusedInternal
      BY <1>1, <3>1 DEF Done, Inputs, Colorable
    <3>3. m \in g.group => m = FusedHead
      BY <1>0, <3>2, MemberInputs
    <3>4. NodeLevel(m) = level[m] /\ level[m] \in Int
      BY <1>0, <3>2, <3>3 DEF NodeLevel
    <3>5. level[n] <= level[m]
      BY <1>2, <3>2, <3>4 DEF IsNext
    <3> QED
      BY <1>2, <1>3, <3>1, <3>4, <3>5
  <2> QED
    BY <2>1, <2>2
<1> QED
  BY <1>2, <1>3, <1>4, <1>5

\* So a launch writes over nothing that is live, and over no input.
LEMMA WritesSpare ==
    ASSUME PlanInv, phase = "ready", ProducersFirst, OrderInv, host = "dispatch",
           ColorInv, PlainColors, NEW n, Launches(n), NEW b \in g.bufs,
           (b \in Colorable /\ Live(b)) \/ b \in External
    PROVE  b \notin Touched(World, NextWrites(n))
<1> SUFFICES ASSUME NEW o \in NextWrites(n), b \in World.shared[o] PROVE FALSE
  BY DEF Touched
<1>1. /\ o \in Colorable /\ g.prod[o] \notin Done
      /\ level[n] \in Int /\ Born(o) = level[n]
      /\ Dies(o) \in Int /\ level[n] <= Dies(o)
  BY WritesBorn
<1>2. o \in g.bufs /\ SharesMemory(b, o)
  <2>1. o \in g.bufs
    BY <1>1 DEF Colorable
  <2> QED
    BY <2>1 DEF World
<1>3. CASE b \in External
  <2>1. b # o /\ color[b] = -1
    BY <1>1, <1>3 DEF Colorable, PlainColors
  <2> QED
    BY <1>2, <2>1 DEF SharesMemory
<1>4. CASE b \in Colorable /\ Live(b)
  <2>1. b # o
    BY <1>1, <1>4 DEF Live
  <2>2. color[b] # -1 /\ color[b] = color[o]
    BY <1>2, <2>1 DEF SharesMemory
  <2>3. Dies(b) < Born(o) \/ Dies(o) < Born(b)
    BY <1>1, <1>4, <2>1, <2>2 DEF ColorInv, ColoringSound
  <2>4. /\ Born(b) \in Int /\ Dies(b) \in Int
        /\ Born(b) <= level[n] /\ level[n] <= Dies(b)
    BY <1>4, LiveAtNext DEF Launches
  <2> QED
    BY <1>1, <2>3, <2>4
<1> QED
  BY <1>3, <1>4

-----------------------------------------------------------------------------
(***************************************************************************)
(* The sequential invariant.                                               *)
(***************************************************************************)

\* Nothing is ever enqueued on another stream.
Alone == \A s \in Streams \ {0} : log[s] = <<>>

\* The host's flags and what it knows of the contents are the end of the
\* timeline of the caller's stream.
Follows ==
    \E c : Timeline(World, Device, log[0], Held(allocated), c) /\ Knows(c)

\* When a synchronizing call has returned, what is left on the stream changes
\* no memory.
Settled ==
    Returned =>
        /\ mapped = allocated \cup External
        /\ Minimal => allocated \subseteq g.persistent
        /\ PipelineOutputs \subseteq allocated
        /\ \A b \in PipelineOutputs : content[b] = run
        /\ \A i \in 1..Len(log[0]) : i > pc[0] =>
              log[0][i].writes = {} /\ log[0][i].allocs = {} /\ log[0][i].frees = {}

\* Nothing was called while finalize() is at work.
Quiet ==
    /\ host = "idle" /\ run = 0 /\ dirty = FALSE /\ dispatched = {}
    /\ allocated = IF strategy = "PREALLOCATE" THEN Colorable ELSE {}
    /\ log = [s \in Streams |-> <<>>]
    /\ pc = [s \in Streams |-> 0]
    /\ busy = [s \in Streams |-> FALSE]
    /\ mapped = allocated \cup External

InTurn == OrderInv /\ AllocInv /\ Alone /\ Follows /\ Settled

SeqInv ==
    /\ ExecInv /\ ColorInv /\ PlainColors
    /\ phase # "ready" => Quiet
    /\ Sequential => InTurn

\* The caller's stream is always there.
LEMMA ZeroStream ==
    ASSUME PlanInv
    PROVE  0 \in Streams
BY DagAssumption DEF PlanInv, PlanTypeOK, IsWiring, Streams

\* Before the first call everything is in its place.
LEMMA QuietInTurn ==
    ASSUME PlanInv, Quiet, FusionPreallocated
    PROVE  InTurn
<1>0. 0 \in Streams
  BY ZeroStream
<1>1. /\ host = "idle" /\ run = 0 /\ dirty = FALSE /\ dispatched = {}
      /\ allocated = IF strategy = "PREALLOCATE" THEN Colorable ELSE {}
      /\ log[0] = <<>> /\ pc[0] = 0 /\ ~busy[0]
      /\ mapped = allocated \cup External
  BY <1>0 DEF Quiet
<1>2. OrderInv
  BY <1>1 DEF OrderInv
<1>3. AllocInv
  BY <1>1 DEF AllocInv, Minimal, FusionPreallocated
<1>4. Alone
  BY DEF Quiet, Alone
<1>5. Follows
  <2> DEFINE w == World
             d == Device
             M == [i \in {0} |-> mapped]
             C == [i \in {0} |-> content]
  <2>1. Len(log[0]) = 0 /\ d.pc = 0 /\ d.on = 0 /\ d.mapped = mapped /\ d.content = content
    BY <1>1 DEF Device
  <2>2. M[0] = mapped /\ C[0] = content
    OBVIOUS
  <2> HIDE DEF w, d, M, C
  <2>3. History(w, log[0], M, C)
    BY <2>1 DEF History
  <2>4. OnTime(w, d, log[0], M, C)
    BY <2>1, <2>2 DEF OnTime
  <2>5. Timeline(w, d, log[0], mapped, content)
    BY <2>1, <2>2, <2>3, <2>4 DEF Timeline
  <2>6. Knows(content)
    BY <1>1 DEF Knows
  <2> QED
    BY <1>1, <2>5, <2>6 DEF Follows, Held, w, d
<1>6. Settled
  BY <1>1 DEF Settled, Returned
<1> QED
  BY <1>2, <1>3, <1>4, <1>5, <1>6 DEF InTurn

\* The invariant holds before finalize() starts.
LEMMA SeqInvInit == ExecInit => SeqInv
<1> SUFFICES ASSUME ExecInit PROVE SeqInv
  OBVIOUS
<1>1. ExecInv /\ PlanInv
  BY ExecInvInit DEF ExecInv
<1>2. ColorInv /\ PlainColors
  BY ColorInvInit DEF ExecInit, Init, PlainColors
<1>3. Quiet
  BY DEF ExecInit, Quiet, Colorable
<1> QED
  BY <1>1, <1>2, <1>3, QuietInTurn DEF SeqInv, Sequential

-----------------------------------------------------------------------------
(***************************************************************************)
(* Enqueuing on the caller's stream.                                       *)
(***************************************************************************)
\* An operation enqueued on the caller's stream.
LEMMA TimelineEnqueue ==
    ASSUME PlanInv, NEW lg \in Logs, NEW work \in GoodOps, NEW w, NEW d, NEW m, NEW c,
           Within(d, lg[0]), Timeline(w, d, lg[0], m, c), RunsWell(w, m, c, work)
    PROVE  LET lg2 == Enqueue(lg, 0, work)
           IN  /\ Within(d, lg2[0])
               /\ Timeline(w, d, lg2[0], AfterMap(m, work), AfterCon(w, c, work))
               /\ OthersKept(lg, lg2)
<1> DEFINE op == [work EXCEPT !.after = Barrier(lg, 0)]
           lg2 == Enqueue(lg, 0, work)
<1>0. 0 \in Streams
  BY ZeroStream
<1>1. /\ op.run = work.run /\ op.reads = work.reads /\ op.writes = work.writes
      /\ op.allocs = work.allocs /\ op.frees = work.frees
  BY DEF GoodOps, Ops
<1> HIDE DEF op
<1>2. lg2[0] = Append(lg[0], op) /\ \A s \in Streams \ {0} : lg2[s] = lg[s]
  BY <1>0 DEF Enqueue, Logs, op
<1>3. /\ AfterMap(m, op) = AfterMap(m, work)
      /\ AfterCon(w, c, op) = AfterCon(w, c, work)
      /\ RunsWell(w, m, c, op)
  BY <1>1 DEF AfterMap, AfterCon, RunsWell
<1>4. lg[0] \in Seq(GoodOps \cup {op}) /\ op \in GoodOps \cup {op}
  BY <1>0 DEF Logs
<1> HIDE DEF lg2
<1>5. /\ Within(d, Append(lg[0], op))
      /\ Timeline(w, d, Append(lg[0], op), AfterMap(m, op), AfterCon(w, c, op))
  BY <1>3, <1>4, TimelineAppend
<1> QED
  BY <1>2, <1>3, <1>5 DEF lg2, OthersKept

\* An operation that touches no memory leaves the end of the timeline as it is.
LEMMA IdleOp ==
    ASSUME NEW w, NEW m, NEW c, NEW op,
           op.writes = {}, op.allocs = {}, op.frees = {}
    PROVE  AfterMap(m, op) = m /\ \A b \in w.bufs : AfterCon(w, c, op)[b] = c[b]
<1>1. Touched(w, op.writes) = {}
  BY DEF Touched
<1> QED
  BY <1>1 DEF AfterCon, AfterMap

\* reset(): the memory it frees leaves both the flags and the timeline.
LEMMA TimelineReset ==
    ASSUME PlanInv, HostInv, NEW lg \in Logs, NEW d, NEW c, NEW al, IsAllocation(al),
           Within(d, lg[0]), Timeline(World, d, lg[0], Held(al), c),
           NEW lr, lr = EnqueueReset(lg, al)
    PROVE  /\ lr \in Logs /\ Within(d, lr[0])
           /\ \E c2 : Timeline(World, d, lr[0], Held(AfterReset(al)), c2)
           /\ OthersKept(lg, lr)
<1> DEFINE work == [NoWork EXCEPT !.frees = ResetFrees(al)]
           m == Held(al)
           m2 == Held(AfterReset(al))
<1>1. ResetFrees(al) \subseteq al /\ ResetFrees(al) \cap External = {} /\ al \subseteq g.bufs
  BY DEF ResetFrees, Colorable, IsAllocation
<1>2. CASE ResetFrees(al) = {}
  <2>1. EnqueueReset(lg, al) = lg
    BY <1>2 DEF EnqueueReset, EnqueueIf
  <2>2. m2 = m
    BY <1>2 DEF AfterReset, Held
  <2> QED
    BY <2>1, <2>2 DEF OthersKept
<1>3. CASE ResetFrees(al) # {}
  <2>1. EnqueueReset(lg, al) = Enqueue(lg, 0, work)
    BY <1>3 DEF EnqueueReset, EnqueueIf
  <2>2. NoWork \in Ops /\ NoWork.node = 0 /\ NoWork.reads = {} /\ NoWork.writes = {}
          /\ NoWork.allocs = {}
    BY NoWorkType DEF NoWork
  <2>3. /\ work \in GoodOps /\ work.reads = {} /\ work.writes = {}
        /\ work.allocs = {} /\ work.frees = ResetFrees(al)
    BY <1>1, <2>2 DEF GoodOps, Ops, WaitsForAll
  <2> HIDE DEF work
  <2>4. RunsWell(World, m, c, work)
    BY <2>3 DEF RunsWell
  <2>5. AfterMap(m, work) = m2
    BY <1>1, <2>3 DEF AfterMap, AfterReset, Held
  <2> HIDE DEF m, m2
  <2>6. Timeline(World, d, lg[0], m, c)
    BY DEF m
  <2> DEFINE lg2 == Enqueue(lg, 0, work)
  <2>7. /\ Within(d, lg2[0])
        /\ Timeline(World, d, lg2[0], AfterMap(m, work), AfterCon(World, c, work))
        /\ OthersKept(lg, lg2)
    BY <2>3, <2>4, <2>6, TimelineEnqueue
  <2>8. lg2 \in Logs
    BY <2>3, EnqueueKeeps
  <2> HIDE DEF lg2
  <2> QED
    BY <2>1, <2>5, <2>7, <2>8 DEF lg2, m2
<1> QED
  BY <1>2, <1>3

-----------------------------------------------------------------------------
(***************************************************************************)
(* The host's steps, one after the other on the stream.                    *)
(***************************************************************************)
\* What a step of the host or of the device leaves alone.
LEMMA TurnFixed ==
    ASSUME UNCHANGED planVars, caller' = caller
    PROVE  /\ World' = World /\ Nodes' = Nodes /\ Streams' = Streams
           /\ Colorable' = Colorable /\ External' = External /\ Minimal' = Minimal
           /\ PipelineOutputs' = PipelineOutputs /\ FusedHead' = FusedHead
           /\ StagedInput' = StagedInput /\ Synchronizes' = Synchronizes
           /\ Sequential' = Sequential /\ g' = g /\ level' = level
<1>1. /\ g' = g /\ level' = level /\ strategy' = strategy /\ configured' = configured
      /\ color' = color /\ coloringApplied' = coloringApplied /\ streamOf' = streamOf
  BY Zenon DEF planVars
<1>2. /\ Nodes' = Nodes /\ Colorable' = Colorable /\ External' = External
      /\ (ProducersFirst)' = ProducersFirst /\ FusedHead' = FusedHead
      /\ Streams' = Streams
  BY <1>1, WiringFixed DEF Streams, FusedHead
<1>3. /\ StagedInput' = StagedInput /\ Synchronizes' = Synchronizes
  BY DEF StagedInput, Synchronizes, Protocol
<1>4. Minimal' = Minimal
  BY <1>1 DEF Minimal
<1>5. PipelineOutputs' = PipelineOutputs
  BY <1>1, <1>2 DEF PipelineOutputs
<1>6. Sequential' = Sequential
  BY <1>1, <1>2, Zenon DEF Sequential, OneStream, OutputsPersistent, FusionPreallocated,
     Minimal
<1>7. World' = World
  <2>1. CallerOwned' = CallerOwned
    BY <1>2, <1>3 DEF CallerOwned
  <2>2. \A a, b : SharesMemory(a, b)' = SharesMemory(a, b)
    BY <1>1 DEF SharesMemory
  <2> QED
    BY <1>1, <2>1, <2>2 DEF World
<1> QED
  BY <1>1, <1>2, <1>3, <1>4, <1>5, <1>6, <1>7

\* A step of the host leaves the device alone.
LEMMA DeviceFixed ==
    ASSUME UNCHANGED gpuVars
    PROVE  /\ Device' = Device /\ pc' = pc /\ busy' = busy
           /\ mapped' = mapped /\ content' = content
<1>1. pc' = pc /\ busy' = busy /\ mapped' = mapped /\ content' = content
  BY Zenon DEF gpuVars
<1> QED
  BY <1>1 DEF Device

\* The device is within the caller's stream.
LEMMA WithinNow ==
    ASSUME PlanInv, DeviceInv
    PROVE  Within(Device, log[0])
<1>1. 0 \in Streams
  BY ZeroStream
<1>2. pc[0] \in Nat /\ Len(log[0]) \in Nat /\ pc[0] <= Len(log[0])
        /\ (busy[0] => pc[0] < Len(log[0]))
  BY <1>1 DEF DeviceInv, Logs
<1> QED
  BY <1>2 DEF Within, Device

\* The parts of the invariant.
LEMMA TurnParts ==
    ASSUME SeqInv, Sequential
    PROVE  /\ PlanInv /\ HostInv /\ CountInv /\ DeviceInv /\ ColorInv /\ PlainColors
           /\ OrderInv /\ AllocInv /\ Alone /\ Follows /\ Settled
           /\ OneStream /\ ProducersFirst /\ OutputsPersistent
           /\ log \in Logs /\ Within(Device, log[0])
<1>1. /\ PlanInv /\ HostInv /\ CountInv /\ DeviceInv /\ ColorInv /\ PlainColors
      /\ OrderInv /\ AllocInv /\ Alone /\ Follows /\ Settled
      /\ OneStream /\ ProducersFirst /\ OutputsPersistent
  BY Zenon DEF SeqInv, ExecInv, InTurn, Sequential
<1> QED
  BY <1>1, WithinNow DEF DeviceInv

\* The streams lg, with the flags al, are in turn, and c is what memory will hold.
On(lg, al, c) ==
    /\ lg \in Logs /\ Within(Device, lg[0])
    /\ Timeline(World, Device, lg[0], Held(al), c)
    /\ \A s \in Streams \ {0} : lg[s] = <<>>

\* The streams are in turn whenever the invariant holds.
LEMMA OnNow ==
    ASSUME SeqInv, Sequential
    PROVE  \E c : On(log, allocated, c) /\ Knows(c)
<1>1. Follows /\ Alone /\ log \in Logs /\ Within(Device, log[0])
  BY TurnParts
<1>2. PICK c : Timeline(World, Device, log[0], Held(allocated), c) /\ Knows(c)
  BY <1>1 DEF Follows
<1> QED
  BY <1>1, <1>2 DEF On, Alone

\* One more operation that runs well.
LEMMA OnEnqueue ==
    ASSUME PlanInv, NEW lg, NEW al, NEW c, On(lg, al, c), NEW work, work \in GoodOps,
           RunsWell(World, Held(al), c, work), NEW al2, Held(al2) = AfterMap(Held(al), work)
    PROVE  On(Enqueue(lg, 0, work), al2, AfterCon(World, c, work))
<1> DEFINE lg2 == Enqueue(lg, 0, work)
           d == Device
           m == Held(al)
           w == World
<1>1. /\ lg \in Logs /\ Within(d, lg[0]) /\ Timeline(w, d, lg[0], m, c)
      /\ RunsWell(w, m, c, work) /\ \A s \in Streams \ {0} : lg[s] = <<>>
  BY DEF On
<1>2. lg2 \in Logs
  BY <1>1, EnqueueKeeps
<1> HIDE DEF d, m, w
<1>3. /\ Within(d, lg2[0])
      /\ Timeline(w, d, lg2[0], AfterMap(m, work), AfterCon(w, c, work))
      /\ OthersKept(lg, lg2)
  BY <1>1, TimelineEnqueue
<1> HIDE DEF lg2
<1>4. \A s \in Streams \ {0} : lg2[s] = <<>>
  BY <1>1, <1>3 DEF OthersKept
<1>5. On(lg2, al2, AfterCon(w, c, work))
  BY <1>2, <1>3, <1>4 DEF On, d, m, w
<1> QED
  BY <1>5 DEF lg2, w

\* The frees of reset().
LEMMA OnReset ==
    ASSUME PlanInv, HostInv, NEW lg, NEW al, NEW c, On(lg, al, c), IsAllocation(al)
    PROVE  \E c2 : On(EnqueueReset(lg, al), AfterReset(al), c2)
<1> DEFINE d == Device
           lr == EnqueueReset(lg, al)
<1>1. /\ lg \in Logs /\ Within(d, lg[0]) /\ Timeline(World, d, lg[0], Held(al), c)
      /\ lr = EnqueueReset(lg, al) /\ \A s \in Streams \ {0} : lg[s] = <<>>
  BY DEF On
<1> HIDE DEF d, lr
<1>2. /\ lr \in Logs /\ Within(d, lr[0])
      /\ \E c2 : Timeline(World, d, lr[0], Held(AfterReset(al)), c2)
      /\ OthersKept(lg, lr)
  BY <1>1, TimelineReset
<1>3. \A s \in Streams \ {0} : lr[s] = <<>>
  BY <1>1, <1>2 DEF OthersKept
<1>4. \E c2 : On(lr, AfterReset(al), c2)
  BY <1>2, <1>3 DEF On, d
<1> QED
  BY <1>1, <1>4

\* A step of the host that leaves the streams in turn.
LEMMA OnFollows ==
    ASSUME UNCHANGED planVars, caller' = caller, UNCHANGED gpuVars,
           NEW c, On(log', allocated', c), Knows(c)'
    PROVE  Follows' /\ Alone'
<1>1. World' = World /\ Streams' = Streams /\ External' = External /\ Device' = Device
  BY TurnFixed, DeviceFixed
<1>2. Held(allocated)' = Held(allocated')
  BY <1>1 DEF Held
<1>3. /\ Timeline(World, Device, log'[0], Held(allocated'), c)
      /\ \A s \in Streams \ {0} : log'[s] = <<>>
  BY DEF On
<1>4. Follows'
  BY <1>1, <1>2, <1>3 DEF Follows
<1>5. Alone'
  BY <1>1, <1>3 DEF Alone
<1> QED
  BY <1>4, <1>5

\* A call ends in an exception.
LEMMA AbortTurn ==
    ASSUME SeqInv, Sequential, NEW lg, NEW al, NEW c, On(lg, al, c), IsAllocation(al),
           ~Minimal => al = Colorable, Abort(lg, al)
    PROVE  InTurn'
<1>0. PlanInv /\ HostInv /\ AllocInv
  BY TurnParts
<1>1. /\ UNCHANGED planVars /\ caller' = caller /\ UNCHANGED gpuVars
      /\ run' = run /\ host' = "idle" /\ aborted' = aborted \cup {run}
  BY Zenon DEF Abort
<1>2. Colorable' = Colorable /\ Minimal' = Minimal /\ g' = g
  BY <1>1, TurnFixed
<1>3. \/ log' = EnqueueReset(lg, al) /\ allocated' = AfterReset(al)
      \/ log' = lg /\ allocated' = al /\ dirty' = TRUE
  BY Zenon DEF Abort, AfterReset
<1>4. OrderInv' /\ Settled'
  BY <1>1 DEF OrderInv, Settled, Returned
<1>5. AllocInv'
  <2>1. allocated' \subseteq Colorable /\ (~Minimal => allocated' = Colorable)
    BY <1>3 DEF ResetFrees, AfterReset, IsAllocation
  <2>2. Minimal /\ dirty' # TRUE => allocated' \subseteq g.persistent
    BY <1>3 DEF ResetFrees, Colorable, AfterReset, IsAllocation
  <2> QED
    BY <1>0, <1>1, <1>2, <2>1, <2>2 DEF AllocInv
<1>6. \E c2 : On(log', allocated', c2)
  BY <1>0, <1>3, OnReset
<1>7. Follows' /\ Alone'
  <2>1. PICK c2 : On(log', allocated', c2)
    BY <1>6
  <2>2. Knows(c2)'
    BY <1>1 DEF Knows
  <2> QED
    BY <1>1, <2>1, <2>2, OnFollows
<1> QED
  BY <1>4, <1>5, <1>7 DEF InTurn

-----------------------------------------------------------------------------
(***************************************************************************)
(* A launch.                                                               *)
(***************************************************************************)

\* The operation of the next node, finished or cut short by an exception.
IsLaunch(n, op) ==
    /\ op.run = run /\ op.reads = NextReads(n) /\ op.writes = NextWrites(n)
    /\ op.allocs = NewOutputs(n)

\* allocateBuffer() is called for outputs without memory, under MINIMAL only.
LEMMA NewOutputsFacts ==
    ASSUME PlanInv, AllocInv, NEW n \in Nodes
    PROVE  /\ NewOutputs(n) \subseteq Colorable
           /\ ~Minimal => NewOutputs(n) = {}
           /\ Minimal => NewOutputs(n) = Outputs(n) \ allocated
           /\ n \in g.group => NewOutputs(n) = {}
<1>1. 0 \notin Nodes
  BY DEF PlanInv, PlanTypeOK, IsWiring, Nodes
<1>2. Minimal => g.group = {} /\ FusedInternal = {}
  BY DEF AllocInv, FusedInternal
<1>3. NewOutputs(n) \subseteq Colorable
  BY <1>1 DEF NewOutputs, Colorable, Outputs, External
<1>4. (~Minimal => NewOutputs(n) = {}) /\ (Minimal => NewOutputs(n) = Outputs(n) \ allocated)
  BY <1>2 DEF NewOutputs
<1> QED
  BY <1>2, <1>3, <1>4

\* What is live is allocated.
LEMMA LiveAllocated ==
    ASSUME HostInv, AllocInv, OutputsPersistent, host # "idle", NEW b \in Colorable, Live(b)
    PROVE  b \in allocated
<1>1. CASE ~Minimal
  BY <1>1 DEF AllocInv
<1>2. CASE Minimal
  <2>1. Done = dispatched \cap Nodes
    BY <1>2 DEF AllocInv, Done
  <2>2. g.prod[b] \in dispatched
    BY <2>1 DEF Live
  <2>3. CASE g.cons[b] = {}
    <3>1. b \in g.persistent
      BY <2>3 DEF OutputsPersistent, Colorable
    <3> QED
      BY <1>2, <2>2, <3>1 DEF AllocInv
  <2>4. CASE g.cons[b] # {}
    <3>1. PICK m : m \in g.cons[b] /\ m \notin Done
      BY <2>4 DEF Live
    <3>2. m \notin dispatched
      BY <2>1, <3>1 DEF HostInv
    <3>3. g.cons[b] \ dispatched # {}
      BY <3>1, <3>2
    <3> QED
      BY <1>2, <2>2, <3>3 DEF AllocInv
  <2> QED
    BY <2>3, <2>4
<1> QED
  BY <1>1, <1>2

\* A launch runs well: its inputs are live, its outputs spare them.
LEMMA LaunchRuns ==
    ASSUME SeqInv, Sequential, host = "dispatch", NEW n, Launches(n), NEW c, Knows(c),
           NEW op, IsLaunch(n, op)
    PROVE  RunsWell(World, Held(allocated), c, op)
<1>0. /\ PlanInv /\ HostInv /\ ColorInv /\ PlainColors /\ OrderInv /\ AllocInv
      /\ ProducersFirst /\ OutputsPersistent /\ phase = "ready"
  <2>1. /\ PlanInv /\ HostInv /\ ColorInv /\ PlainColors /\ OrderInv /\ AllocInv
        /\ ProducersFirst /\ OutputsPersistent
    BY TurnParts
  <2> QED
    BY <2>1 DEF HostInv
<1>1. n \in Nodes
  BY NextNotDone
<1>2. ASSUME NEW b \in op.reads
      PROVE  /\ b \in Held(allocated) /\ b \notin Touched(World, op.writes)
             /\ b \notin World.own => c[b] = run
  <2>1. b \in NextReads(n) /\ b \in g.bufs
    BY SetsOfBuffers DEF IsLaunch, NextReads
  <2>2. CASE b \in External
    <3>1. b \notin Touched(World, op.writes)
      BY <1>0, <2>1, <2>2, WritesSpare DEF IsLaunch
    <3>2. b \notin World.own => c[b] = run
      <4>1. World.own = CallerOwned
        BY DEF World
      <4> QED
        BY <2>2, <4>1 DEF CallerOwned, Knows
    <3> QED
      BY <2>2, <3>1, <3>2 DEF Held
  <2>3. CASE b \notin External
    <3>1. b \in Colorable /\ Live(b)
      BY <1>0, <2>1, <2>3, ReadsLive
    <3>2. b \in allocated
      BY <1>0, <3>1, LiveAllocated
    <3>3. b \notin Touched(World, op.writes)
      BY <1>0, <2>1, <3>1, WritesSpare DEF IsLaunch
    <3>4. c[b] = run
      BY <3>1 DEF Knows
    <3> QED
      BY <3>2, <3>3, <3>4 DEF Held
  <2> QED
    BY <2>2, <2>3
<1>3. ASSUME NEW b \in op.writes
      PROVE  b \in Held(allocated) \cup op.allocs
  <2>1. b \in NextWrites(n)
    BY DEF IsLaunch
  <2>2. b \in Colorable
    BY <1>0, <2>1, WritesBorn
  <2>3. CASE ~Minimal
    BY <1>0, <2>2, <2>3 DEF AllocInv, Held
  <2>4. CASE Minimal
    <3>1. n \notin g.group
      BY <1>0, <2>4 DEF AllocInv
    <3>2. b \in Outputs(n) /\ op.allocs = Outputs(n) \ allocated
      BY <1>0, <1>1, <2>1, <2>4, <3>1, NewOutputsFacts DEF NextWrites, IsLaunch
    <3> QED
      BY <3>2 DEF Held
  <2> QED
    BY <2>3, <2>4
<1>4. op.run = run
  BY DEF IsLaunch
<1> QED
  BY <1>2, <1>3, <1>4 DEF RunsWell

\* The four forms of a launch: of a node or of a group, complete or cut short.
LEMMA LaunchFields ==
    ASSUME PlanInv, HostInv, AllocInv, NEW n \in Nodes
    PROVE  /\ n \notin g.group => IsLaunch(n, Launch(n))
           /\ n \notin g.group => IsLaunch(n, [Launch(n) EXCEPT !.signals = {}, !.frees = {}])
           /\ n \in g.group => IsLaunch(n, FusedLaunch(n))
           /\ n \in g.group => IsLaunch(n, [FusedLaunch(n) EXCEPT !.signals = {}])
           /\ Launch(n).frees = LastRead(n)
           /\ [Launch(n) EXCEPT !.signals = {}, !.frees = {}].frees = {}
           /\ FusedLaunch(n).frees = {}
           /\ [FusedLaunch(n) EXCEPT !.signals = {}].frees = {}
<1>1. n \in g.group => NewOutputs(n) = {}
  BY NewOutputsFacts
<1>2. /\ NoWork \in Ops /\ NoWork.run = run /\ NoWork.frees = {} /\ NoWork.allocs = {}
  BY NoWorkType DEF NoWork
<1>3. /\ Launch(n).run = run /\ Launch(n).reads = Inputs(n) /\ Launch(n).writes = Outputs(n)
      /\ Launch(n).allocs = NewOutputs(n) /\ Launch(n).frees = LastRead(n)
  BY <1>2 DEF Launch, Ops
<1>4. /\ FusedLaunch(n).run = run /\ FusedLaunch(n).reads = FusedReads
      /\ FusedLaunch(n).writes = FusedWrites
      /\ FusedLaunch(n).allocs = {} /\ FusedLaunch(n).frees = {}
  BY <1>2 DEF FusedLaunch, Ops
<1> DEFINE L2 == [Launch(n) EXCEPT !.signals = {}, !.frees = {}]
           F2 == [FusedLaunch(n) EXCEPT !.signals = {}]
<1>5. /\ L2.run = run /\ L2.reads = Inputs(n) /\ L2.writes = Outputs(n)
      /\ L2.allocs = NewOutputs(n) /\ L2.frees = {}
  BY <1>2 DEF Launch, Ops, NoWork
<1>6. /\ F2.run = run /\ F2.reads = FusedReads /\ F2.writes = FusedWrites
      /\ F2.allocs = {} /\ F2.frees = {}
  BY <1>2 DEF FusedLaunch, Ops, NoWork
<1> HIDE DEF L2, F2
<1>7. /\ n \notin g.group => IsLaunch(n, Launch(n)) /\ IsLaunch(n, L2)
      /\ n \in g.group => IsLaunch(n, FusedLaunch(n)) /\ IsLaunch(n, F2)
  BY <1>1, <1>3, <1>4, <1>5, <1>6 DEF IsLaunch, NextReads, NextWrites
<1> QED
  BY <1>3, <1>4, <1>5, <1>6, <1>7 DEF L2, F2

\* The consumer that brings the count to zero is the last one.
LEMMA LastReadFacts ==
    ASSUME PlanInv, HostInv, CountInv, AllocInv, host = "dispatch", NEW n \in Nodes,
           n \notin dispatched
    PROVE  /\ LastRead(n) \cap External = {}
           /\ ~Minimal => LastRead(n) = {}
           /\ \A b \in LastRead(n) :
                g.cons[b] \ (dispatched \cup {n}) = {} /\ g.cons[b] # {} /\ b \notin g.persistent
           /\ Minimal => \A b \in g.bufs \ External :
                /\ b \notin g.persistent /\ n \in g.cons[b]
                /\ g.cons[b] \ (dispatched \cup {n}) = {}
                => b \in LastRead(n)
<1>1. LastRead(n) \cap External = {} /\ (~Minimal => LastRead(n) = {})
  BY DEF LastRead
<1>2. \A b \in g.bufs : IsFiniteSet(g.cons[b] \ dispatched)
  <2>1. \A b \in g.bufs : g.cons[b] \in SUBSET Nodes
    BY DEF PlanInv, PlanTypeOK, IsWiring, Nodes
  <2>2. \A b \in g.bufs : IsFiniteSet(g.cons[b])
    BY <2>1, FiniteParts DEF PlanInv, PlanTypeOK
  <2> QED
    BY <2>2, FS_Difference
<1>3. ASSUME NEW b \in LastRead(n)
      PROVE  g.cons[b] \ (dispatched \cup {n}) = {} /\ g.cons[b] # {} /\ b \notin g.persistent
  <2>1. /\ Minimal /\ b \in g.bufs /\ n \in g.cons[b] /\ b \notin g.persistent
        /\ remaining[b] = 1
    BY DEF LastRead, Inputs
  <2>2. Cardinality(g.cons[b] \ dispatched) = 1
    BY <2>1 DEF CountInv, AllocInv
  <2>3. PICK x : g.cons[b] \ dispatched = {x}
    BY <1>2, <2>1, <2>2, FS_Singleton
  <2>4. n \in g.cons[b] \ dispatched
    BY <2>1
  <2> QED
    BY <2>1, <2>3, <2>4
<1>4. ASSUME Minimal, NEW b \in g.bufs \ External, b \notin g.persistent, n \in g.cons[b],
             g.cons[b] \ (dispatched \cup {n}) = {}
      PROVE  b \in LastRead(n)
  <2>1. g.cons[b] \ dispatched = {n}
    BY <1>4
  <2>2. Cardinality(g.cons[b] \ dispatched) = 1
    BY <2>1, FS_Singleton
  <2>3. remaining[b] = 1
    BY <1>4, <2>2 DEF CountInv, AllocInv
  <2> QED
    BY <1>4, <2>3 DEF LastRead, Inputs
<1> QED
  BY <1>1, <1>3, <1>4

\* What is known of the contents after a launch.
LEMMA LaunchKnows ==
    ASSUME SeqInv, Sequential, host = "dispatch", NEW n, Launches(n), NEW c, Knows(c),
           NEW op, IsLaunch(n, op), op.frees \subseteq g.bufs \ External,
           \A b \in op.frees : g.cons[b] \ (dispatched \cup {n}) = {} /\ g.cons[b] # {},
           UNCHANGED planVars, caller' = caller, host' = "dispatch", run' = run,
           dispatched' = dispatched \cup {n}, NEW c2, c2 = AfterCon(World, c, op)
    PROVE  Knows(c2)'
<1>0. /\ PlanInv /\ HostInv /\ ColorInv /\ PlainColors /\ OrderInv /\ AllocInv
      /\ ProducersFirst /\ OutputsPersistent /\ phase = "ready"
  <2>1. /\ PlanInv /\ HostInv /\ ColorInv /\ PlainColors /\ OrderInv /\ AllocInv
        /\ ProducersFirst /\ OutputsPersistent
    BY TurnParts
  <2> QED
    BY <2>1 DEF HostInv
<1>1. /\ Nodes' = Nodes /\ Colorable' = Colorable /\ External' = External
      /\ StagedInput' = StagedInput /\ FusedHead' = FusedHead /\ g' = g
      /\ World' = World
  BY TurnFixed
<1>2. n \in Nodes /\ n \notin Done
  BY NextNotDone
<1>3. ASSUME NEW b \in g.bufs, b \notin op.frees
      PROVE  /\ b \in op.writes => c2[b] = run
             /\ b \notin Touched(World, op.writes) /\ b \notin op.writes => c2[b] = c[b]
  <2>1. World.bufs = g.bufs
    BY DEF World
  <2> QED
    BY <1>3, <2>1 DEF AfterCon, IsLaunch
<1>4. Done' = Done \cup (IF n \in g.group THEN g.group ELSE {n})
  <2>1. n \in g.group => n = FusedHead
    BY DEF Launches
  <2>2. g.group \subseteq Nodes
    BY <1>0 DEF PlanInv, PlanTypeOK, IsWiring, Nodes
  <2>3. n \notin g.group => (FusedHead \in dispatched' <=> FusedHead \in dispatched) \/ g.group = {}
    <3>1. CASE g.group = {}
      BY <3>1
    <3>2. CASE g.group # {}
      <4>1. FusedHead \in g.group
        BY <1>0, <3>2, HeadLowest
      <4> QED
        BY <4>1
    <3> QED
      BY <3>1, <3>2
  <2> QED
    BY <1>1, <1>2, <2>1, <2>2, <2>3 DEF Done
<1>5. ASSUME NEW b \in op.frees PROVE ~Live(b)'
  <2>1. g.cons[b] \ (dispatched \cup {n}) = {} /\ g.cons[b] # {}
    OBVIOUS
  <2>2. g.cons[b] \subseteq Nodes
    BY <1>0 DEF PlanInv, PlanTypeOK, IsWiring, Nodes
  <2>3. ASSUME NEW x \in g.cons[b] PROVE x \in Done'
    BY <1>1, <2>1, <2>2 DEF Done
  <2> QED
    BY <1>1, <2>1, <2>3 DEF Live
<1>6. ASSUME NEW b \in Colorable, Live(b)' PROVE c2[b] = run
  <2>0. b \in g.bufs /\ b \notin op.frees /\ b \notin FusedInternal
    BY <1>5, <1>6 DEF Colorable
  <2>1. g.prod[b] \in Done' /\ (g.cons[b] = {} \/ g.cons[b] \ Done' # {})
    BY <1>1, <1>6 DEF Live
  <2>2. CASE g.prod[b] \in Done
    <3>1. Live(b)
      BY <1>4, <2>1, <2>2 DEF Live
    <3>2. b \notin Touched(World, op.writes)
      BY <1>0, <2>0, <3>1, WritesSpare DEF IsLaunch
    <3>3. b \notin op.writes
      BY <1>0, <2>2, WritesBorn DEF IsLaunch
    <3>4. c[b] = run
      BY <3>1 DEF Knows
    <3> QED
      BY <1>3, <2>0, <3>2, <3>3, <3>4
  <2>3. CASE g.prod[b] \notin Done
    <3>1. b \in NextWrites(n)
      BY <1>4, <2>0, <2>1, <2>3 DEF NextWrites, FusedWrites, Outputs
    <3> QED
      BY <1>3, <2>0, <3>1 DEF IsLaunch
  <2> QED
    BY <2>2, <2>3
<1>7. ASSUME StagedInput, NEW b \in External PROVE c2[b] = run
  <2>1. b \in g.bufs /\ b \notin op.frees /\ b \notin Colorable
    BY DEF External, Colorable
  <2>2. b \notin Touched(World, op.writes)
    BY <1>0, <2>1, WritesSpare DEF IsLaunch
  <2>3. b \notin op.writes
    BY <1>0, <2>1, WritesBorn DEF IsLaunch
  <2>4. c[b] = run
    BY <1>7 DEF Knows
  <2> QED
    BY <1>3, <2>1, <2>2, <2>3, <2>4
<1> QED
  BY <1>1, <1>6, <1>7 DEF Knows

\* The order of the levels after one more node.
LEMMA OrderNext ==
    ASSUME PlanInv, OrderInv, host = "dispatch", NEW n, IsNext(n), UNCHANGED planVars,
           host' = "dispatch", dispatched' = dispatched \cup {n}
    PROVE  OrderInv'
<1>1. Nodes' = Nodes /\ level' = level /\ level \in [Nodes -> Int]
  BY WiringFixed DEF planVars, PlanInv, PlanTypeOK
<1>2. \A m \in Nodes \ dispatched : level[n] <= level[m] /\ level[n] \in Int
  BY <1>1 DEF IsNext
<1>3. \A d \in dispatched : \A m \in Nodes \ dispatched : level[d] <= level[m]
  BY DEF OrderInv
<1> QED
  BY <1>1, <1>2, <1>3 DEF OrderInv

\* The flags after a launch and the frees behind it.
LEMMA AllocNext ==
    ASSUME SeqInv, Sequential, NEW n \in Nodes, Dispatch(n)
    PROVE  AllocInv'
<1>0. PlanInv /\ HostInv /\ CountInv /\ OrderInv /\ AllocInv /\ ProducersFirst /\ OutputsPersistent
  BY TurnParts
<1>1. /\ UNCHANGED planVars /\ caller' = caller /\ host = "dispatch" /\ host' = host /\ IsNext(n)
      /\ dispatched' = dispatched \cup {n} /\ n \notin g.group
      /\ allocated' = (allocated \cup NewOutputs(n)) \ LastRead(n)
  BY Zenon DEF Dispatch
<1>2. Colorable' = Colorable /\ Minimal' = Minimal /\ g' = g
  BY <1>1, TurnFixed
<1>3. n \notin dispatched /\ phase = "ready"
  BY <1>0, <1>1 DEF IsNext, HostInv
<1>4. /\ NewOutputs(n) \subseteq Colorable
      /\ ~Minimal => NewOutputs(n) = {}
      /\ Minimal => NewOutputs(n) = Outputs(n) \ allocated
  BY <1>0, NewOutputsFacts
<1>5. /\ LastRead(n) \cap External = {}
      /\ ~Minimal => LastRead(n) = {}
      /\ \A b \in LastRead(n) :
           g.cons[b] \ (dispatched \cup {n}) = {} /\ g.cons[b] # {} /\ b \notin g.persistent
      /\ Minimal => \A b \in g.bufs \ External :
           /\ b \notin g.persistent /\ n \in g.cons[b]
           /\ g.cons[b] \ (dispatched \cup {n}) = {}
           => b \in LastRead(n)
  BY <1>0, <1>1, <1>3, LastReadFacts
<1>6. allocated' \subseteq Colorable /\ (~Minimal => allocated' = Colorable)
  BY <1>0, <1>1, <1>4, <1>5 DEF AllocInv
<1>7. ASSUME Minimal, NEW b \in Colorable, b \in allocated'
      PROVE  b \in g.persistent \/ g.cons[b] \ dispatched' # {}
  <2>1. b \in g.bufs \ External
    BY DEF Colorable
  <2>2. CASE b \in allocated
    <3>1. b \in g.persistent \/ g.cons[b] \ dispatched # {}
      BY <1>0, <1>1, <1>7, <2>2 DEF AllocInv
    <3>2. b \notin LastRead(n)
      BY <1>1, <1>7
    <3> QED
      BY <1>1, <1>5, <1>7, <2>1, <3>1, <3>2
  <2>3. CASE b \notin allocated
    <3>1. b \in Outputs(n)
      BY <1>1, <1>4, <1>7, <2>3
    <3>2. CASE g.cons[b] = {}
      BY <1>0, <2>1, <3>2 DEF OutputsPersistent
    <3>3. CASE g.cons[b] # {}
      <4>1. PICK m : m \in g.cons[b]
        BY <3>3
      <4>2. m \in Nodes /\ n \in Deps(m)
        <5>1. m \in Nodes
          BY <1>0, <2>1, <4>1 DEF PlanInv, PlanTypeOK, IsWiring, Nodes
        <5>2. b \in Inputs(m) \ External /\ g.prod[b] = n
          BY <2>1, <3>1, <4>1 DEF Inputs, Outputs
        <5> QED
          BY <5>1, <5>2 DEF Deps
      <4>3. level[n] \in Int /\ level[m] \in Int /\ level[n] < level[m]
        BY <1>0, <1>3, <4>2, LevelOrder
      <4>4. m \notin dispatched
        BY <1>0, <1>1, <1>3, <4>3 DEF OrderInv
      <4>5. m \notin dispatched'
        BY <1>1, <4>3, <4>4
      <4> QED
        BY <4>1, <4>5
    <3> QED
      BY <3>2, <3>3
  <2> QED
    BY <2>2, <2>3
<1>8. ASSUME Minimal, NEW b \in Colorable, g.prod[b] \in dispatched',
             b \in g.persistent \/ g.cons[b] \ dispatched' # {}
      PROVE  b \in allocated'
  <2>1. b \notin LastRead(n)
    BY <1>1, <1>5, <1>8
  <2>2. CASE g.prod[b] = n
    BY <1>1, <1>4, <1>8, <2>1, <2>2 DEF Outputs, Colorable
  <2>3. CASE g.prod[b] \in dispatched
    <3>1. b \in g.persistent \/ g.cons[b] \ dispatched # {}
      BY <1>1, <1>8
    <3>2. b \in allocated
      BY <1>0, <1>1, <1>8, <2>3, <3>1 DEF AllocInv
    <3> QED
      BY <1>1, <2>1, <3>2
  <2> QED
    BY <1>1, <1>8, <2>2, <2>3
<1>9. Minimal => g.group = {}
  BY <1>0 DEF AllocInv
<1> QED
  BY <1>1, <1>2, <1>6, <1>7, <1>8, <1>9 DEF AllocInv

\* A node outside the groups.
LEMMA DispatchTurn ==
    ASSUME SeqInv, Sequential, NEW n \in Nodes, Dispatch(n)
    PROVE  InTurn'
<1>0. PlanInv /\ HostInv /\ CountInv /\ OrderInv /\ AllocInv /\ OneStream
  BY TurnParts
<1>1. /\ UNCHANGED planVars /\ caller' = caller /\ UNCHANGED gpuVars
      /\ host = "dispatch" /\ host' = "dispatch" /\ run' = run /\ IsNext(n)
      /\ dispatched' = dispatched \cup {n} /\ n \notin g.group
      /\ log' = Enqueue(log, ExecStream(n), Launch(n))
      /\ allocated' = (allocated \cup NewOutputs(n)) \ LastRead(n)
  BY Zenon DEF Dispatch
<1>2. Launches(n) /\ n \notin dispatched
  BY <1>1 DEF Launches, IsNext
<1>3. PICK c : On(log, allocated, c) /\ Knows(c)
  BY OnNow
<1>4. Launch(n) \in GoodOps /\ IsLaunch(n, Launch(n)) /\ Launch(n).frees = LastRead(n)
  BY <1>0, <1>1, LaunchGood, LaunchFields
<1> DEFINE op == Launch(n)
           c2 == AfterCon(World, c, op)
<1>5. RunsWell(World, Held(allocated), c, op)
  BY <1>1, <1>2, <1>3, <1>4, LaunchRuns
<1>6. /\ LastRead(n) \cap External = {} /\ LastRead(n) \subseteq g.bufs
      /\ \A b \in LastRead(n) : g.cons[b] \ (dispatched \cup {n}) = {} /\ g.cons[b] # {}
  BY <1>0, <1>1, <1>2, LastReadFacts, SetsOfBuffers
<1>7. Held(allocated') = AfterMap(Held(allocated), op)
  <2>1. op.allocs = NewOutputs(n)
    BY <1>4 DEF IsLaunch
  <2> HIDE DEF op
  <2> QED
    BY <1>1, <1>4, <1>6, <2>1 DEF Held, AfterMap, op
<1>8. ExecStream(n) = 0
  BY <1>0 DEF OneStream, ExecStream
<1> HIDE DEF op, c2
<1>9. On(log', allocated', c2)
  BY <1>0, <1>1, <1>3, <1>4, <1>5, <1>7, <1>8, OnEnqueue DEF op, c2
<1>10. \E k : k = c2
  OBVIOUS
<1>11. PICK k : k = c2
  BY <1>10
<1>12. Knows(k)'
  <2>1. IsLaunch(n, op) /\ k = AfterCon(World, c, op)
    BY <1>4, <1>11 DEF op, c2
  <2>2. op.frees \subseteq g.bufs \ External
    BY <1>4, <1>6 DEF op
  <2>3. \A b \in op.frees : g.cons[b] \ (dispatched \cup {n}) = {} /\ g.cons[b] # {}
    BY <1>4, <1>6 DEF op
  <2> QED
    BY <1>1, <1>2, <1>3, <2>1, <2>2, <2>3, LaunchKnows
<1>13. Follows' /\ Alone'
  BY <1>1, <1>9, <1>11, <1>12, OnFollows
<1>14. OrderInv'
  BY <1>0, <1>1, OrderNext
<1>15. Settled'
  BY <1>1 DEF Settled, Returned
<1> QED
  BY <1>13, <1>14, <1>15, AllocNext DEF InTurn

\* The flags stay as they are while a group is dispatched.
LEMMA AllocSame ==
    ASSUME AllocInv, g.group # {}, UNCHANGED planVars, caller' = caller,
           allocated' = allocated
    PROVE  AllocInv'
<1>1. Colorable' = Colorable /\ Minimal' = Minimal /\ g' = g
  BY TurnFixed
<1> QED
  BY <1>1 DEF AllocInv

\* The head of a fused group.
LEMMA FusedHeadTurn ==
    ASSUME SeqInv, Sequential, NEW n \in Nodes, DispatchFusedHead(n)
    PROVE  InTurn'
<1>0. PlanInv /\ HostInv /\ OrderInv /\ AllocInv
  BY TurnParts
<1>1. /\ UNCHANGED planVars /\ caller' = caller /\ UNCHANGED gpuVars
      /\ host = "dispatch" /\ host' = "dispatch" /\ run' = run /\ IsNext(n)
      /\ dispatched' = dispatched \cup {n} /\ n \in g.group /\ n = FusedHead
      /\ log' = Enqueue(log, 0, FusedLaunch(n)) /\ allocated' = allocated
  BY Zenon DEF DispatchFusedHead
<1>2. Launches(n)
  BY <1>1 DEF Launches
<1>3. PICK c : On(log, allocated, c) /\ Knows(c)
  BY OnNow
<1>4. FusedLaunch(n) \in GoodOps /\ IsLaunch(n, FusedLaunch(n)) /\ FusedLaunch(n).frees = {}
  BY <1>0, <1>1, LaunchGood, LaunchFields
<1> DEFINE op == FusedLaunch(n)
           c2 == AfterCon(World, c, op)
<1>5. RunsWell(World, Held(allocated), c, op)
  BY <1>1, <1>2, <1>3, <1>4, LaunchRuns
<1>6. Held(allocated') = AfterMap(Held(allocated), op)
  <2>1. op.allocs = {}
    BY <1>0, <1>1, <1>4, NewOutputsFacts DEF IsLaunch
  <2> HIDE DEF op
  <2> QED
    BY <1>1, <1>4, <2>1 DEF AfterMap, op
<1> HIDE DEF op, c2
<1>7. On(log', allocated', c2)
  BY <1>0, <1>1, <1>3, <1>4, <1>5, <1>6, OnEnqueue DEF op, c2
<1>8. PICK k : k = c2
  OBVIOUS
<1>9. Knows(k)'
  <2>1. IsLaunch(n, op) /\ k = AfterCon(World, c, op) /\ op.frees = {}
    BY <1>4, <1>8 DEF op, c2
  <2> QED
    BY <1>1, <1>2, <1>3, <2>1, LaunchKnows
<1>10. Follows' /\ Alone'
  BY <1>1, <1>7, <1>8, <1>9, OnFollows
<1>11. OrderInv' /\ AllocInv'
  BY <1>0, <1>1, OrderNext, AllocSame
<1>12. Settled'
  BY <1>1 DEF Settled, Returned
<1> QED
  BY <1>10, <1>11, <1>12 DEF InTurn

\* An operation that touches no memory.
LEMMA OnIdle ==
    ASSUME PlanInv, NEW lg, NEW al, NEW c, On(lg, al, c), NEW work, work \in GoodOps,
           work.reads = {}, work.writes = {}, work.allocs = {}, work.frees = {}
    PROVE  \E c2 : On(Enqueue(lg, 0, work), al, c2) /\ \A b \in g.bufs : c2[b] = c[b]
<1>1. RunsWell(World, Held(al), c, work)
  BY DEF RunsWell
<1>2. Held(al) = AfterMap(Held(al), work) /\ \A b \in World.bufs : AfterCon(World, c, work)[b] = c[b]
  BY IdleOp
<1>3. On(Enqueue(lg, 0, work), al, AfterCon(World, c, work))
  BY <1>1, <1>2, OnEnqueue
<1>4. World.bufs = g.bufs
  BY DEF World
<1> QED
  BY <1>2, <1>3, <1>4

\* What is known depends on the host's progress alone.
LEMMA KnowsSame ==
    ASSUME UNCHANGED planVars, caller' = caller, run' = run, Done' = Done, host # "idle",
           NEW c, Knows(c), NEW c2, \A b \in g.bufs : c2[b] = c[b]
    PROVE  Knows(c2)'
<1>1. Colorable' = Colorable /\ External' = External /\ StagedInput' = StagedInput /\ g' = g
  BY TurnFixed
<1>2. \A b \in Colorable : Live(b)' => Live(b) /\ b \in g.bufs
  BY <1>1 DEF Live, Colorable
<1>3. External \subseteq g.bufs
  BY DEF External
<1> QED
  BY <1>1, <1>2, <1>3 DEF Knows

\* Another member of a fused group.
LEMMA FusedMemberTurn ==
    ASSUME SeqInv, Sequential, NEW n \in Nodes, DispatchFusedMember(n)
    PROVE  InTurn'
<1>0. PlanInv /\ HostInv /\ OrderInv /\ AllocInv /\ ProducersFirst
  BY TurnParts
<1>1. /\ UNCHANGED planVars /\ caller' = caller /\ UNCHANGED gpuVars
      /\ host = "dispatch" /\ host' = "dispatch" /\ run' = run /\ IsNext(n)
      /\ dispatched' = dispatched \cup {n} /\ n \in g.group /\ n # FusedHead
      /\ log' = Enqueue(log, 0, [NoWork EXCEPT !.signals = {n}]) /\ allocated' = allocated
  BY Zenon DEF DispatchFusedMember
<1>2. phase = "ready"
  BY <1>0, <1>1 DEF HostInv
<1>3. FusedHead \in dispatched
  <2>1. /\ FusedHead \in g.group /\ level[FusedHead] \in Int /\ level[n] \in Int
        /\ level[FusedHead] < level[n]
    BY <1>0, <1>1, <1>2, HeadLowest
  <2>2. FusedHead \in Nodes
    BY <1>0, <2>1 DEF PlanInv, PlanTypeOK, IsWiring, Nodes
  <2> QED
    BY <1>1, <2>1, <2>2 DEF IsNext
<1>4. Done' = Done
  <2>1. Nodes' = Nodes /\ g' = g /\ FusedHead' = FusedHead
    BY <1>1, TurnFixed
  <2> QED
    BY <1>1, <1>3, <2>1 DEF Done
<1>5. PICK c : On(log, allocated, c) /\ Knows(c)
  BY OnNow
<1> DEFINE work == [NoWork EXCEPT !.signals = {n}]
<1>6. work \in GoodOps /\ work.reads = {} /\ work.writes = {} /\ work.allocs = {} /\ work.frees = {}
  BY <1>0, <1>1, ThrownGood DEF NoWork
<1> HIDE DEF work
<1>7. PICK c2 : On(Enqueue(log, 0, work), allocated, c2) /\ \A b \in g.bufs : c2[b] = c[b]
  BY <1>0, <1>5, <1>6, OnIdle
<1>8. On(log', allocated', c2)
  BY <1>1, <1>7 DEF work
<1>9. Knows(c2)'
  BY <1>1, <1>4, <1>5, <1>7, KnowsSame
<1>10. Follows' /\ Alone'
  BY <1>1, <1>8, <1>9, OnFollows
<1>11. OrderInv' /\ AllocInv'
  BY <1>0, <1>1, OrderNext, AllocSame
<1>12. Settled'
  BY <1>1 DEF Settled, Returned
<1> QED
  BY <1>10, <1>11, <1>12 DEF InTurn

\* A stage throws, before or after its launch.
LEMMA ThrowStageTurn ==
    ASSUME SeqInv, Sequential, NEW n \in Nodes, NEW launched \in BOOLEAN,
           ThrowStage(n, launched)
    PROVE  InTurn'
<1>0. PlanInv /\ HostInv /\ AllocInv /\ OneStream
  BY TurnParts
<1> DEFINE op == [Launch(n) EXCEPT !.signals = {}, !.frees = {}]
           pre == [NoWork EXCEPT !.waits = EventsOf(Deps(n)), !.allocs = NewOutputs(n)]
           al == allocated \cup NewOutputs(n)
<1>1. /\ host = "dispatch" /\ IsNext(n) /\ n \notin g.group
      /\ Abort(Enqueue(log, ExecStream(n), op), al) \/ Abort(Enqueue(log, ExecStream(n), pre), al)
  BY Zenon DEF ThrowStage
<1>2. Launches(n) /\ ExecStream(n) = 0
  BY <1>0, <1>1 DEF Launches, OneStream, ExecStream
<1>3. PICK c : On(log, allocated, c) /\ Knows(c)
  BY OnNow
<1>4. op \in GoodOps /\ IsLaunch(n, op) /\ op.frees = {}
  BY <1>0, <1>1, ThrownGood, LaunchFields
<1>5. pre \in GoodOps /\ pre.reads = {} /\ pre.writes = {} /\ pre.allocs = NewOutputs(n) /\ pre.frees = {}
  BY <1>0, <1>1, ThrownGood DEF NoWork
<1>6. IsAllocation(al) /\ (~Minimal => al = Colorable)
  <2>1. NewOutputs(n) \subseteq Colorable
    BY <1>0, NewOutputsFacts
  <2> QED
    BY <1>0, <2>1 DEF IsAllocation, AllocInv
<1> HIDE DEF op, pre
<1>7. Held(al) = AfterMap(Held(allocated), op) /\ Held(al) = AfterMap(Held(allocated), pre)
  BY <1>4, <1>5 DEF AfterMap, Held, IsLaunch
<1>8. RunsWell(World, Held(allocated), c, op)
  BY <1>1, <1>2, <1>3, <1>4, LaunchRuns
<1>9. RunsWell(World, Held(allocated), c, pre)
  BY <1>5 DEF RunsWell
<1> HIDE DEF al
<1>10. /\ On(Enqueue(log, 0, op), al, AfterCon(World, c, op))
       /\ On(Enqueue(log, 0, pre), al, AfterCon(World, c, pre))
  BY <1>0, <1>3, <1>4, <1>5, <1>7, <1>8, <1>9, OnEnqueue
<1>11. Abort(Enqueue(log, 0, op), al) \/ Abort(Enqueue(log, 0, pre), al)
  BY <1>1, <1>2
<1>12. CASE Abort(Enqueue(log, 0, op), al)
  BY <1>6, <1>10, <1>12, AbortTurn
<1>13. CASE Abort(Enqueue(log, 0, pre), al)
  BY <1>6, <1>10, <1>13, AbortTurn
<1> QED
  BY <1>11, <1>12, <1>13

\* A fused group throws, before or after its launch.
LEMMA ThrowFusedTurn ==
    ASSUME SeqInv, Sequential, NEW n \in Nodes, NEW launched \in BOOLEAN,
           ThrowFused(n, launched)
    PROVE  InTurn'
<1>0. PlanInv /\ HostInv /\ AllocInv
  BY TurnParts
<1> DEFINE op == [FusedLaunch(n) EXCEPT !.signals = {}]
           pre == [NoWork EXCEPT !.waits = EventsOf(Deps(n))]
<1>1. /\ host = "dispatch" /\ IsNext(n) /\ n \in g.group /\ n = FusedHead
      /\ Abort(Enqueue(log, 0, op), allocated) \/ Abort(Enqueue(log, 0, pre), allocated)
  BY Zenon DEF ThrowFused
<1>2. Launches(n)
  BY <1>1 DEF Launches
<1>3. PICK c : On(log, allocated, c) /\ Knows(c)
  BY OnNow
<1>4. op \in GoodOps /\ IsLaunch(n, op) /\ op.frees = {} /\ op.allocs = {}
  BY <1>0, <1>1, ThrownGood, LaunchFields, NewOutputsFacts DEF IsLaunch
<1>5. pre \in GoodOps /\ pre.reads = {} /\ pre.writes = {} /\ pre.allocs = {} /\ pre.frees = {}
  BY <1>0, <1>1, ThrownGood DEF NoWork
<1>6. IsAllocation(allocated) /\ (~Minimal => allocated = Colorable)
  BY <1>0 DEF IsAllocation, AllocInv
<1> HIDE DEF op, pre
<1>7. Held(allocated) = AfterMap(Held(allocated), op) /\ Held(allocated) = AfterMap(Held(allocated), pre)
  BY <1>4, <1>5 DEF AfterMap
<1>8. RunsWell(World, Held(allocated), c, op)
  BY <1>1, <1>2, <1>3, <1>4, LaunchRuns
<1>9. RunsWell(World, Held(allocated), c, pre)
  BY <1>5 DEF RunsWell
<1>10. /\ On(Enqueue(log, 0, op), allocated, AfterCon(World, c, op))
       /\ On(Enqueue(log, 0, pre), allocated, AfterCon(World, c, pre))
  BY <1>0, <1>3, <1>4, <1>5, <1>7, <1>8, <1>9, OnEnqueue
<1>12. CASE Abort(Enqueue(log, 0, op), allocated)
  BY <1>6, <1>10, <1>12, AbortTurn
<1>13. CASE Abort(Enqueue(log, 0, pre), allocated)
  BY <1>6, <1>10, <1>13, AbortTurn
<1> QED
  BY <1>1, <1>12, <1>13

-----------------------------------------------------------------------------
(***************************************************************************)
(* The end of a call.                                                      *)
(***************************************************************************)
\* The barrier at the end of execute() has nothing to wait for.
LEMMA JoinTurn ==
    ASSUME SeqInv, Sequential, JoinStreams
    PROVE  InTurn'
<1>0. PlanInv /\ HostInv /\ OrderInv /\ AllocInv /\ OneStream
  BY TurnParts
<1>1. /\ UNCHANGED planVars /\ caller' = caller /\ UNCHANGED gpuVars
      /\ host = "dispatch" /\ host' = "sync" /\ run' = run /\ dispatched' = dispatched
      /\ dispatched = Nodes /\ allocated' = allocated
      /\ log' = EnqueueIf(JoinSet # {}, log, 0, [NoWork EXCEPT !.waits = EventsOf(JoinSet)])
  BY Zenon DEF JoinStreams
<1>2. JoinSet = {}
  BY <1>0 DEF JoinSet, ExecStream, OneStream, HostInv
<1>3. log' = log
  BY <1>1, <1>2 DEF EnqueueIf
<1>4. /\ Nodes' = Nodes /\ g' = g /\ FusedHead' = FusedHead /\ Colorable' = Colorable
      /\ Minimal' = Minimal /\ level' = level
  BY <1>1, TurnFixed
<1>5. PICK c : On(log, allocated, c) /\ Knows(c)
  BY OnNow
<1>6. Done' = Done
  BY <1>1, <1>4 DEF Done
<1>7. Knows(c)'
  BY <1>1, <1>5, <1>6, KnowsSame
<1>8. On(log', allocated', c)
  BY <1>1, <1>3, <1>5
<1>9. Follows' /\ Alone'
  BY <1>1, <1>7, <1>8, OnFollows
<1>10. OrderInv'
  BY <1>0, <1>1, <1>4 DEF OrderInv
<1>11. AllocInv'
  BY <1>0, <1>1, <1>4 DEF AllocInv
<1>12. Settled'
  BY <1>1 DEF Settled, Returned
<1> QED
  BY <1>9, <1>10, <1>11, <1>12 DEF InTurn

\* When every node has been gone through, MINIMAL holds what is kept only, and
\* the results are there.
LEMMA AllDispatched ==
    ASSUME PlanInv, HostInv, AllocInv, OutputsPersistent, OrderInv, host = "sync"
    PROVE  /\ Minimal => allocated \subseteq g.persistent
           /\ ResetFrees(allocated) = {}
           /\ PipelineOutputs \subseteq allocated
           /\ \A b \in PipelineOutputs : b \in Colorable /\ Live(b)
<1>0. dispatched = Nodes /\ \A b \in g.bufs : g.cons[b] \subseteq Nodes /\ g.prod[b] \in Nodes \cup {0}
  BY DEF OrderInv, PlanInv, PlanTypeOK, IsWiring, Nodes
<1>1. Minimal => allocated \subseteq g.persistent
  <2> SUFFICES ASSUME Minimal, NEW b \in allocated PROVE b \in g.persistent
    OBVIOUS
  <2>1. b \in Colorable /\ b \in g.bufs
    BY DEF AllocInv, Colorable
  <2>2. g.cons[b] \ dispatched = {}
    BY <1>0, <2>1
  <2> QED
    BY <2>1, <2>2 DEF AllocInv
<1>2. ResetFrees(allocated) = {}
  BY <1>1 DEF ResetFrees
<1>3. ASSUME NEW b \in PipelineOutputs PROVE b \in Colorable /\ Live(b)
  <2>1. b \in g.bufs \ External /\ g.cons[b] = {}
    BY DEF PipelineOutputs
  <2>2. b \in Colorable
    BY <2>1 DEF Colorable, FusedInternal
  <2>3. g.prod[b] \in Nodes
    BY <1>0, <2>1 DEF External
  <2> QED
    BY <1>0, <2>1, <2>2, <2>3 DEF Live, Done
<1>4. PipelineOutputs \subseteq allocated
  BY <1>3, LiveAllocated
<1> QED
  BY <1>1, <1>2, <1>3, <1>4

\* A synchronized stream has come to the end of its timeline.
LEMMA OnDrained ==
    ASSUME PlanInv, DeviceInv, StreamSynchronized, NEW c, On(log, allocated, c)
    PROVE  mapped = Held(allocated) /\ content = c
<1>1. 0 \in Streams
  BY ZeroStream
<1>2. Device.on = 0 /\ Device.pc = Len(log[0]) /\ Device.mapped = mapped /\ Device.content = content
  BY <1>1 DEF Device, StreamSynchronized
<1>3. Timeline(World, Device, log[0], Held(allocated), c)
  BY DEF On
<1> QED
  BY <1>2, <1>3, TimelineDrained

\* The flags after the end of a call.
LEMMA AllocIdle ==
    ASSUME AllocInv, UNCHANGED planVars, caller' = caller, host' = "idle", dirty' = TRUE,
           allocated' = allocated
    PROVE  AllocInv'
<1>1. Colorable' = Colorable /\ Minimal' = Minimal /\ g' = g
  BY TurnFixed
<1> QED
  BY <1>1 DEF AllocInv

\* compress() returns, perhaps with the gather of its outputs enqueued.
LEMMA ReturnCompressedTurn ==
    ASSUME SeqInv, Sequential, ReturnCompressed
    PROVE  InTurn'
<1>0. PlanInv /\ HostInv /\ DeviceInv /\ OrderInv /\ AllocInv /\ OutputsPersistent
  BY TurnParts
<1> DEFINE op == [NoWork EXCEPT !.reads = PipelineOutputs]
<1>1. /\ UNCHANGED planVars /\ caller' = caller /\ UNCHANGED gpuVars
      /\ host = "sync" /\ host' = "idle" /\ run' = run /\ dirty' = TRUE
      /\ StreamSynchronized /\ allocated' = allocated
      /\ log' = EnqueueIf(Cardinality(PipelineOutputs) > 1, log, 0, op)
  BY Zenon DEF ReturnCompressed
<1>2. PICK c : On(log, allocated, c) /\ Knows(c)
  BY OnNow
<1>3. /\ Minimal => allocated \subseteq g.persistent
      /\ PipelineOutputs \subseteq allocated
      /\ \A b \in PipelineOutputs : b \in Colorable /\ Live(b)
  BY <1>0, <1>1, AllDispatched
<1>4. mapped = Held(allocated) /\ content = c
  BY <1>0, <1>1, <1>2, OnDrained
<1>5. \A b \in PipelineOutputs : content[b] = run
  BY <1>1, <1>2, <1>3, <1>4 DEF Knows
<1>6. /\ op \in GoodOps /\ op.run = run /\ op.reads = PipelineOutputs /\ op.writes = {}
      /\ op.allocs = {} /\ op.frees = {}
  <2>1. op \in GoodOps
    BY <1>0, PlainGood DEF HostInv
  <2> QED
    BY <2>1 DEF NoWork
<1> HIDE DEF op
<1>7. RunsWell(World, Held(allocated), c, op)
  <2>1. Touched(World, op.writes) = {}
    BY <1>6 DEF Touched
  <2> QED
    BY <1>3, <1>4, <1>5, <1>6, <2>1 DEF RunsWell, Held
<1>8. Held(allocated) = AfterMap(Held(allocated), op)
  BY <1>6 DEF AfterMap
<1>9. On(Enqueue(log, 0, op), allocated, AfterCon(World, c, op))
  BY <1>0, <1>2, <1>6, <1>7, <1>8, OnEnqueue
<1>10. \E c2 : On(log', allocated', c2)
  BY <1>1, <1>2, <1>9 DEF EnqueueIf
<1>11. Follows' /\ Alone'
  <2>1. PICK c2 : On(log', allocated', c2)
    BY <1>10
  <2>2. Knows(c2)'
    BY <1>1 DEF Knows
  <2> QED
    BY <1>1, <2>1, <2>2, OnFollows
<1>12. OrderInv' /\ AllocInv'
  BY <1>0, <1>1, AllocIdle DEF OrderInv
<1>13. \A i \in 1..Len(log'[0]) : i > pc[0] =>
          log'[0][i].writes = {} /\ log'[0][i].allocs = {} /\ log'[0][i].frees = {}
  <2>0. 0 \in Streams
    BY <1>0, ZeroStream
  <2>1. pc[0] = Len(log[0]) /\ log[0] \in Seq(GoodOps) /\ log \in Logs
    BY <1>0, <1>1, <2>0 DEF StreamSynchronized, DeviceInv, Logs
  <2>2. CASE log' = log
    BY <2>1, <2>2
  <2>3. CASE log' = Enqueue(log, 0, op)
    <3> DEFINE o == [op EXCEPT !.after = Barrier(log, 0)]
    <3>1. o.writes = {} /\ o.allocs = {} /\ o.frees = {} /\ o \in GoodOps \cup {o}
      BY <1>6 DEF GoodOps, Ops
    <3>2. log'[0] = Append(log[0], o)
      BY <2>0, <2>1, <2>3 DEF Enqueue, Logs
    <3> HIDE DEF o
    <3>3. log[0] \in Seq(GoodOps \cup {o})
      BY <2>1
    <3>4. Len(log'[0]) = Len(log[0]) + 1 /\ log'[0][Len(log[0]) + 1] = o /\ Len(log[0]) \in Nat
      BY <3>1, <3>2, <3>3
    <3> QED
      BY <2>1, <3>1, <3>4
  <2> QED
    BY <1>1, <2>2, <2>3 DEF EnqueueIf
<1>14. Settled'
  <2>1. Minimal' = Minimal /\ g' = g /\ PipelineOutputs' = PipelineOutputs /\ External' = External
    BY <1>1, TurnFixed
  <2>2. mapped' = mapped /\ content' = content /\ pc' = pc
    BY <1>1, DeviceFixed
  <2> QED
    BY <1>1, <1>3, <1>4, <1>5, <1>13, <2>1, <2>2 DEF Settled, Held
<1> QED
  BY <1>11, <1>12, <1>14 DEF InTurn

\* decompress() and decompressInto().
LEMMA ReturnDecompressedTurn ==
    ASSUME SeqInv, Sequential, ReturnDecompressed
    PROVE  InTurn'
<1>0. PlanInv /\ HostInv /\ DeviceInv /\ OrderInv /\ AllocInv /\ OutputsPersistent
  BY TurnParts
<1>1. /\ UNCHANGED planVars /\ caller' = caller /\ UNCHANGED gpuVars
      /\ host = "sync" /\ host' = "idle" /\ run' = run /\ dirty' = TRUE
      /\ Synchronizes => StreamSynchronized
      /\ log' = EnqueueReset(log, allocated) /\ allocated' = allocated \ ResetFrees(allocated)
  BY Zenon DEF ReturnDecompressed
<1>2. PICK c : On(log, allocated, c) /\ Knows(c)
  BY OnNow
<1>3. /\ Minimal => allocated \subseteq g.persistent
      /\ ResetFrees(allocated) = {}
      /\ PipelineOutputs \subseteq allocated
      /\ \A b \in PipelineOutputs : b \in Colorable /\ Live(b)
  BY <1>0, <1>1, AllDispatched
<1>4. log' = log /\ allocated' = allocated
  BY <1>1, <1>3 DEF EnqueueReset, EnqueueIf
<1>5. Knows(c)'
  BY <1>1 DEF Knows
<1>6. Follows' /\ Alone'
  BY <1>1, <1>2, <1>4, <1>5, OnFollows
<1>7. OrderInv' /\ AllocInv'
  BY <1>0, <1>1, <1>4, AllocIdle DEF OrderInv
<1>8. Settled'
  <2>1. /\ Minimal' = Minimal /\ g' = g /\ PipelineOutputs' = PipelineOutputs
        /\ External' = External /\ Synchronizes' = Synchronizes
    BY <1>1, TurnFixed
  <2>2. mapped' = mapped /\ content' = content /\ pc' = pc
    BY <1>1, DeviceFixed
  <2> SUFFICES ASSUME Synchronizes
               PROVE  /\ mapped' = (allocated \cup External)'
                      /\ (Minimal => allocated \subseteq g.persistent)'
                      /\ (PipelineOutputs \subseteq allocated)'
                      /\ (\A b \in PipelineOutputs : content[b] = run)'
                      /\ \A i \in 1..Len(log'[0]) : i > pc'[0] =>
                           log'[0][i].writes = {} /\ log'[0][i].allocs = {} /\ log'[0][i].frees = {}
    BY <2>1 DEF Settled, Returned
  <2>3. mapped = Held(allocated) /\ content = c
    BY <1>0, <1>1, <1>2, OnDrained
  <2>4. \A b \in PipelineOutputs : content[b] = run
    BY <1>1, <1>2, <1>3, <2>3 DEF Knows
  <2>5. pc[0] = Len(log[0]) /\ Len(log[0]) \in Nat
    BY <1>0, <1>1, ZeroStream DEF StreamSynchronized, DeviceInv, Logs
  <2> QED
    BY <1>1, <1>3, <1>4, <2>1, <2>2, <2>3, <2>4, <2>5 DEF Held
<1> QED
  BY <1>6, <1>7, <1>8 DEF InTurn

\* Collecting the result throws.
LEMMA ThrowResultTurn ==
    ASSUME SeqInv, Sequential, ThrowResult
    PROVE  InTurn'
<1>0. AllocInv
  BY TurnParts
<1>1. Abort(log, allocated)
  BY Zenon DEF ThrowResult
<1>2. PICK c : On(log, allocated, c) /\ Knows(c)
  BY OnNow
<1>3. IsAllocation(allocated) /\ (~Minimal => allocated = Colorable)
  BY <1>0 DEF IsAllocation, AllocInv
<1> QED
  BY <1>1, <1>2, <1>3, AbortTurn

\* What reset() leaves under MINIMAL is what is kept.
LEMMA ResetLeaves ==
    ASSUME AllocInv
    PROVE  /\ IsAllocation(allocated) /\ AfterReset(allocated) \subseteq Colorable
           /\ ~Minimal => AfterReset(allocated) = Colorable
           /\ Minimal => AfterReset(allocated) \subseteq g.persistent
           /\ Minimal /\ allocated \subseteq g.persistent => ResetFrees(allocated) = {}
           /\ ~Minimal => ResetFrees(allocated) = {}
BY DEF AllocInv, IsAllocation, AfterReset, ResetFrees, Colorable

\* Pipeline::reset() between two calls.
LEMMA ResetPipelineTurn ==
    ASSUME SeqInv, Sequential, ResetPipeline
    PROVE  InTurn'
<1>0. PlanInv /\ HostInv /\ OrderInv /\ AllocInv /\ Settled
  BY TurnParts
<1>1. /\ UNCHANGED planVars /\ caller' = caller /\ UNCHANGED gpuVars
      /\ host = "idle" /\ host' = host /\ run' = run /\ aborted' = aborted /\ dirty' = FALSE
      /\ log' = EnqueueReset(log, allocated) /\ allocated' = AfterReset(allocated)
  BY Zenon DEF ResetPipeline, AfterReset
<1>2. PICK c : On(log, allocated, c) /\ Knows(c)
  BY OnNow
<1>3. /\ IsAllocation(allocated) /\ AfterReset(allocated) \subseteq Colorable
      /\ ~Minimal => AfterReset(allocated) = Colorable
      /\ Minimal => AfterReset(allocated) \subseteq g.persistent
      /\ Minimal /\ allocated \subseteq g.persistent => ResetFrees(allocated) = {}
      /\ ~Minimal => ResetFrees(allocated) = {}
  BY <1>0, ResetLeaves
<1>4. \E c2 : On(EnqueueReset(log, allocated), AfterReset(allocated), c2)
  BY <1>0, <1>2, <1>3, OnReset
<1>5. PICK c2 : On(log', allocated', c2)
  BY <1>1, <1>4
<1>6. Knows(c2)'
  BY <1>1 DEF Knows
<1>7. Follows' /\ Alone'
  BY <1>1, <1>5, <1>6, OnFollows
<1>8. /\ Colorable' = Colorable /\ Minimal' = Minimal /\ g' = g
      /\ PipelineOutputs' = PipelineOutputs /\ External' = External /\ Synchronizes' = Synchronizes
  BY <1>1, TurnFixed
<1>9. OrderInv' /\ AllocInv'
  BY <1>0, <1>1, <1>3, <1>8 DEF OrderInv, AllocInv
<1>10. Settled'
  <2>1. mapped' = mapped /\ content' = content /\ pc' = pc
    BY <1>1, DeviceFixed
  <2>2. Returned' <=> Returned
    BY <1>1, <1>8 DEF Returned
  <2>3. CASE ~Returned
    BY <2>2, <2>3 DEF Settled
  <2>4. CASE Returned
    <3>1. ResetFrees(allocated) = {}
      BY <1>0, <1>3, <2>4 DEF Settled
    <3>2. log' = log /\ allocated' = allocated
      BY <1>1, <3>1 DEF EnqueueReset, EnqueueIf, AfterReset
    <3> QED
      BY <1>0, <1>1, <1>8, <2>1, <2>4, <3>2 DEF Settled
  <2> QED
    BY <2>3, <2>4
<1> QED
  BY <1>7, <1>9, <1>10 DEF InTurn

\* A call starts: the reset of a dirty DAG, then the copy of the input.
LEMMA BeginCallTurn ==
    ASSUME SeqInv, Sequential, BeginCall
    PROVE  InTurn'
<1>0. PlanInv /\ HostInv /\ OrderInv /\ AllocInv
  BY TurnParts
<1> DEFINE op == InputCopy(run')
<1>1. /\ UNCHANGED planVars /\ caller' = caller /\ UNCHANGED gpuVars
      /\ host = "idle" /\ host' = "dispatch" /\ run' = run + 1 /\ run < MaxRuns
      /\ dispatched' = {}
      /\ \/ /\ log' = EnqueueIf(StagedInput, EnqueueReset(log, allocated), 0, op)
            /\ allocated' = AfterReset(allocated)
         \/ /\ dirty # TRUE
            /\ log' = EnqueueIf(StagedInput, log, 0, op)
            /\ allocated' = allocated
  BY Zenon DEF BeginCall, AfterReset
<1>2. PICK c : On(log, allocated, c) /\ Knows(c)
  BY OnNow
<1>3. /\ IsAllocation(allocated) /\ AfterReset(allocated) \subseteq Colorable
      /\ ~Minimal => AfterReset(allocated) = Colorable
      /\ Minimal => AfterReset(allocated) \subseteq g.persistent
  BY <1>0, ResetLeaves
<1>4. \E lg, c2 : On(lg, allocated', c2) /\ log' = EnqueueIf(StagedInput, lg, 0, op)
  BY <1>0, <1>1, <1>2, <1>3, OnReset
<1>5. PICK lg, c2 : On(lg, allocated', c2) /\ log' = EnqueueIf(StagedInput, lg, 0, op)
  BY <1>4
<1>6. run' \in 0..MaxRuns
  BY <1>0, <1>1, ExecAssumption DEF HostInv
<1>7. /\ op \in GoodOps /\ op.run = run' /\ op.reads = {} /\ op.writes = External
      /\ op.allocs = {} /\ op.frees = {}
  <2>1. op \in GoodOps
    BY <1>0, <1>6, PlainGood
  <2> QED
    BY <2>1 DEF NoWork, InputCopy
<1> HIDE DEF op
<1> DEFINE al == allocated'
<1> HIDE DEF al
<1>8. RunsWell(World, Held(al), c2, op) /\ Held(al) = AfterMap(Held(al), op)
  BY <1>7 DEF RunsWell, AfterMap, Held
<1>9. On(Enqueue(lg, 0, op), al, AfterCon(World, c2, op))
  BY <1>0, <1>5, <1>7, <1>8, OnEnqueue DEF al
<1>10. \A b \in External : AfterCon(World, c2, op)[b] = run'
  <2>1. External \subseteq World.bufs
    BY DEF World, External
  <2> QED
    BY <1>7, <2>1 DEF AfterCon
<1>11. \E c3 : On(log', al, c3) /\ (StagedInput => \A b \in External : c3[b] = run')
  BY <1>5, <1>9, <1>10 DEF EnqueueIf, al
<1>12. PICK c3 : On(log', al, c3) /\ (StagedInput => \A b \in External : c3[b] = run')
  BY <1>11
<1>13. /\ Nodes' = Nodes /\ Colorable' = Colorable /\ Minimal' = Minimal /\ g' = g
       /\ External' = External /\ StagedInput' = StagedInput /\ FusedHead' = FusedHead
  BY <1>1, TurnFixed
<1>14. Knows(c3)'
  <2>1. Done' = {}
    BY <1>1 DEF Done
  <2>2. \A b \in Colorable : ~Live(b)'
    BY <2>1 DEF Live
  <2> QED
    BY <1>12, <1>13, <2>2 DEF Knows
<1>15. Follows' /\ Alone'
  BY <1>1, <1>12, <1>14, OnFollows DEF al
<1>16. OrderInv'
  BY <1>1 DEF OrderInv
<1>17. AllocInv'
  <2>1. /\ allocated' \subseteq Colorable /\ (~Minimal => allocated' = Colorable)
        /\ Minimal => allocated' \subseteq g.persistent
    BY <1>0, <1>1, <1>3 DEF AllocInv
  <2>2. Minimal => g.group = {}
    BY <1>0 DEF AllocInv
  <2> QED
    BY <1>1, <1>13, <2>1, <2>2 DEF AllocInv
<1>18. Settled'
  BY <1>1 DEF Settled, Returned
<1> QED
  BY <1>15, <1>16, <1>17, <1>18 DEF InTurn

-----------------------------------------------------------------------------
(***************************************************************************)
(* The device.                                                             *)
(***************************************************************************)

\* What a step of the device leaves alone.
LEMMA DeviceTurn ==
    ASSUME UNCHANGED planVars, UNCHANGED hostVars, log' = log, OrderInv, AllocInv, Alone,
           NEW c, Knows(c), Timeline(World, Device', log[0], Held(allocated), c)
    PROVE  OrderInv' /\ AllocInv' /\ Alone' /\ Follows'
<1>1. /\ caller' = caller /\ host' = host /\ run' = run /\ dispatched' = dispatched
      /\ allocated' = allocated /\ dirty' = dirty
  BY Zenon DEF hostVars
<1>2. /\ World' = World /\ Nodes' = Nodes /\ Streams' = Streams
      /\ Colorable' = Colorable /\ External' = External /\ Minimal' = Minimal
      /\ FusedHead' = FusedHead /\ StagedInput' = StagedInput /\ g' = g /\ level' = level
  BY <1>1, TurnFixed
<1>3. OrderInv'
  BY <1>1, <1>2 DEF OrderInv
<1>4. AllocInv'
  BY <1>1, <1>2, Zenon DEF AllocInv
<1>5. Alone'
  BY <1>2 DEF Alone
<1>6. Knows(c)'
  <2>1. Done' = Done
    BY <1>1, <1>2 DEF Done
  <2>2. \A b \in Colorable : Live(b)' => Live(b)
    BY <1>2, <2>1 DEF Live
  <2> QED
    BY <1>1, <1>2, <2>2 DEF Knows
<1>7. Held(allocated)' = Held(allocated)
  BY <1>1, <1>2 DEF Held
<1>8. Follows'
  BY <1>2, <1>6, <1>7 DEF Follows
<1> QED
  BY <1>3, <1>4, <1>5, <1>8

\* The two ways to say which memory a write touches.
LEMMA TouchedClobbered ==
    ASSUME NEW S \in SUBSET g.bufs
    PROVE  Clobbered(S) = Touched(World, S)
<1>1. \A b \in S : World.shared[b] = {a \in g.bufs : SharesMemory(a, b)}
  BY DEF World
<1> QED
  BY <1>1 DEF Clobbered, Touched

\* Only the caller's stream runs anything.
LEMMA OnlyStream ==
    ASSUME SeqInv, Sequential, NEW s \in Streams, pc[s] < Len(log[s])
    PROVE  /\ s = 0 /\ pc[0] < Len(log[0]) /\ pc[0] \in Nat /\ Len(log[0]) \in Nat
           /\ Current(0) = log[0][pc[0] + 1] /\ Current(0) \in GoodOps
           /\ Current(0).writes \in SUBSET g.bufs /\ Device.pc = pc[0]
<1>0. Alone /\ DeviceInv
  BY TurnParts
<1>1. log[s] \in Seq(GoodOps) /\ pc[s] \in Nat /\ Len(log[s]) \in Nat
  BY <1>0 DEF DeviceInv, Logs
<1>2. s = 0
  BY <1>0, <1>1 DEF Alone
<1>3. pc[0] + 1 \in 1..Len(log[0])
  BY <1>1, <1>2
<1>4. log[0][pc[0] + 1] \in GoodOps
  BY <1>1, <1>2, <1>3
<1> QED
  BY <1>1, <1>2, <1>4 DEF Current, GoodOps, Ops, Device

\* When a call has returned, what still runs changes nothing.
LEMMA SettledRuns ==
    ASSUME SeqInv, Sequential, NEW s \in Streams, pc[s] < Len(log[s]), Returned
    PROVE  Current(0).writes = {} /\ Current(0).allocs = {} /\ Current(0).frees = {}
<1>1. Settled
  BY TurnParts
<1>2. s = 0 /\ pc[0] < Len(log[0]) /\ pc[0] \in Nat /\ Len(log[0]) \in Nat
        /\ Current(0) = log[0][pc[0] + 1]
  BY OnlyStream
<1>3. pc[0] + 1 \in 1..Len(log[0]) /\ pc[0] + 1 > pc[0]
  BY <1>2
<1> QED
  BY <1>1, <1>2, <1>3 DEF Settled

\* The device starts an operation.
LEMMA StartOpTurn ==
    ASSUME SeqInv, Sequential, NEW s \in Streams, StartOp(s)
    PROVE  InTurn'
<1>0. /\ PlanInv /\ DeviceInv /\ OrderInv /\ AllocInv /\ Alone /\ Settled /\ Within(Device, log[0])
  BY TurnParts
<1>1. /\ UNCHANGED planVars /\ UNCHANGED hostVars /\ log' = log /\ pc' = pc
      /\ pc[s] < Len(log[s]) /\ ~busy[s] /\ busy' = [busy EXCEPT ![s] = TRUE]
      /\ mapped' = mapped \cup Current(s).allocs
      /\ content' = [b \in g.bufs |->
                       IF b \in Clobbered(Current(s).writes) THEN 0 ELSE content[b]]
  BY Zenon DEF StartOp
<1>2. /\ s = 0 /\ pc[0] < Len(log[0]) /\ pc[0] \in Nat /\ Len(log[0]) \in Nat
      /\ Current(0) = log[0][pc[0] + 1] /\ Current(0).writes \in SUBSET g.bufs
      /\ Device.pc = pc[0]
  BY <1>1, OnlyStream
<1> DEFINE op == Current(0)
           d == Device
           e == Device'
<1>3. busy'[0] = TRUE /\ 0 \in Streams
  BY <1>0, <1>1, <1>2 DEF DeviceInv
<1>4. World.bufs = g.bufs
  BY DEF World
<1>5. content' = DuringCon(World, content, op)
  <2>1. Clobbered(op.writes) = Touched(World, op.writes)
    BY <1>2, TouchedClobbered
  <2> QED
    BY <1>1, <1>2, <1>4, <2>1 DEF DuringCon
<1>6. d.on = 0 /\ d.pc = pc[0] /\ d.mapped = mapped /\ d.content = content
  BY <1>1, <1>2 DEF Device
<1>7. e.on = 1 /\ e.pc = pc[0] /\ e.mapped = mapped' /\ e.content = content'
  BY <1>1, <1>3 DEF Device
<1>8. PICK c : Timeline(World, d, log[0], Held(allocated), c) /\ Knows(c)
  BY OnNow DEF On
<1> HIDE DEF op, d, e
<1>9. /\ Within(d, log[0]) /\ d.pc < Len(log[0]) /\ e.pc = d.pc
      /\ e.mapped = d.mapped \cup log[0][d.pc + 1].allocs
      /\ e.content = DuringCon(World, d.content, log[0][d.pc + 1])
  BY <1>0, <1>1, <1>2, <1>5, <1>6, <1>7 DEF op, d
<1> DEFINE m == Held(allocated)
<1> HIDE DEF m
<1>10. Timeline(World, d, log[0], m, c)
  BY <1>8 DEF m
<1>11. Timeline(World, e, log[0], m, c)
  BY <1>2, <1>6, <1>7, <1>9, <1>10, TimelineStart
<1>12. OrderInv' /\ AllocInv' /\ Alone' /\ Follows'
  BY <1>0, <1>1, <1>8, <1>11, DeviceTurn DEF m, e
<1>13. Settled'
  <2>1. /\ caller' = caller /\ host' = host /\ run' = run /\ aborted' = aborted
        /\ allocated' = allocated
    BY <1>1, Zenon DEF hostVars
  <2>2. /\ Minimal' = Minimal /\ g' = g /\ PipelineOutputs' = PipelineOutputs
        /\ External' = External /\ Synchronizes' = Synchronizes
    BY <1>1, <2>1, TurnFixed
  <2>3. Returned' <=> Returned
    BY <2>1, <2>2 DEF Returned
  <2>4. CASE ~Returned
    BY <2>3, <2>4 DEF Settled
  <2>5. CASE Returned
    <3>1. op.writes = {} /\ op.allocs = {}
      BY <1>1, <2>5, SettledRuns DEF op
    <3>2. mapped' = mapped
      BY <1>1, <1>2, <3>1 DEF op
    <3>3. \A b \in PipelineOutputs : content'[b] = content[b]
      <4>1. PipelineOutputs \subseteq g.bufs
        BY DEF PipelineOutputs
      <4>2. Touched(World, op.writes) = {}
        BY <3>1 DEF Touched
      <4> QED
        BY <1>4, <1>5, <4>1, <4>2 DEF DuringCon
    <3> QED
      BY <1>0, <1>1, <2>1, <2>2, <2>5, <3>2, <3>3 DEF Settled
  <2> QED
    BY <2>4, <2>5
<1> QED
  BY <1>12, <1>13 DEF InTurn

\* The device ends an operation.
LEMMA FinishOpTurn ==
    ASSUME SeqInv, Sequential, NEW s \in Streams, FinishOp(s)
    PROVE  InTurn'
<1>0. /\ PlanInv /\ DeviceInv /\ OrderInv /\ AllocInv /\ Alone /\ Settled /\ Within(Device, log[0])
  BY TurnParts
<1>1. /\ UNCHANGED planVars /\ UNCHANGED hostVars /\ log' = log
      /\ pc' = [pc EXCEPT ![s] = @ + 1]
      /\ busy[s] /\ busy' = [busy EXCEPT ![s] = FALSE]
      /\ mapped' = mapped \ Current(s).frees
      /\ content' = [b \in g.bufs |->
                       IF b \in Current(s).frees THEN 0
                       ELSE IF b \in Current(s).writes THEN Current(s).run
                       ELSE IF b \in Clobbered(Current(s).writes) THEN 0
                       ELSE content[b]]
  BY Zenon DEF FinishOp
<1>a. pc[s] < Len(log[s])
  BY <1>0, <1>1 DEF DeviceInv
<1>2. /\ s = 0 /\ pc[0] < Len(log[0]) /\ pc[0] \in Nat /\ Len(log[0]) \in Nat
      /\ Current(0) = log[0][pc[0] + 1] /\ Current(0).writes \in SUBSET g.bufs
      /\ Device.pc = pc[0]
  BY <1>a, OnlyStream
<1> DEFINE op == Current(0)
           d == Device
           e == Device'
<1>3. busy'[0] = FALSE /\ 0 \in Streams /\ pc'[0] = pc[0] + 1
  BY <1>0, <1>1, <1>2 DEF DeviceInv
<1>4. World.bufs = g.bufs
  BY DEF World
<1>5. content' = AfterCon(World, content, op)
  <2>1. Clobbered(op.writes) = Touched(World, op.writes)
    BY <1>2, TouchedClobbered
  <2> QED
    BY <1>1, <1>2, <1>4, <2>1 DEF AfterCon
<1>6. d.on = 1 /\ d.pc = pc[0] /\ d.mapped = mapped /\ d.content = content
  BY <1>1, <1>2 DEF Device
<1>7. e.on = 0 /\ e.pc = pc[0] + 1 /\ e.mapped = mapped' /\ e.content = content'
  BY <1>1, <1>3 DEF Device
<1>8. PICK c : Timeline(World, d, log[0], Held(allocated), c) /\ Knows(c)
  BY OnNow DEF On
<1> HIDE DEF op, d, e
<1>9. /\ Within(d, log[0]) /\ e.pc = d.pc + 1
      /\ e.mapped = d.mapped \ log[0][d.pc + 1].frees
      /\ e.content = AfterCon(World, d.content, log[0][d.pc + 1])
  BY <1>0, <1>1, <1>2, <1>5, <1>6, <1>7 DEF op, d
<1> DEFINE m == Held(allocated)
<1> HIDE DEF m
<1>10. Timeline(World, d, log[0], m, c)
  BY <1>8 DEF m
<1>11. Timeline(World, e, log[0], m, c)
  BY <1>2, <1>6, <1>7, <1>9, <1>10, TimelineFinish
<1>12. OrderInv' /\ AllocInv' /\ Alone' /\ Follows'
  BY <1>0, <1>1, <1>8, <1>11, DeviceTurn DEF m, e
<1>13. Settled'
  <2>1. /\ caller' = caller /\ host' = host /\ run' = run /\ aborted' = aborted
        /\ allocated' = allocated
    BY <1>1, Zenon DEF hostVars
  <2>2. /\ Minimal' = Minimal /\ g' = g /\ PipelineOutputs' = PipelineOutputs
        /\ External' = External /\ Synchronizes' = Synchronizes
    BY <1>1, <2>1, TurnFixed
  <2>3. Returned' <=> Returned
    BY <2>1, <2>2 DEF Returned
  <2>4. CASE ~Returned
    BY <2>3, <2>4 DEF Settled
  <2>5. CASE Returned
    <3>1. op.writes = {} /\ op.allocs = {} /\ op.frees = {}
      BY <1>a, <2>5, SettledRuns DEF op
    <3>2. mapped' = mapped
      BY <1>1, <1>2, <3>1 DEF op
    <3>3. \A b \in PipelineOutputs : content'[b] = content[b]
      <4>1. PipelineOutputs \subseteq g.bufs
        BY DEF PipelineOutputs
      <4>2. \A b \in World.bufs : AfterCon(World, content, op)[b] = content[b]
        BY <3>1, IdleOp
      <4> QED
        BY <1>4, <1>5, <4>1, <4>2
    <3>4. \A i \in 1..Len(log[0]) : i > pc'[0] => i > pc[0]
      BY <1>2, <1>3
    <3> QED
      BY <1>0, <1>1, <2>1, <2>2, <2>5, <3>2, <3>3, <3>4 DEF Settled
  <2> QED
    BY <2>4, <2>5
<1> QED
  BY <1>12, <1>13 DEF InTurn

-----------------------------------------------------------------------------
(***************************************************************************)
(* The whole step, and the theorems for one stream.                        *)
(***************************************************************************)

\* finalize() leaves everything else in its place.
LEMMA QuietStep ==
    ASSUME Quiet, PlanStep, UNCHANGED execVars
    PROVE  Quiet'
<1>1. g' = g /\ configured' = configured /\ strategy' = strategy
  BY Zenon DEF PlanStep, KahnVisit, KahnDone, AssignLevel, LevelsDone,
       AssignStreams, ColorBuffer, ColoringGuard, inputVars
<1>2. /\ host' = host /\ run' = run /\ dirty' = dirty /\ dispatched' = dispatched
      /\ allocated' = allocated /\ log' = log /\ pc' = pc /\ busy' = busy /\ mapped' = mapped
  BY Zenon DEF execVars, hostVars, gpuVars
<1>3. Streams' = Streams /\ Colorable' = Colorable /\ External' = External
  BY <1>1, WiringFixed DEF Streams
<1> QED
  BY <1>1, <1>2, <1>3 DEF Quiet

\* The colouring is about colourable buffers only.
LEMMA PlainColorsStep ==
    ASSUME PlanTypeOK, PlainColors, [PlanStep]_planVars
    PROVE  PlainColors'
<1>1. g' = g
  BY Zenon DEF PlanStep, KahnVisit, KahnDone, AssignLevel, LevelsDone,
       AssignStreams, ColorBuffer, ColoringGuard, inputVars, planVars
<1>2. Colorable' = Colorable
  BY <1>1, WiringFixed
<1>3. \/ color' = color
      \/ \E b \in Colorable : \E c : color' = [color EXCEPT ![b] = c]
      \/ color' = [b \in g.bufs |-> -1]
  <2>1. ASSUME NEW b \in g.bufs, ColorBuffer(b)
        PROVE  \E x \in Colorable : \E c : color' = [color EXCEPT ![x] = c]
    <3>1. b \in Colorable
      BY <2>1 DEF ColorBuffer, Uncolored
    <3> QED
      BY <2>1, <3>1 DEF ColorBuffer
  <2>2. CASE ColoringGuard
    BY <2>2 DEF ColoringGuard
  <2>3. CASE \/ \E n \in Nodes : KahnVisit(n)
             \/ KahnDone \/ AssignLevel \/ LevelsDone \/ AssignStreams \/ UNCHANGED planVars
    BY <2>3, Zenon DEF KahnVisit, KahnDone, AssignLevel, LevelsDone,
       AssignStreams, colorVars, planVars
  <2> QED
    BY <2>1, <2>2, <2>3, Zenon DEF PlanStep
<1>4. DOMAIN color = g.bufs
  BY DEF PlanTypeOK
<1> QED
  BY <1>1, <1>2, <1>3, <1>4 DEF PlainColors

\* The host's steps together.
LEMMA HostTurn ==
    ASSUME SeqInv, Sequential, HostStep
    PROVE  InTurn'
<1>1. CASE BeginCall
  BY <1>1, BeginCallTurn
<1>2. ASSUME NEW n \in Nodes,
             \/ Dispatch(n) \/ DispatchFusedHead(n) \/ DispatchFusedMember(n)
             \/ \E launched \in BOOLEAN : ThrowStage(n, launched) \/ ThrowFused(n, launched)
      PROVE  InTurn'
  BY <1>2, DispatchTurn, FusedHeadTurn, FusedMemberTurn, ThrowStageTurn, ThrowFusedTurn, Zenon
<1>3. CASE JoinStreams
  BY <1>3, JoinTurn
<1>4. CASE ReturnCompressed
  BY <1>4, ReturnCompressedTurn
<1>5. CASE ReturnDecompressed
  BY <1>5, ReturnDecompressedTurn
<1>6. CASE ThrowResult
  BY <1>6, ThrowResultTurn
<1>7. CASE ResetPipeline
  BY <1>7, ResetPipelineTurn
<1> QED
  BY <1>1, <1>2, <1>3, <1>4, <1>5, <1>6, <1>7, Zenon DEF HostStep

\* A step of nothing.
LEMMA StutterTurn ==
    ASSUME SeqInv, Sequential, UNCHANGED vars
    PROVE  InTurn'
<1>0. OrderInv /\ AllocInv /\ Alone /\ Settled
  BY TurnParts
<1>1. UNCHANGED planVars /\ UNCHANGED hostVars /\ log' = log /\ UNCHANGED gpuVars
  BY Zenon DEF vars, execVars
<1>2. Device' = Device /\ pc' = pc /\ mapped' = mapped /\ content' = content
  BY <1>1, DeviceFixed
<1>3. PICK c : Timeline(World, Device, log[0], Held(allocated), c) /\ Knows(c)
  BY OnNow DEF On
<1>4. OrderInv' /\ AllocInv' /\ Alone' /\ Follows'
  BY <1>0, <1>1, <1>2, <1>3, DeviceTurn
<1>5. /\ caller' = caller /\ host' = host /\ run' = run /\ aborted' = aborted
      /\ allocated' = allocated
  BY <1>1, Zenon DEF hostVars
<1>6. /\ Minimal' = Minimal /\ g' = g /\ PipelineOutputs' = PipelineOutputs
      /\ External' = External /\ Synchronizes' = Synchronizes
  BY <1>1, <1>5, TurnFixed
<1>7. Settled'
  BY <1>0, <1>1, <1>2, <1>5, <1>6 DEF Settled, Returned
<1> QED
  BY <1>4, <1>7 DEF InTurn

\* QuietInTurn for the state after a step.
LEMMA QuietInTurnNext == PlanInv' /\ Quiet' /\ FusionPreallocated' => InTurn'
<1>1. PlanInv /\ Quiet /\ FusionPreallocated => InTurn
  BY QuietInTurn
<1> QED
  BY <1>1, PTL

\* The invariant is inductive.
LEMMA SeqInvStep == SeqInv /\ [Next]_vars => SeqInv'
<1> SUFFICES ASSUME SeqInv, [Next]_vars PROVE SeqInv'
  OBVIOUS
<1>0. /\ ExecInv /\ PlanInv /\ ColorInv /\ PlainColors /\ (phase # "ready" => Quiet)
      /\ PlanTypeOK /\ LevelInv
  BY Zenon DEF SeqInv, ExecInv, PlanInv
<1>1. ExecInv'
  BY <1>0, ExecInvStep
<1>2. CASE PlanStep /\ UNCHANGED execVars
  <2>1. ColorInv' /\ PlainColors'
    BY <1>0, <1>2, ColorStep, PlainColorsStep
  <2>2. phase # "ready"
    BY <1>2, PlanStepFixed
  <2>3. Quiet'
    BY <1>0, <1>2, <2>2, QuietStep
  <2>4. Sequential' => InTurn'
    BY <1>1, <2>3, QuietInTurnNext DEF ExecInv, Sequential
  <2> QED
    BY <1>1, <2>1, <2>3, <2>4 DEF SeqInv
<1>3. ASSUME UNCHANGED planVars, caller' = caller, phase = "ready", Sequential => InTurn'
      PROVE  SeqInv'
  <2>1. ColorInv' /\ PlainColors'
    BY <1>0, <1>3, ColorStep, PlainColorsStep
  <2>2. phase' = "ready"
    BY <1>3 DEF planVars
  <2>3. Sequential' => InTurn'
    BY <1>3, TurnFixed
  <2> QED
    BY <1>1, <2>1, <2>2, <2>3 DEF SeqInv
<1>4. CASE HostStep
  <2>1. UNCHANGED planVars /\ caller' = caller
    BY <1>4, Zenon DEF HostStep, BeginCall, Dispatch, DispatchFusedHead,
         DispatchFusedMember, ThrowStage, ThrowFused, JoinStreams,
         ReturnCompressed, ReturnDecompressed, ThrowResult, ResetPipeline,
         Abort
  <2>2. phase = "ready"
    <3>1. phase = "ready" \/ host # "idle"
      BY <1>4, Zenon DEF HostStep, BeginCall, Dispatch, DispatchFusedHead,
           DispatchFusedMember, ThrowStage, ThrowFused, JoinStreams,
           ReturnCompressed, ReturnDecompressed, ThrowResult, ResetPipeline
    <3> QED
      BY <1>0, <3>1 DEF ExecInv, HostInv
  <2> QED
    BY <1>3, <1>4, <2>1, <2>2, HostTurn
<1>5. ASSUME NEW s \in Streams, StartOp(s) \/ FinishOp(s) PROVE SeqInv'
  <2>1. UNCHANGED planVars /\ caller' = caller
    BY <1>5, Zenon DEF StartOp, FinishOp, hostVars
  <2>2. phase = "ready"
    <3>1. CASE phase # "ready"
      <4>1. log = [t \in Streams |-> <<>>] /\ pc = [t \in Streams |-> 0]
              /\ busy = [t \in Streams |-> FALSE]
        BY <1>0, <3>1 DEF Quiet
      <4>2. log[s] = <<>> /\ pc[s] = 0 /\ busy[s] = FALSE
        BY <4>1
      <4> QED
        BY <1>5, <4>2 DEF StartOp, FinishOp
    <3> QED
      BY <3>1
  <2> QED
    BY <1>3, <1>5, <2>1, <2>2, StartOpTurn, FinishOpTurn
<1>6. CASE UNCHANGED vars
  <2>1. UNCHANGED planVars /\ caller' = caller /\ UNCHANGED execVars
    BY <1>6, Zenon DEF vars, execVars, hostVars
  <2>2. CASE phase = "ready"
    BY <1>3, <1>6, <2>1, <2>2, StutterTurn
  <2>3. CASE phase # "ready"
    <3>1. ColorInv' /\ PlainColors'
      BY <1>0, <2>1, ColorStep, PlainColorsStep
    <3>2. Quiet'
      <4>1. g' = g /\ configured' = configured /\ strategy' = strategy
        BY <2>1, Zenon DEF planVars
      <4>2. /\ host' = host /\ run' = run /\ dirty' = dirty /\ dispatched' = dispatched
            /\ allocated' = allocated /\ log' = log /\ pc' = pc /\ busy' = busy /\ mapped' = mapped
        BY <2>1, Zenon DEF execVars, hostVars, gpuVars
      <4>3. Streams' = Streams /\ Colorable' = Colorable /\ External' = External
        BY <4>1, WiringFixed DEF Streams
      <4> QED
        BY <1>0, <2>3, <4>1, <4>2, <4>3 DEF Quiet
    <3>3. Sequential' => InTurn'
      BY <1>1, <3>2, QuietInTurnNext DEF ExecInv, Sequential
    <3> QED
      BY <1>1, <3>1, <3>2, <3>3 DEF SeqInv
  <2> QED
    BY <2>2, <2>3
<1> QED
  BY <1>2, <1>4, <1>5, <1>6, Zenon DEF Next

\* The sequential invariant holds of every execution.
LEMMA SeqInvariant == Spec => []SeqInv
BY SeqInvInit, SeqInvStep, PTL DEF Spec

\* What runs is what the timeline vouches for.
LEMMA RunningWell ==
    ASSUME SeqInv, Sequential, NEW s \in Streams, busy[s]
    PROVE  /\ s = 0
           /\ Current(0).reads \cup Current(0).writes \subseteq mapped
           /\ \A b \in Current(0).reads \ CallerOwned : content[b] = Current(0).run
<1>0. PlanInv /\ DeviceInv /\ Within(Device, log[0])
  BY TurnParts
<1>1. pc[s] < Len(log[s])
  BY <1>0 DEF DeviceInv
<1>2. /\ s = 0 /\ Len(log[0]) \in Nat /\ Current(0) = log[0][pc[0] + 1]
      /\ Current(0) \in GoodOps /\ Device.pc = pc[0]
  BY <1>1, OnlyStream
<1>3. PICK c : Timeline(World, Device, log[0], Held(allocated), c)
  BY OnNow DEF On
<1> DEFINE d == Device
           m == Held(allocated)
           w == World
<1>4. /\ d.on = 1 /\ d.pc = pc[0] /\ d.mapped = mapped /\ d.content = content
      /\ Within(d, log[0]) /\ Timeline(w, d, log[0], m, c) /\ w.own = CallerOwned
      /\ w.bufs = g.bufs
  BY <1>0, <1>2, <1>3 DEF Device, World
<1> HIDE DEF d, m, w
<1>5. LET op == log[0][d.pc + 1]
      IN  /\ op.reads \cup op.writes \subseteq d.mapped
          /\ \A b \in (op.reads \ w.own) \cap w.bufs : d.content[b] = op.run
  BY <1>2, <1>4, TimelineCurrent
<1>6. Current(0).reads \subseteq g.bufs
  BY <1>2 DEF GoodOps, Ops
<1> QED
  BY <1>2, <1>4, <1>5, <1>6

\* On one stream every stage, copy or gather that runs reads complete data of
\* its own call: execute() launches level by level, colouring shares memory
\* between disjoint live ranges only, and MINIMAL frees behind the last reader.
THEOREM OneStreamInputs == Spec => [](Sequential => InputsIntact)
<1>1. SeqInv => (Sequential => InputsIntact)
  <2> SUFFICES ASSUME SeqInv, Sequential PROVE InputsIntact
    OBVIOUS
  <2> QED
    BY RunningWell DEF InputsIntact
<1> QED
  BY <1>1, SeqInvariant, PTL

\* On one stream no operation touches memory that is not allocated, also after
\* a call that threw and the reset() that follows it.
THEOREM OneStreamMemory == Spec => [](Sequential => MemoryMapped)
<1>1. SeqInv => (Sequential => MemoryMapped)
  <2> SUFFICES ASSUME SeqInv, Sequential PROVE MemoryMapped
    OBVIOUS
  <2> QED
    BY RunningWell DEF MemoryMapped
<1> QED
  BY <1>1, SeqInvariant, PTL

\* On one stream the outputs of compress() and decompress() are complete when
\* the call returns and stay so until the next one, whatever is still enqueued.
THEOREM OneStreamOutputs == Spec => [](Sequential => OutputsDelivered)
<1>1. SeqInv => (Sequential => OutputsDelivered)
  <2> SUFFICES ASSUME SeqInv, Sequential PROVE OutputsDelivered
    OBVIOUS
  <2>1. Settled
    BY TurnParts
  <2> QED
    BY <2>1 DEF Settled, OutputsDelivered
<1> QED
  BY <1>1, SeqInvariant, PTL

\* On one stream MINIMAL leaves nothing but persistent buffers allocated when a
\* call returns, on the device and in the flags of the DAG.
THEOREM OneStreamReleases == Spec => [](Sequential => IntermediatesReleased)
<1>1. SeqInv => (Sequential => IntermediatesReleased)
  <2> SUFFICES ASSUME SeqInv, Sequential PROVE IntermediatesReleased
    OBVIOUS
  <2>1. Settled /\ allocated \cap External = {}
    BY TurnParts DEF AllocInv, Colorable
  <2> QED
    BY <2>1 DEF Settled, IntermediatesReleased
<1> QED
  BY <1>1, SeqInvariant, PTL

=============================================================================
