----------------------------- MODULE MCPipeline -----------------------------
(***************************************************************************)
(* The pipeline's own machinery, one component at a time: `component'      *)
(* picks the one that runs, the others stay in one of their initial        *)
(* states.  "pool" is MemoryPool, "plan" Dag with InverseDag and           *)
(* FusionPlanner, "exec" DagExec and "lifecycle" Lifecycle.                *)
(***************************************************************************)
EXTENDS MCDag, MCDagExec, MCLifecycle, MemoryPool

CONSTANTS Components, p1, p2, p3

VARIABLE component

pipelineVars == <<component, planVars, invVars, fusion, execVars, lifeVars, poolVars>>

MCPtrs == {p1, p2, p3}
MCThresholds == {0, 2, Never}
PipelineGraphs == PlanGraphs \cup ExecGraphs
First(S) == CHOOSE x \in S : TRUE

PipelineInit ==
    /\ component \in Components
    /\ g \in CASE component = "plan" -> PlanGraphs
              [] component = "exec" -> ExecGraphs
              [] OTHER -> {First(ExecGraphs)}
    /\ component # "exec" => strategy = "PREALLOCATE" /\ caller = First(Callers)
    /\ component \in {"lifecycle", "pool"} => configured = 0 /\ coloringEnabled = TRUE
    /\ component # "lifecycle" => /\ cfg = First(Configs)
                                  /\ profiling = FALSE /\ poolManaged = FALSE
    /\ component # "pool" => poolSize = DefaultSize
    /\ FusionInit /\ ExecInit /\ LifeInit /\ PoolInit
    /\ component = "plan" => PlanCase
    /\ component = "exec" => ExecCase

PlanNext == FusionNext /\ UNCHANGED execVars
ExecNext == Next /\ UNCHANGED <<invVars, fusion>>

PipelineNext ==
    /\ UNCHANGED component
    /\ \/ component = "plan" /\ PlanNext /\ UNCHANGED <<lifeVars, poolVars>>
       \/ component = "exec" /\ ExecNext /\ UNCHANGED <<lifeVars, poolVars>>
       \/ /\ component = "lifecycle"
          /\ LifeNext
          /\ UNCHANGED <<planVars, invVars, fusion, execVars, poolVars>>
       \/ /\ component = "pool"
          /\ PoolNext
          /\ UNCHANGED <<planVars, invVars, fusion, execVars, lifeVars>>

\* finalize() is one thread.
PipelineSpec ==
    /\ PipelineInit
    /\ [][PipelineNext]_pipelineVars
    /\ WF_planVars(component = "plan" /\ PlanStep)

(* finalize() terminates in every component that calls it alone: the plan    *)
(* becomes ready or the cycle is reported.                                   *)
FinalizeEnds == component = "plan" => PlanTerminates
=============================================================================
