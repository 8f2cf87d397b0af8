------------------------------- MODULE Demand -------------------------------
(***************************************************************************)
(* What the pending Slurm jobs ask of the worker pools                     *)
(* (slurm-operator/internal/resources/demand.go): the shape of the worker  *)
(* a job needs on every node, and the order in which jobs are served.      *)
(*                                                                         *)
(* A TRES string is the sequence of its items, each a key and a number;    *)
(* the item "?" stands for one that does not parse.                        *)
(***************************************************************************)
EXTENDS Integers, FiniteSets, FiniteSetsExt, SequencesExt

CONSTANTS
    Mi,           \* bytes in the unit of MemoryPerNode and MemoryPerCPU
    MemoryUnit,   \* bytes in the pool's memory unit
    Gres,         \* GRES names Slurm knows
    Profiles,     \* GRES names mapped by the pool's profiles
    Footprints,   \* [some GRES -> [cpus, memory, shared]]
    SomeJobs,     \* jobs to check
    SomeQueues    \* lists of jobs to check

ASSUME DemandAssumption == Mi \in Nat \ {0} /\ MemoryUnit \in Nat \ {0}
                           /\ Profiles \subseteq Gres /\ DOMAIN Footprints \subseteq Gres

\* Variant with a fault: rounds down.
DivRoundDown(value, divisor) == IF value <= 0 THEN 0 ELSE value \div divisor

DivRoundUp(value, divisor) ==
    IF value <= 0 THEN 0 ELSE (value + divisor - 1) \div divisor

\* parseTRES: equal keys add up, keys other than cpu, mem and gres are skipped.
ParseTRES(raw) ==
    [key \in {raw[i].key : i \in DOMAIN raw} \cap ({"cpu", "mem"} \cup Gres) |->
        FoldLeft(LAMBDA sum, item : sum + item.value, 0,
                 SelectSeq(raw, LAMBDA item : item.key = key))]

Malformed(raw) == \E i \in DOMAIN raw : raw[i].key = "?"

NodeCount(j) == Max({j.nodes, 1})

\* The first TRES a job has, in a fixed order, and how often it counts on one
\* node: so many times, or spread over the nodes (0).
TresSource(j) ==
    CASE j.perNode # <<>>   -> [raw |-> j.perNode, times |-> 1]
      [] j.perNode = <<>> /\ j.perTask # <<>> ->
            [raw |-> j.perTask,
             times |-> Max({j.tasksPerNode, DivRoundUp(j.tasks, NodeCount(j)), 1})]
      [] j.perNode = <<>> /\ j.perTask = <<>> /\ j.perSocket # <<>> ->
            [raw |-> j.perSocket, times |-> 1]
      [] OTHER ->
            [raw |-> IF j.perJob # <<>> THEN j.perJob ELSE j.requested, times |-> 0]

\* What the job asks for on one node.
Wanted(j) ==
    LET source == TresSource(j)
        tres   == ParseTRES(source.raw)
    IN  [key \in DOMAIN tres |-> IF source.times > 0 THEN tres[key] * source.times
                                 ELSE DivRoundUp(tres[key], NodeCount(j))]

WantedGres(j) == Restrict(Wanted(j), DOMAIN Wanted(j) \cap Gres)

At0(tres, key) == IF key \in DOMAIN tres THEN tres[key] ELSE 0

\* The errors of shapeFor: what does not parse, or has no profile.
Rejected(j) ==
    LET gres == WantedGres(j) IN
    \/ Malformed(TresSource(j).raw)
    \/ Malformed(j.cpusPerTRES) \/ Malformed(j.memoryPerTRES)
    \/ \E name \in DOMAIN gres : gres[name] < 1 \/ name \notin Profiles

ShapeFor(j) ==
    LET wanted  == Wanted(j)
        gres    == WantedGres(j)
        small   == Max({DivRoundUp(j.cpus, NodeCount(j)), j.cpusPerTask, 1,
                        j.tasksPerNode * j.cpusPerTask})
        memory  == Mi * IF j.memoryPerNode = 0 THEN j.memoryPerCPU * small
                        ELSE j.memoryPerNode
        printed == DOMAIN gres \cap DOMAIN Footprints
        cpusPer == ParseTRES(j.cpusPerTRES)
        memPer  == ParseTRES(j.memoryPerTRES)
    IN  [cpus   |-> Max({small, At0(wanted, "cpu")}
                        \cup {Footprints[name].cpus * gres[name] : name \in printed}
                        \cup {At0(cpusPer, name) * gres[name] : name \in DOMAIN gres}),
         memory |-> Max({memory, At0(wanted, "mem"), MemoryUnit}
                        \cup {(Footprints[name].memory + Footprints[name].shared) * gres[name]
                                : name \in printed}
                        \cup {At0(memPer, name) * gres[name] : name \in DOMAIN gres}),
         shared |-> MapThenSumSet(LAMBDA name : Footprints[name].shared * gres[name], printed),
         gres   |-> gres]

-----------------------------------------------------------------------------
(* Demands *)

\* Variant with a fault: the longest eligible first, whatever its priority.
BeforeByAge(a, b) == a.eligible < b.eligible \/ (a.eligible = b.eligible /\ a.id < b.id)

\* Highest priority first, then the longest eligible, then the lowest ID.
Before(a, b) ==
    \/ a.priority > b.priority
    \/ a.priority = b.priority /\ a.eligible < b.eligible
    \/ a.priority = b.priority /\ a.eligible = b.eligible /\ a.id < b.id

\* Jobs that wait for something a worker could give them; the others are
\* skipped in silence.
Waiting(j) == j.requeued \/ j.reason \in {"Resources", "ReqNodeNotAvail", "PartitionConfig"}

Acceptable(j, partitions) ==
    /\ ~j.requiredNodes
    /\ j.partition \in partitions
    /\ j.features \in {"", "pool"}
    /\ ~Rejected(j)

DemandOf(j) == [jobID |-> j.id, group |-> IF j.het = 0 THEN j.id ELSE j.het,
                count |-> NodeCount(j), shape |-> ShapeFor(j)]

Demands(jobs, partitions) ==
    LET accepted == SelectSeq(SortSeq(jobs, Before),
                              LAMBDA j : Waiting(j) /\ Acceptable(j, partitions))
    IN  [i \in DOMAIN accepted |-> DemandOf(accepted[i])]

-----------------------------------------------------------------------------
(* What a job needs, stated by itself *)

\* n CPUs, or n bytes, on every node are enough for the job.
EnoughCPUs(n, j) ==
    LET gres == WantedGres(j) source == TresSource(j) tres == ParseTRES(source.raw) IN
    /\ n >= 1 /\ n * NodeCount(j) >= j.cpus
    /\ n >= j.cpusPerTask
    /\ n >= j.tasksPerNode * j.cpusPerTask
    /\ IF source.times = 0 THEN n * NodeCount(j) >= At0(tres, "cpu")
       ELSE n >= source.times * At0(tres, "cpu")
    /\ \A name \in DOMAIN gres :
         /\ n >= gres[name] * At0(ParseTRES(j.cpusPerTRES), name)
         /\ name \in DOMAIN Footprints => n >= gres[name] * Footprints[name].cpus

EnoughGres(gres, j) ==
    LET source == TresSource(j) tres == ParseTRES(source.raw) IN
    \A name \in DOMAIN tres \cap Gres :
        IF source.times = 0 THEN gres[name] * NodeCount(j) >= tres[name]
        ELSE gres[name] >= source.times * tres[name]

Least(shape, j) ==
    /\ EnoughCPUs(shape.cpus, j) /\ ~EnoughCPUs(shape.cpus - 1, j)
    /\ EnoughGres(shape.gres, j)
    /\ \A name \in DOMAIN shape.gres :
         ~EnoughGres([shape.gres EXCEPT ![name] = @ - 1], j)
    /\ shape.memory >= Mi * j.memoryPerNode
    /\ Cardinality(DOMAIN shape.gres \cap DOMAIN Footprints) = 1 =>
         shape.memory > shape.shared

\* A worker of the computed shape has enough CPUs and devices for the job's part
\* on every node, whatever the request counts per node, task or job, and one CPU
\* or one device less would not do: rounding never loses or adds any.  With one
\* kind of simulated device its memory also holds the shared memory.
ShapesLeast == \A j \in SomeJobs : ~Rejected(j) => Least(ShapeFor(j), j)

\* The answer out lists the jobs of served, each once and in order.
Serves(out, served) ==
    LET Job(i) == CHOOSE j \in served : j.id = out[i].jobID IN
    /\ {out[i].jobID : i \in DOMAIN out} = {j.id : j \in served}
    /\ Len(out) = Cardinality(served)
    /\ \A i, k \in DOMAIN out : i < k =>
         LET a == Job(i) b == Job(k) IN
         /\ a.priority >= b.priority
         /\ a.priority = b.priority => a.eligible <= b.eligible
         /\ a.priority = b.priority /\ a.eligible = b.eligible => a.id < b.id

\* Every job that waits for a worker and can be given one is served exactly
\* once, and never after a job of lower priority, or of the same priority and
\* eligible later, or that differs from it only in a higher ID, however the REST
\* answer was ordered.
ServedInOrder ==
    \A q \in SomeQueues :
        Serves(Demands(q, {"part"}),
               {j \in ToSet(q) : Waiting(j) /\ Acceptable(j, {"part"})})
=============================================================================
