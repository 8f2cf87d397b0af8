----------------------------- MODULE MCWorkers -----------------------------
(* Instances of Workers for TLC, and the inputs for Demand. *)
EXTENDS Workers, Demand

Small == [cpus |-> 1, mem |-> 1, gres |-> "none"]
Large == [cpus |-> 2, mem |-> 1, gres |-> "none"]

\* Two jobs of different size that share a pool with room for one worker.
OneByOne     == <<1, 2>>
ApartGroup   == [j \in {1, 2} |-> j]
SharedPool   == [j \in {1, 2} |-> "p"]
SmallLarge   == (1 :> Small) @@ (2 :> Large)
OneWorker    == [p \in {"p"} |-> 1]
NoneReady    == [p \in {"p"} |-> 0]

\* One heterogeneous job with a component in each of two pools.
OneGroup  == [j \in {1, 2} |-> 1]
TwoPools  == (1 :> "cpu") @@ (2 :> "gpu")
OneOfEach == [p \in {"cpu", "gpu"} |-> 1]
KeepCPU   == ("cpu" :> 1) @@ ("gpu" :> 0)

-----------------------------------------------------------------------------
Item(key, value) == [key |-> key, value |-> value]
OneSimulator     == "tpu" :> [cpus |-> 2, memory |-> 1, shared |-> 1]

Plain == [id |-> 1, het |-> 0, priority |-> 0, eligible |-> 0, reason |-> "Resources",
          requeued |-> FALSE, requiredNodes |-> FALSE, partition |-> "part", features |-> "",
          cpus |-> 1, nodes |-> 1, tasks |-> 1, cpusPerTask |-> 0, tasksPerNode |-> 0,
          memoryPerCPU |-> 0, memoryPerNode |-> 0, perNode |-> <<>>, perTask |-> <<>>,
          perSocket |-> <<>>, perJob |-> <<>>, requested |-> <<>>,
          cpusPerTRES |-> <<>>, memoryPerTRES |-> <<>>]

\* Jobs of all sizes, and jobs that name devices in every place and number.
Sized == {[Plain EXCEPT !.cpus = c, !.nodes = n, !.tasks = t, !.cpusPerTask = cpt,
                        !.tasksPerNode = tpn, !.memoryPerCPU = mc, !.memoryPerNode = mn,
                        !.requested = r] :
            c \in {0, 1, 5}, n \in 0 .. 2, t \in {0, 1, 3}, cpt \in {0, 2}, tpn \in {0, 2},
            mc \in 0 .. 1, mn \in 0 .. 1, r \in {<<>>, <<Item("cpu", 5), Item("node", 2)>>}}

Devices == {<<>>, <<Item("?", 0)>>, <<Item("none", 1)>>,
            <<Item("gpu", 1), Item("gpu", 2), Item("mem", 3)>>, <<Item("tpu", 3), Item("gpu", 0)>>,
            <<Item("tpu", 5), Item("cpu", 3)>>}

\* Two places at a time.
Places == {d \in Devices \X Devices \X Devices : \E i \in 1 .. 3 : d[i] = <<>>}

Equipped == {[Plain EXCEPT !.nodes = n, !.tasks = 3, !.tasksPerNode = tpn, !.perNode = d[1],
                           !.perTask = d[2], !.perJob = d[3], !.cpusPerTRES = per,
                           !.memoryPerTRES = per] :
               n \in 1 .. 2, tpn \in {0, 2}, d \in Places, per \in {<<>>, <<Item("gpu", 2)>>}}

SmallJobs == Sized \cup Equipped

Ranked(id) == {[Plain EXCEPT !.id = id, !.priority = p, !.eligible = e, !.het = h,
                             !.reason = r, !.requiredNodes = q] :
                 p \in 0 .. 1, e \in 0 .. 1, h \in {0, 1}, r \in {"Resources", "Priority"},
                 q \in BOOLEAN}

\* Two jobs of any kind, or three that wait for resources.
Ready(id) == {r \in Ranked(id) : r.reason = "Resources" /\ ~r.requiredNodes}

SmallQueues == {<<a, b>> : a \in Ranked(2), b \in Ranked(1)}
               \cup {<<a, b, c>> : a \in Ready(2), b \in Ready(3), c \in Ready(1)}

-----------------------------------------------------------------------------
\* The shapes a pass of reconcileWorkers plans with are the least that serve the
\* jobs it has read, and it plans for all of these jobs in their order.
PlannedRight == pass.jobs # {} => ShapesLeast /\ ServedInOrder
=============================================================================
