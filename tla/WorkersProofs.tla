---------------------------- MODULE WorkersProofs ----------------------------
(***************************************************************************)
(* Proofs about Workers: types, the pool limits, that no busy worker is    *)
(* taken down, and that no worker outlives its cluster.                    *)
(*                                                                         *)
(* Most steps are steady: they create no Pod, undrain no node, start no    *)
(* job, and leave the readings of the pass alone or end it.  The lemmas of *)
(* the first part show this action by action, those of the second that a   *)
(* steady step keeps every invariant; the few other steps are treated one  *)
(* by one.                                                                 *)
(***************************************************************************)
EXTENDS Workers, FiniteSetTheorems, TLAPS

(* Counts *)

\* At most is transitive.
LEMMA AtMost == \A a, b, c \in Nat : a <= b /\ b <= c => a <= c
  OBVIOUS

(* Records *)

\* The entry for "no Pod" is not a Pod.
LEMMA NoPodIsNone == NoPod \notin Pods
  BY DEF NoPod, Pods

\* The fields of a Pod.
LEMMA PodFields ==
  ASSUME NEW p \in Pods
  PROVE  /\ p.pool \in Pools /\ p.up \in {"unready", "ready", "failed"}
         /\ p.fin \in BOOLEAN /\ p.drain \in BOOLEAN /\ p.idle \in BOOLEAN
         /\ p.rec \in BOOLEAN /\ p.deleting \in BOOLEAN
  BY DEF Pods

\* What two copies of a Pod have in common if the one is the other with other
\* marks: pool, deletion, recovery and phase.
Alike(p, q) == /\ q.pool = p.pool /\ q.deleting = p.deleting
               /\ q.rec = p.rec /\ q.up = p.up

\* Setting one of the marks of a Pod gives a Pod.
LEMMA PodMarks ==
  ASSUME NEW p \in Pods, NEW b \in BOOLEAN
  PROVE  /\ [p EXCEPT !.drain = b] \in Pods /\ Alike(p, [p EXCEPT !.drain = b])
         /\ [p EXCEPT !.drain = b].fin = p.fin
         /\ [p EXCEPT !.fin = b] \in Pods /\ Alike(p, [p EXCEPT !.fin = b])
         /\ [p EXCEPT !.fin = b].fin = b
         /\ [p EXCEPT !.idle = b] \in Pods /\ Alike(p, [p EXCEPT !.idle = b])
         /\ [p EXCEPT !.idle = b].fin = p.fin
  BY DEF Pods, Alike

\* So does setting its phase.
LEMMA PodPhases ==
  ASSUME NEW p \in Pods, NEW u \in {"unready", "ready", "failed"}
  PROVE  /\ [p EXCEPT !.up = u] \in Pods /\ [p EXCEPT !.up = u].up = u
         /\ [p EXCEPT !.up = u].pool = p.pool /\ [p EXCEPT !.up = u].rec = p.rec
         /\ [p EXCEPT !.up = u].deleting = p.deleting /\ [p EXCEPT !.up = u].fin = p.fin
  BY DEF Pods

\* So do the recovery annotation and a request to delete it.
LEMMA PodClaimed ==
  ASSUME NEW p \in Pods
  PROVE  /\ [p EXCEPT !.rec = TRUE] \in Pods /\ [p EXCEPT !.rec = TRUE].up = p.up
         /\ [p EXCEPT !.rec = TRUE].pool = p.pool /\ [p EXCEPT !.rec = TRUE].rec
         /\ [p EXCEPT !.rec = TRUE].deleting = p.deleting /\ [p EXCEPT !.rec = TRUE].fin = p.fin
         /\ [p EXCEPT !.deleting = TRUE] \in Pods /\ [p EXCEPT !.deleting = TRUE].deleting
         /\ [p EXCEPT !.deleting = TRUE].pool = p.pool /\ [p EXCEPT !.deleting = TRUE].rec = p.rec
         /\ [p EXCEPT !.deleting = TRUE].up = p.up /\ [p EXCEPT !.deleting = TRUE].fin = p.fin
  BY Zenon DEF Pods

\* The Pod createWorker builds.
LEMMA NewPodFields ==
  ASSUME NEW j \in Jobs
  PROVE  NewPod(j) \in Pods /\ NewPod(j).pool = Pool[j]
  BY WorkersAssumption DEF NewPod, Pods

\* A drained or dead node is a node.
LEMMA NodeMarks ==
  ASSUME NEW n \in Nodes, NEW b \in BOOLEAN
  PROVE  /\ [n EXCEPT !.drain = b] \in Nodes /\ [n EXCEPT !.drain = b].drain = b
         /\ [n EXCEPT !.drain = b].state = n.state
         /\ [n EXCEPT !.state = "down"] \in Nodes /\ [n EXCEPT !.state = "down"].state = "down"
         /\ [n EXCEPT !.state = "down"].drain = n.drain
  BY DEF Nodes

\* So is a deleted one, and a new one.
LEMMA NodeValues ==
  /\ \A n \in Nodes : n.state \in {"absent", "up", "down"} /\ n.drain \in BOOLEAN
  /\ Absent \in Nodes /\ Absent.state = "absent"
  /\ [state |-> "up", drain |-> FALSE] \in Nodes
  BY DEF Nodes, Absent

-----------------------------------------------------------------------------
(* Passes *)

Lists == [Workers -> Pods \cup {NoPod}]

\* The fields of a pass.
LEMMA PassFields ==
  ASSUME NEW q \in Passes
  PROVE  /\ q.pc \in {"idle", "read", "inspect", "orphans", "create", "scale", "delete"}
         /\ q.jobs \in SUBSET Jobs /\ q.list \in Lists
         /\ q.nodes \in [Workers -> Reports] /\ q.todo \in SUBSET Workers
         /\ q.counts \in [Pools -> Nat] /\ q.assigned \in SUBSET Workers
         /\ q.creates \in SUBSET Jobs /\ q.ready \in [Pools -> Int]
         /\ q.touched \in SUBSET Workers
  BY DEF Passes, Lists

\* Where no Pod is known, and where no node is.
LEMMA NothingRead ==
  /\ NoList \in Lists /\ NoReports \in [Workers -> Reports]
  /\ \A w \in Workers : NoList[w] = NoPod /\ NoReports[w].state = "absent"
  BY DEF NoList, NoReports, Lists, Reports

\* A pass that has ended.
LEMMA IdlePass ==
  ASSUME NEW list \in Lists
  PROVE  /\ Idle(list) \in Passes /\ Idle(list).pc = "idle"
         /\ Idle(list).nodes = NoReports /\ Idle(list).todo = {} /\ Idle(list).creates = {}
  <1>1. None \in [Pools -> Nat] /\ None \in [Pools -> Int]
    BY DEF None
  <1>2. QED
    BY <1>1, NothingRead DEF Idle, Passes, Lists

\* The pass a step carries on with: the same readings, nothing new to visit.
Follows(q) == /\ q \in Passes /\ q.pc = pass.pc /\ q.list = pass.list
              /\ q.nodes = pass.nodes /\ q.counts = pass.counts
              /\ q.creates = pass.creates /\ q.todo \subseteq pass.todo

\* Striking a worker off the list of those to visit is carrying on.
LEMMA VisitedFollows ==
  ASSUME pass \in Passes, NEW w \in Workers
  PROVE  Follows(Visited(w)) /\ Visited(w).ready = pass.ready
  BY DEF Follows, Visited, Passes

\* Setting readyByPool is, too.
LEMMA ReadyFollows ==
  ASSUME pass \in Passes, NEW q, Follows(q), NEW p, NEW n \in Int
  PROVE  Follows([q EXCEPT !.ready[p] = n])
  <1>1. q.ready \in [Pools -> Int]
    BY PassFields DEF Follows
  <1>2. [q.ready EXCEPT ![p] = n] \in [Pools -> Int]
    BY <1>1, Zenon
  <1> DEFINE r == [q.ready EXCEPT ![p] = n]
  <1>3. [q EXCEPT !.ready[p] = n] = [q EXCEPT !.ready = r]
    BY DEF Follows, Passes
  <1>4. r \in [Pools -> Int]
    BY <1>2
  <1> HIDE DEF r
  <1>5. Follows([q EXCEPT !.ready = r])
    BY <1>4 DEF Follows, Passes
  <1>6. QED
    BY <1>3, <1>5

\* The same with other marks on the Pods that were read.
Carries(q) == /\ q \in Passes /\ q.pc = pass.pc
              /\ \A w \in Workers :
                   \/ q.list[w] = pass.list[w]
                   \/ /\ pass.list[w] \in Pods /\ q.list[w] \in Pods
                      /\ Alike(pass.list[w], q.list[w])
              /\ q.nodes = pass.nodes /\ q.counts = pass.counts
              /\ q.creates = pass.creates /\ q.todo \subseteq pass.todo

\* Carrying on with the copy of one Pod replaced by one that is alike.
LEMMA MarkCarries ==
  ASSUME pass \in Passes, NEW q, Follows(q), NEW w \in Workers, NEW x \in Pods,
         pass.list[w] \in Pods, Alike(pass.list[w], x), NEW t \in SUBSET Workers
  PROVE  Carries([q EXCEPT !.list = [q.list EXCEPT ![w] = x], !.touched = t])
  <1> DEFINE l == [q.list EXCEPT ![w] = x]
  <1>1. q.list \in Lists /\ pass.list = q.list
    BY PassFields DEF Follows
  <1>2. l \in Lists /\ \A v \in Workers : l[v] = IF v = w THEN x ELSE q.list[v]
    BY <1>1 DEF Lists
  <1> HIDE DEF l
  <1> DEFINE r == [q EXCEPT !.list = l, !.touched = t]
  <1>3. /\ r \in Passes /\ r.pc = q.pc /\ r.list = l /\ r.nodes = q.nodes
        /\ r.counts = q.counts /\ r.creates = q.creates /\ r.todo = q.todo
    BY <1>2, Zenon DEF Follows, Passes, Lists
  <1> HIDE DEF r
  <1>4. Carries(r)
    BY <1>1, <1>2, <1>3 DEF Follows, Carries
  <1>5. QED
    BY <1>4 DEF r, l

\* The four places where a step marks its copy of a Pod.
LEMMA CopiesCarry ==
  ASSUME pass \in Passes, NEW q, Follows(q), NEW w \in Workers,
         pass.list[w] \in Pods, NEW b \in BOOLEAN
  PROVE  /\ Carries([q EXCEPT !.list[w].drain = b, !.touched = @ \cup {w}])
         /\ Carries([q EXCEPT !.list[w].fin = b, !.touched = @ \cup {w}])
         /\ Carries([q EXCEPT !.list[w].idle = b, !.touched = @ \cup {w}])
         /\ Carries([q EXCEPT !.list[w].fin = b])
  <1>0. q.list = pass.list /\ q.touched \in SUBSET Workers /\ q \in Passes
    BY PassFields DEF Follows
  <1> DEFINE t == q.touched \cup {w}
             c == q.list[w]
  <1>1. t \in SUBSET Workers /\ c \in Pods /\ c = pass.list[w]
    BY <1>0
  <1>2. /\ Carries([q EXCEPT !.list = [q.list EXCEPT ![w] = [c EXCEPT !.drain = b]], !.touched = t])
        /\ Carries([q EXCEPT !.list = [q.list EXCEPT ![w] = [c EXCEPT !.fin = b]], !.touched = t])
        /\ Carries([q EXCEPT !.list = [q.list EXCEPT ![w] = [c EXCEPT !.idle = b]], !.touched = t])
        /\ Carries([q EXCEPT !.list = [q.list EXCEPT ![w] = [c EXCEPT !.fin = b]],
                             !.touched = q.touched])
    <2> HIDE DEF t, c
    <2>1. /\ [c EXCEPT !.drain = b] \in Pods /\ Alike(c, [c EXCEPT !.drain = b])
          /\ [c EXCEPT !.fin = b] \in Pods /\ Alike(c, [c EXCEPT !.fin = b])
          /\ [c EXCEPT !.idle = b] \in Pods /\ Alike(c, [c EXCEPT !.idle = b])
      BY <1>1, PodMarks
    <2> DEFINE d == [c EXCEPT !.drain = b]
               f == [c EXCEPT !.fin = b]
               i == [c EXCEPT !.idle = b]
    <2>2. /\ d \in Pods /\ Alike(pass.list[w], d) /\ f \in Pods /\ Alike(pass.list[w], f)
          /\ i \in Pods /\ Alike(pass.list[w], i)
      BY <2>1, <1>1
    <2> HIDE DEF d, f, i
    <2>3. Carries([q EXCEPT !.list = [q.list EXCEPT ![w] = d], !.touched = t])
      BY <2>2, <1>1, MarkCarries, Zenon
    <2>4. Carries([q EXCEPT !.list = [q.list EXCEPT ![w] = f], !.touched = t])
      BY <2>2, <1>1, MarkCarries, Zenon
    <2>5. Carries([q EXCEPT !.list = [q.list EXCEPT ![w] = i], !.touched = t])
      BY <2>2, <1>1, MarkCarries, Zenon
    <2>6. Carries([q EXCEPT !.list = [q.list EXCEPT ![w] = f], !.touched = q.touched])
      BY <2>2, <1>0, MarkCarries, Zenon
    <2>7. QED
      BY <2>3, <2>4, <2>5, <2>6 DEF d, f, i
  <1>3. [q EXCEPT !.list[w].fin = b]
        = [q EXCEPT !.list = [q.list EXCEPT ![w] = [c EXCEPT !.fin = b]], !.touched = q.touched]
    BY <1>0, Zenon DEF Passes
  <1>4. QED
    BY <1>2, <1>3, Zenon

-----------------------------------------------------------------------------
(* Steady steps *)

\* A pass visits only Pods it has listed, except for the orphaned nodes.
Visits == pass.pc \in {"inspect", "scale", "delete"} => pass.todo \subseteq Present(pass.list)

\* A Pod only ages: it does not appear, change its pool, or come back from
\* deletion, recovery or failure; and its finalizer goes only if its node, when
\* registered, was seen drained and idle.
Ages(w) ==
    pod'[w] # NoPod =>
        /\ pod[w] # NoPod /\ pod'[w].pool = pod[w].pool
        /\ pod[w].deleting => pod'[w].deleting
        /\ pod[w].rec => pod'[w].rec
        /\ pod[w].up = "failed" => pod'[w].up = "failed"
        /\ pod[w].fin /\ ~pod'[w].fin /\ Registered(w) =>
              NodeIdle(pass.nodes[w]) /\ pass.nodes[w].drain
        /\ w \in joined => w \in joined'

\* A node does not appear and is not undrained.
Settles(w) == node'[w].state # "absent" => /\ node[w].state # "absent"
                                           /\ node[w].drain => node'[w].drain

Ends == \E list \in Lists : pass' = Idle(list)

Steady == /\ cluster' = "gone" => cluster = "gone"
          /\ \A w \in Workers : Ages(w) /\ Settles(w)
          /\ \A j \in Jobs : at'[j] \in {at[j], 0}
          /\ pass' = pass \/ Ends \/ Carries(pass')

\* The type of the pass and the list of those to visit survive a steady step.
LEMMA SteadyPass ==
  ASSUME TypeOK, Visits, pass' = pass \/ Ends \/ Carries(pass')
  PROVE  pass' \in Passes /\ Visits'
  <1>1. CASE pass' = pass
    BY <1>1 DEF TypeOK, Visits, Present
  <1>2. CASE Ends
    BY <1>2, IdlePass DEF Ends, Visits
  <1>3. CASE Carries(pass')
    <2>1. pass' \in Passes
      BY <1>3 DEF Carries
    <2>2. Visits'
      BY <1>3, NoPodIsNone DEF Carries, Visits, Present
    <2>3. QED
      BY <2>1, <2>2
  <1>4. QED
    BY <1>1, <1>2, <1>3

\* The end of a pass keeps the cache, or forgets it.
LEMMA StopEnds ==
  ASSUME TypeOK, Stop
  PROVE  Ends
  <1>1. pass.list \in Lists /\ NoList \in Lists
    BY PassFields, NothingRead DEF TypeOK
  <1>2. QED
    BY <1>1 DEF Stop, Ends

\* A call that fails is a fault, and the number of faults is bounded.
LEMMA CallsBound ==
  ASSUME TypeOK, NEW k, NEW limit, Calls(k, limit) \/ \E kind : Fault(kind)
  PROVE  faults' \in 0 .. MaxFaults
  BY WorkersAssumption DEF TypeOK, Calls, Fault

\* A Pod that is not touched has only aged.
LEMMA SameAges ==
  ASSUME NEW w, pod'[w] = pod[w], joined' = joined
  PROVE  Ages(w)
  BY DEF Ages

\* A node that is not touched has only settled.
LEMMA SameSettles ==
  ASSUME NEW w, node'[w] = node[w]
  PROVE  Settles(w)
  BY DEF Settles

-----------------------------------------------------------------------------
(* cleanupWorker *)

\* What each of its three outcomes leaves behind.
Cleaned == /\ pod' \in Lists /\ node' \in [Workers -> Nodes]
           /\ faults' \in 0 .. MaxFaults /\ aged' = aged
           /\ \A v \in Workers : Ages(v) /\ Settles(v)
           /\ pass' = pass \/ Ends \/ Carries(pass')

\* Draining a node and annotating its Pod is steady.
LEMMA DrainSteady ==
  ASSUME TypeOK, NEW w \in Workers, pass.list[w] \in Pods,
         NEW done, Follows(done), Drain(w, done), joined' = joined
  PROVE  Cleaned
  <1> DEFINE limit == IF node[w].state = "absent" THEN 0 ELSE IF Fresh(w) THEN 2 ELSE 1
  <1>1. PICK k \in 0 .. limit :
          /\ Calls(k, limit)
          /\ node' = IF k >= 1 THEN [node EXCEPT ![w].drain = TRUE] ELSE node
          /\ pod' = IF k = 2 THEN [pod EXCEPT ![w].drain = TRUE] ELSE pod
          /\ IF k = 2
             THEN pass' = [done EXCEPT !.list[w].drain = TRUE, !.touched = @ \cup {w}]
             ELSE Stop
    BY DEF Drain
  <1>2. aged' = aged
    BY DEF Drain
  <1>3. faults' \in 0 .. MaxFaults
    BY <1>1, CallsBound
  <1>4. pass' = pass \/ Ends \/ Carries(pass')
    <2>1. CASE k = 2
      <3>1. pass \in Passes /\ TRUE \in BOOLEAN
        BY DEF TypeOK
      <3>2. Carries([done EXCEPT !.list[w].drain = TRUE, !.touched = @ \cup {w}])
        BY <3>1, CopiesCarry, Zenon
      <3>3. pass' = [done EXCEPT !.list[w].drain = TRUE, !.touched = @ \cup {w}]
        BY <2>1, <1>1
      <3>4. QED
        BY <3>2, <3>3, Zenon
    <2>2. CASE k # 2
      BY <2>2, <1>1, StopEnds, Zenon
    <2>3. QED
      BY <2>1, <2>2
  <1>5. k = 2 => pod[w] \in Pods
    BY <1>1 DEF Fresh
  <1>6. pod' \in Lists /\ \A v \in Workers : Ages(v)
    <2>1. CASE k = 2
      <3>1. pod' = [pod EXCEPT ![w] = [pod[w] EXCEPT !.drain = TRUE]]
        BY <1>1, <2>1, Zenon
      <3>2. /\ [pod[w] EXCEPT !.drain = TRUE] \in Pods
            /\ Alike(pod[w], [pod[w] EXCEPT !.drain = TRUE])
            /\ [pod[w] EXCEPT !.drain = TRUE].fin = pod[w].fin
        BY <1>5, <2>1, PodMarks, Zenon
      <3> DEFINE x == [pod[w] EXCEPT !.drain = TRUE]
      <3>3. pod' = [pod EXCEPT ![w] = x] /\ x \in Pods /\ Alike(pod[w], x) /\ x.fin = pod[w].fin
        BY <3>1, <3>2
      <3> HIDE DEF x
      <3>4. QED
        BY <3>3, <1>5, <2>1, NoPodIsNone, Zenon DEF TypeOK, Lists, Ages, Alike
    <2>2. CASE k # 2
      BY <2>2, <1>1, SameAges DEF TypeOK, Lists
    <2>3. QED
      BY <2>1, <2>2, Zenon
  <1>7. node' \in [Workers -> Nodes] /\ \A v \in Workers : Settles(v)
    <2>1. CASE k >= 1
      <3> DEFINE n == [node[w] EXCEPT !.drain = TRUE]
      <3>0. node' = [node EXCEPT ![w] = n]
        BY <1>1, <2>1
      <3>1. n \in Nodes /\ n.drain = TRUE /\ n.state = node[w].state
        <4>1. node[w] \in Nodes /\ TRUE \in BOOLEAN
          BY DEF TypeOK
        <4>2. QED
          BY <4>1, NodeMarks, Zenon
      <3> HIDE DEF n
      <3>2. QED
        BY <3>0, <3>1 DEF TypeOK, Settles
    <2>2. CASE ~ k >= 1
      BY <2>2, <1>1, SameSettles DEF TypeOK
    <2>3. QED
      BY <2>1, <2>2
  <1>8. QED
    BY <1>2, <1>3, <1>4, <1>6, <1>7 DEF Cleaned

\* Waiting for the node to become idle is steady.
LEMMA WaitSteady ==
  ASSUME TypeOK, NEW w \in Workers, NEW done, Follows(done), Wait(w, done), joined' = joined
  PROVE  Cleaned
  <1>1. Carries(pass')
    BY DEF Wait, Follows, Carries
  <1>2. UNCHANGED <<node, pod, aged, faults>>
    BY DEF Wait
  <1>3. \A v \in Workers : Ages(v) /\ Settles(v)
    BY <1>2, SameAges, SameSettles, Zenon
  <1>4. QED
    BY <1>1, <1>2, <1>3, Zenon DEF Cleaned, TypeOK, Lists

\* Taking a worker down is steady, and it takes the finalizer of a registered
\* worker only if the pass has seen it drained and idle.
LEMMA TakeDownSteady ==
  ASSUME TypeOK, NEW w \in Workers, pass.list[w] \in Pods,
         NEW done, Follows(done), TakeDown(w, done), joined' = joined
  PROVE  Cleaned
  <1> DEFINE p     == pass.list[w]
             limit == IF p.fin /\ pod[w] # NoPod /\ ~Fresh(w) THEN 1 ELSE 3
  <1>1. PICK k \in 0 .. limit :
          /\ Calls(k, limit)
          /\ node' = IF k >= 1 /\ Registered(w) THEN [node EXCEPT ![w] = Absent] ELSE node
          /\ pod' = IF k <= 1 \/ pod[w] = NoPod THEN pod
                    ELSE [pod EXCEPT ![w].fin = @ /\ ~p.fin, ![w].deleting = @ \/ k = 3]
          /\ IF k = 3 THEN pass' = [done EXCEPT !.list[w].fin = FALSE] ELSE Stop
    BY Zenon DEF TakeDown
  <1>2. aged' = aged /\ (Registered(w) => NodeIdle(pass.nodes[w]) /\ pass.nodes[w].drain)
    BY DEF TakeDown
  <1>3. faults' \in 0 .. MaxFaults
    BY <1>1, CallsBound
  <1>4. pass' = pass \/ Ends \/ Carries(pass')
    <2>1. CASE k = 3
      <3>1. pass \in Passes /\ FALSE \in BOOLEAN
        BY DEF TypeOK
      <3>2. Carries([done EXCEPT !.list[w].fin = FALSE])
        BY <3>1, CopiesCarry, Zenon
      <3>3. pass' = [done EXCEPT !.list[w].fin = FALSE]
        BY <2>1, <1>1, Zenon
      <3>4. QED
        BY <3>2, <3>3, Zenon
    <2>2. CASE k # 3
      BY <2>2, <1>1, StopEnds
    <2>3. QED
      BY <2>1, <2>2
  <1>6. pod' \in Lists /\ \A v \in Workers : Ages(v)
    <2>1. CASE k <= 1 \/ pod[w] = NoPod
      BY <2>1, <1>1, SameAges, Zenon DEF TypeOK, Lists
    <2>2. CASE ~(k <= 1 \/ pod[w] = NoPod)
      <3>1. pod[w] \in Pods
        BY <2>2 DEF TypeOK
      <3>2. pod' = [pod EXCEPT ![w].fin = @ /\ ~p.fin, ![w].deleting = @ \/ k = 3]
        BY <2>2, <1>1
      <3>4. PICK b \in BOOLEAN, d \in BOOLEAN : /\ b = (pod[w].fin /\ ~p.fin)
                                               /\ d = (pod[w].deleting \/ k = 3)
        BY Zenon
      <3> DEFINE x == [pod[w] EXCEPT !.fin = b, !.deleting = d]
      <3>3. pod' = [pod EXCEPT ![w] = x]
        BY <3>1, <3>2, <3>4, Zenon DEF TypeOK, Pods
      <3>5. /\ x \in Pods /\ x.pool = pod[w].pool /\ x.deleting = d
            /\ x.rec = pod[w].rec /\ x.up = pod[w].up
        BY <3>1, Zenon DEF Pods
      <3> HIDE DEF x
      <3>6. QED
        BY <3>1, <3>3, <3>4, <3>5, <1>2, NoPodIsNone, Zenon DEF TypeOK, Lists, Ages
    <2>3. QED
      BY <2>1, <2>2
  <1>7. node' \in [Workers -> Nodes] /\ \A v \in Workers : Settles(v)
    BY <1>1, NodeValues DEF TypeOK, Settles
  <1>8. QED
    BY <1>2, <1>3, <1>4, <1>6, <1>7, Zenon DEF Cleaned

\* cleanupWorker is steady whatever its outcome.
LEMMA CleanupSteady ==
  ASSUME TypeOK, Visits, NEW w \in Workers, pass.list[w] \in Pods,
         NEW done, Follows(done), CleanupWorker(w, done)
  PROVE  TypeOK' /\ Visits' /\ Steady
  <1>1. UNCHANGED <<cluster, claims, joined, job, at>>
    BY DEF CleanupWorker
  <1>2. Cleaned
    <2>1. joined' = joined
      BY <1>1
    <2>2. QED
      BY <2>1, DrainSteady, WaitSteady, TakeDownSteady DEF CleanupWorker
  <1>3. pass' \in Passes /\ Visits'
    BY <1>2, SteadyPass DEF Cleaned
  <1>4. TypeOK'
    BY <1>1, <1>2, <1>3 DEF TypeOK, Cleaned, Lists
  <1>5. Steady
    BY <1>1, <1>2 DEF Steady, Cleaned
  <1>6. QED
    BY <1>3, <1>4, <1>5

-----------------------------------------------------------------------------
(* The visits of a pass *)

\* A Pod that is visited has been listed.
LEMMA VisitedIsPod ==
  ASSUME TypeOK, Visits, NEW w \in pass.todo, pass.pc \in {"inspect", "scale", "delete"}
  PROVE  w \in Workers /\ pass.list[w] \in Pods
  <1>1. pass.list \in Lists /\ pass.todo \in SUBSET Workers
    BY PassFields DEF TypeOK
  <1>2. QED
    BY <1>1 DEF Visits, Present, Lists

\* A step that changes nothing but the pass, which it carries on with or ends,
\* and the claims.
LEMMA PassSteady ==
  ASSUME TypeOK, Visits, UNCHANGED <<cluster, pod, joined, slurm>>,
         claims' \in SUBSET Workers, aged' \in SUBSET Workers, faults' \in 0 .. MaxFaults,
         pass' = pass \/ Ends \/ Carries(pass')
  PROVE  TypeOK' /\ Visits' /\ Steady
  <1>1. pass' \in Passes /\ Visits'
    BY SteadyPass
  <1>2. TypeOK'
    BY <1>1 DEF TypeOK, slurm
  <1>3. \A w \in Workers : Ages(w) /\ Settles(w)
    BY SameAges, SameSettles, Zenon DEF slurm
  <1>4. QED
    BY <1>1, <1>2, <1>3, Zenon DEF Steady, slurm

\* Following a pass is carrying on with it.
LEMMA FollowsCarries ==
  ASSUME NEW q, Follows(q)
  PROVE  Carries(q)
  BY DEF Follows, Carries

\* A step that changes one Pod by marking it.
LEMMA PodSteady ==
  ASSUME TypeOK, Visits, UNCHANGED <<cluster, claims, joined, slurm>>,
         aged' \in SUBSET Workers, faults' \in 0 .. MaxFaults,
         pass' = pass \/ Ends \/ Carries(pass'),
         NEW w \in Workers, NEW x \in Pods, pod[w] \in Pods,
         pod' = [pod EXCEPT ![w] = x],
         /\ x.pool = pod[w].pool /\ (pod[w].fin => x.fin)
         /\ pod[w].deleting => x.deleting
         /\ pod[w].rec => x.rec
         /\ pod[w].up = "failed" => x.up = "failed"
  PROVE  TypeOK' /\ Visits' /\ Steady
  <1>1. pass' \in Passes /\ Visits'
    BY SteadyPass, Zenon
  <1>2. TypeOK'
    BY <1>1 DEF TypeOK, slurm
  <1>3. \A v \in Workers : Ages(v) /\ Settles(v)
    BY NoPodIsNone DEF TypeOK, Ages, Settles, slurm
  <1>4. QED
    BY <1>1, <1>2, <1>3, Zenon DEF Steady, slurm

\* "restore worker Pod finalizer" is steady.
LEMMA RestoreSteady ==
  ASSUME TypeOK, Visits, NEW w \in Workers, RestoreFinalizer(w)
  PROVE  TypeOK' /\ Visits' /\ Steady
  <1> DEFINE limit == IF Fresh(w) THEN 1 ELSE 0
  <1>1. PICK k \in 0 .. limit :
          /\ Calls(k, limit)
          /\ pod' = IF k = 1 THEN [pod EXCEPT ![w].fin = TRUE] ELSE pod
          /\ IF k = 1 THEN pass' = [pass EXCEPT !.list[w].fin = TRUE, !.touched = @ \cup {w}]
                      ELSE Stop
    BY DEF RestoreFinalizer
  <1>2. UNCHANGED <<cluster, claims, joined, slurm, aged>>
    BY DEF RestoreFinalizer
  <1>3. faults' \in 0 .. MaxFaults
    BY <1>1, CallsBound, Zenon
  <1>4. pass.list[w] \in Pods
    BY VisitedIsPod DEF RestoreFinalizer, At
  <1>5. CASE k = 1
    <2>1. pod[w] \in Pods /\ TRUE \in BOOLEAN
      BY <1>1, <1>4, <1>5 DEF Fresh
    <2> DEFINE x == [pod[w] EXCEPT !.fin = TRUE]
    <2>2. x \in Pods /\ Alike(pod[w], x) /\ x.fin = TRUE
      BY <2>1, PodMarks, Zenon
    <2>3. pod' = [pod EXCEPT ![w] = x]
      BY <1>1, <1>5
    <2>4. Carries(pass')
      <3>1. pass \in Passes
        BY DEF TypeOK
      <3>2. Follows(pass)
        BY <3>1 DEF Follows
      <3>3. Carries([pass EXCEPT !.list[w].fin = TRUE, !.touched = @ \cup {w}])
        BY <3>1, <3>2, <2>1, <1>4, CopiesCarry, Zenon
      <3>4. pass' = [pass EXCEPT !.list[w].fin = TRUE, !.touched = @ \cup {w}]
        BY <1>1, <1>5
      <3>5. QED
        BY <3>3, <3>4, Zenon
    <2> HIDE DEF x
    <2>5. aged' \in SUBSET Workers
      BY <1>2, Zenon DEF TypeOK
    <2>6. QED
      BY <2>1, <2>2, <2>3, <2>4, <2>5, <1>2, <1>3, PodSteady, Zenon DEF Alike
  <1>6. CASE k # 1
    BY <1>1, <1>2, <1>3, <1>6, StopEnds, PassSteady, Zenon DEF TypeOK
  <1>7. QED
    BY <1>5, <1>6, Zenon

\* Cleaning a listed Pod up is steady.
LEMMA InspectCleanupSteady ==
  ASSUME TypeOK, Visits, NEW w \in Workers, InspectCleanup(w)
  PROVE  TypeOK' /\ Visits' /\ Steady
  <1>1. pass.list[w] \in Pods
    BY VisitedIsPod, Zenon DEF InspectCleanup, At
  <1>2. Follows(Visited(w))
    BY VisitedFollows, Zenon DEF TypeOK
  <1>3. QED
    BY <1>1, <1>2, CleanupSteady, Zenon DEF InspectCleanup

\* So is ensureWorkerClaim.
LEMMA InspectKeepSteady ==
  ASSUME TypeOK, Visits, NEW w \in Workers, InspectKeep(w)
  PROVE  TypeOK' /\ Visits' /\ Steady
  <1> DEFINE limit == IF pod[w] = NoPod \/ w \in claims THEN 0 ELSE 1
  <1>1. PICK k \in 0 .. limit :
          /\ Calls(k, limit)
          /\ claims' = IF k = 1 THEN claims \cup {w} ELSE claims
          /\ IF k = limit THEN pass' = Visited(w) ELSE Stop
    BY Zenon DEF InspectKeep
  <1>2. UNCHANGED <<cluster, pod, joined, slurm, aged>>
    BY DEF InspectKeep
  <1>3. faults' \in 0 .. MaxFaults
    BY <1>1, CallsBound, Zenon
  <1>4. Carries(Visited(w))
    BY VisitedFollows, FollowsCarries, Zenon DEF TypeOK
  <1>5. Ends \/ Carries(pass')
    BY <1>1, <1>4, StopEnds
  <1>6. claims' \in SUBSET Workers /\ aged' \in SUBSET Workers
    BY <1>1, <1>2, Zenon DEF TypeOK
  <1>7. QED
    BY <1>2, <1>3, <1>5, <1>6, PassSteady, Zenon

\* So is leaving a Pod to the recovery reconciler.
LEMMA InspectSkipSteady ==
  ASSUME TypeOK, Visits, NEW w \in Workers, InspectSkip(w)
  PROVE  TypeOK' /\ Visits' /\ Steady
  <1>1. Carries(pass')
    BY VisitedFollows, FollowsCarries DEF InspectSkip, TypeOK
  <1>2. UNCHANGED <<cluster, pod, claims, joined, slurm, aged, faults>>
    BY DEF InspectSkip, kube
  <1>3. QED
    BY <1>1, <1>2, PassSteady, Zenon DEF TypeOK

\* A step that changes one node, by draining or deleting it.
LEMMA NodeSteady ==
  ASSUME TypeOK, Visits, UNCHANGED <<cluster, kube, job, at, aged>>,
         faults' \in 0 .. MaxFaults, pass' = pass \/ Ends \/ Carries(pass'),
         NEW w \in Workers, NEW n \in Nodes, node' = [node EXCEPT ![w] = n],
         n.state # "absent" => node[w].state # "absent" /\ (node[w].drain => n.drain)
  PROVE  TypeOK' /\ Visits' /\ Steady
  <1>1. pass' \in Passes /\ Visits'
    BY SteadyPass
  <1>2. TypeOK'
    BY <1>1, Zenon DEF TypeOK, kube
  <1>3. \A v \in Workers : Ages(v)
    BY SameAges, Zenon DEF kube
  <1>4. \A v \in Workers : Settles(v)
    BY DEF TypeOK, Settles
  <1>5. QED
    BY <1>1, <1>2, <1>3, <1>4, Zenon DEF Steady

\* Cleaning an orphaned node up is steady.
LEMMA CleanOrphanSteady ==
  ASSUME TypeOK, Visits, NEW w \in Workers, CleanOrphan(w)
  PROVE  TypeOK' /\ Visits' /\ Steady
  <1> DEFINE remove == pass.nodes[w].drain /\ NodeIdle(pass.nodes[w])
             limit  == IF node[w].state = "absent" /\ ~remove THEN 0 ELSE 1
  <1>1. PICK k \in 0 .. limit :
          /\ Calls(k, limit)
          /\ node' = IF k = 0 THEN node
                     ELSE IF remove THEN [node EXCEPT ![w] = Absent]
                     ELSE [node EXCEPT ![w].drain = TRUE]
          /\ IF k = 1 THEN pass' = Visited(w) ELSE Stop
    BY DEF CleanOrphan
  <1>2. UNCHANGED <<cluster, kube, job, at, aged>>
    BY DEF CleanOrphan
  <1>3. faults' \in 0 .. MaxFaults
    BY <1>1, CallsBound
  <1>4. Carries(Visited(w))
    BY VisitedFollows, FollowsCarries, Zenon DEF TypeOK
  <1>5. Ends \/ Carries(pass')
    BY <1>1, <1>4, StopEnds
  <1>6. CASE k = 0
    BY <1>1, <1>2, <1>3, <1>5, <1>6, PassSteady, Zenon DEF TypeOK, kube, slurm
  <1>7. CASE k # 0 /\ remove
    <2>1. node' = [node EXCEPT ![w] = Absent]
      BY <1>1, <1>7
    <2>2. QED
      BY <2>1, <1>2, <1>3, <1>5, NodeSteady, NodeValues, Zenon
  <1>8. CASE k # 0 /\ ~remove
    <2> DEFINE n == [node[w] EXCEPT !.drain = TRUE]
    <2>1. node' = [node EXCEPT ![w] = n]
      BY <1>1, <1>8
    <2>2. node[w].state # "absent"
      BY <1>1, <1>8
    <2>3. node[w] \in Nodes /\ TRUE \in BOOLEAN
      BY DEF TypeOK
    <2>4. n \in Nodes /\ n.drain = TRUE
      BY <2>3, NodeMarks, Zenon
    <2> HIDE DEF n
    <2>5. QED
      BY <2>1, <2>2, <2>4, <1>2, <1>3, <1>5, NodeSteady, Zenon
  <1>9. QED
    BY <1>6, <1>7, <1>8, Zenon

\* Counting a ready worker is carrying on.
LEMMA CountingFollows ==
  ASSUME TypeOK, NEW w \in Workers, pass.list[w] \in Pods
  PROVE  /\ Follows(Counting(w))
         /\ Follows([Counting(w) EXCEPT !.ready[pass.list[w].pool] = @ - 1])
  <1>1. pass \in Passes
    BY DEF TypeOK
  <1>2. Follows(Visited(w))
    BY <1>1, VisitedFollows, Zenon
  <1>3. ReadyHere(w) \in Int
    <2>1. pass.ready \in [Pools -> Int] /\ pass.list[w].pool \in Pools
      BY <1>1, PassFields, PodFields, Zenon
    <2>2. QED
      BY <2>1 DEF ReadyHere
  <1>4. Follows(Counting(w))
    BY <1>1, <1>2, <1>3, ReadyFollows, Zenon DEF Counting
  <1>5. Counting(w).ready[pass.list[w].pool] - 1 \in Int
    <2>1. Counting(w).ready \in [Pools -> Int] /\ pass.list[w].pool \in Pools
      BY <1>4, PassFields, PodFields DEF Follows
    <2>2. QED
      BY <2>1
  <1>6. Follows([Counting(w) EXCEPT !.ready[pass.list[w].pool] =
                                       Counting(w).ready[pass.list[w].pool] - 1])
    BY <1>1, <1>4, <1>5, ReadyFollows, Zenon
  <1>7. QED
    BY <1>4, <1>6, Zenon

\* Passing by a worker that stays as it is, is steady.
LEMMA ScaleSkipSteady ==
  ASSUME TypeOK, Visits, NEW w \in Workers, ScaleSkip(w)
  PROVE  TypeOK' /\ Visits' /\ Steady
  <1>1. pass.list[w] \in Pods
    BY VisitedIsPod DEF ScaleSkip, At
  <1>2. Carries(Visited(w)) /\ Carries(Counting(w))
    BY <1>1, VisitedFollows, CountingFollows, FollowsCarries, Zenon DEF TypeOK
  <1>3. pass' = Visited(w) \/ pass' = Counting(w)
    BY DEF ScaleSkip
  <1>4. Carries(pass')
    BY <1>2, <1>3, Zenon
  <1>5. UNCHANGED <<cluster, pod, claims, joined, slurm, aged, faults>>
    BY DEF ScaleSkip, kube
  <1>6. QED
    BY <1>4, <1>5, PassSteady DEF TypeOK

\* So is setting or clearing the idle-since annotation.
LEMMA ScaleMarkSteady ==
  ASSUME TypeOK, Visits, NEW w \in Workers, ScaleMark(w)
  PROVE  TypeOK' /\ Visits' /\ Steady
  <1> DEFINE limit == IF Fresh(w) THEN 1 ELSE 0
  <1>0. PICK mark \in BOOLEAN : mark = IdleCapacity(w)
    BY Zenon DEF IdleCapacity
  <1>1. PICK k \in 0 .. limit :
          /\ Calls(k, limit)
          /\ IF k = 1
             THEN /\ pod' = [pod EXCEPT ![w].idle = mark]
                  /\ aged' = IF mark THEN aged \ {w} ELSE aged
                  /\ pass' = [Counting(w) EXCEPT !.list[w].idle = mark,
                                               !.touched = @ \cup {w}]
             ELSE UNCHANGED <<pod, aged>> /\ Stop
    BY <1>0 DEF ScaleMark
  <1>2. UNCHANGED <<cluster, claims, joined, slurm>>
    BY DEF ScaleMark
  <1>3. faults' \in 0 .. MaxFaults
    BY <1>1, CallsBound
  <1>4. pass.list[w] \in Pods
    BY VisitedIsPod DEF ScaleMark, Scalable, At
  <1>5. CASE k = 1
    <2>1. pod[w] \in Pods
      BY <1>1, <1>4, <1>5 DEF Fresh
    <2> DEFINE x == [pod[w] EXCEPT !.idle = mark]
    <2>2. x \in Pods /\ Alike(pod[w], x) /\ x.fin = pod[w].fin
      BY <2>1, PodMarks, Zenon
    <2>3. pod' = [pod EXCEPT ![w] = x]
      BY <1>1, <1>5, Zenon
    <2>4. Carries(pass')
      <3>1. pass \in Passes /\ Follows(Counting(w))
        BY <1>4, CountingFollows, Zenon DEF TypeOK
      <3>3. Carries([Counting(w) EXCEPT !.list[w].idle = mark, !.touched = @ \cup {w}])
        BY <3>1, <1>4, CopiesCarry, Zenon
      <3>4. pass' = [Counting(w) EXCEPT !.list[w].idle = mark, !.touched = @ \cup {w}]
        BY <1>1, <1>5
      <3>5. QED
        BY <3>3, <3>4, Zenon
    <2> HIDE DEF x
    <2>5. aged' \in SUBSET Workers
      BY <1>1, <1>5 DEF TypeOK
    <2>6. QED
      BY <2>1, <2>2, <2>3, <2>4, <2>5, <1>2, <1>3, PodSteady, Zenon DEF Alike
  <1>6. CASE k # 1
    BY <1>1, <1>2, <1>3, <1>6, StopEnds, PassSteady DEF TypeOK
  <1>7. QED
    BY <1>5, <1>6, Zenon

\* So is scaling down.
LEMMA ScaleDownSteady ==
  ASSUME TypeOK, Visits, NEW w \in Workers, ScaleDown(w)
  PROVE  TypeOK' /\ Visits' /\ Steady
  <1>1. pass.list[w] \in Pods
    BY VisitedIsPod, Zenon DEF ScaleDown, Scalable, At
  <1> DEFINE less == [Counting(w) EXCEPT !.ready[pass.list[w].pool] = @ - 1]
  <1>2. Follows(Counting(w)) /\ Follows(less)
    BY <1>1, CountingFollows, Zenon
  <1>3. CleanupWorker(w, Counting(w)) \/ CleanupWorker(w, less)
    BY DEF ScaleDown
  <1> HIDE DEF less
  <1>4. QED
    BY <1>1, <1>2, <1>3, CleanupSteady, Zenon

\* So is cleaning up for the deletion of the cluster.
LEMMA DeletionSteady ==
  ASSUME TypeOK, Visits, NEW w \in Workers, DeletionCleanup(w)
  PROVE  TypeOK' /\ Visits' /\ Steady
  <1>1. pass.list[w] \in Pods
    BY VisitedIsPod DEF DeletionCleanup, At
  <1>2. Follows(Visited(w))
    BY VisitedFollows DEF TypeOK
  <1>3. QED
    BY <1>1, <1>2, CleanupSteady, Zenon DEF DeletionCleanup

\* All visits are steady.
LEMMA VisitSteady ==
  ASSUME TypeOK, Visits, NEW w \in Workers, Visit(w)
  PROVE  TypeOK' /\ Visits' /\ Steady
  BY RestoreSteady, InspectCleanupSteady, InspectKeepSteady, InspectSkipSteady,
     CleanOrphanSteady, ScaleSkipSteady, ScaleMarkSteady, ScaleDownSteady, DeletionSteady, Zenon
     DEF Visit

\* A pass that is given up has ended.
LEMMA AbandonSteady ==
  ASSUME TypeOK, Visits, AbandonPass
  PROVE  TypeOK' /\ Visits' /\ Steady
  <1>1. Ends
    BY StopEnds DEF AbandonPass
  <1>2. faults' \in 0 .. MaxFaults
    BY CallsBound DEF AbandonPass
  <1>3. UNCHANGED <<cluster, pod, claims, joined, slurm, aged>>
    BY Zenon DEF AbandonPass, kube
  <1>4. QED
    BY <1>1, <1>2, <1>3, PassSteady, Zenon DEF TypeOK

-----------------------------------------------------------------------------
(* The steps around the operator *)

\* Becoming ready is steady.
LEMMA BecomeReadySteady ==
  ASSUME TypeOK, Visits, NEW w \in Workers, BecomeReady(w)
  PROVE  TypeOK' /\ Visits' /\ Steady
  <1> DEFINE x == [pod[w] EXCEPT !.up = "ready"]
  <1>1. pod[w] \in Pods /\ pod[w].up = "unready"
    BY DEF BecomeReady, Running, TypeOK
  <1>2. /\ x \in Pods /\ x.pool = pod[w].pool /\ x.rec = pod[w].rec
        /\ x.deleting = pod[w].deleting /\ x.fin = pod[w].fin
    BY <1>1, PodPhases, Zenon
  <1>3. pod' = [pod EXCEPT ![w] = x]
    BY DEF BecomeReady
  <1> HIDE DEF x
  <1>4. UNCHANGED <<cluster, claims, joined, slurm, aged, pass, faults>>
    BY DEF BecomeReady
  <1>5. aged' \in SUBSET Workers /\ faults' \in 0 .. MaxFaults
    BY <1>4 DEF TypeOK
  <1>6. QED
    BY <1>1, <1>2, <1>3, <1>4, <1>5, PodSteady, Zenon

\* So are the faults of a Pod.
LEMMA PodFaultSteady ==
  ASSUME TypeOK, Visits, NEW w \in Workers, PodFault(w)
  PROVE  TypeOK' /\ Visits' /\ Steady
  <1> DEFINE u == [pod[w] EXCEPT !.up = "unready"]
             f == [pod[w] EXCEPT !.up = "failed"]
             d == [pod[w] EXCEPT !.deleting = TRUE]
  <1>1. pod[w] \in Pods
    BY DEF PodFault, TypeOK
  <1>2. /\ u \in Pods /\ u.pool = pod[w].pool /\ u.rec = pod[w].rec
        /\ u.deleting = pod[w].deleting /\ u.fin = pod[w].fin
    BY <1>1, PodPhases, Zenon
  <1>3. /\ f \in Pods /\ f.pool = pod[w].pool /\ f.rec = pod[w].rec /\ f.up = "failed"
        /\ f.deleting = pod[w].deleting /\ f.fin = pod[w].fin
    BY <1>1, PodPhases, Zenon
  <1>4. /\ d \in Pods /\ d.pool = pod[w].pool /\ d.rec = pod[w].rec
        /\ d.deleting /\ d.fin = pod[w].fin /\ d.up = pod[w].up
    BY <1>1, PodClaimed, Zenon
  <1>5. \/ pod[w].up = "ready" /\ pod' = [pod EXCEPT ![w] = u]
        \/ pod' = [pod EXCEPT ![w] = f]
        \/ pod' = [pod EXCEPT ![w] = d]
    BY DEF PodFault
  <1> HIDE DEF u, f, d
  <1>6. UNCHANGED <<cluster, claims, joined, slurm, aged, pass>>
    BY DEF PodFault
  <1>7. aged' \in SUBSET Workers
    BY <1>6 DEF TypeOK
  <1>8. faults' \in 0 .. MaxFaults
    BY CallsBound DEF PodFault
  <1>9. CASE pod[w].up = "ready" /\ pod' = [pod EXCEPT ![w] = u]
    BY <1>1, <1>2, <1>6, <1>7, <1>8, <1>9, PodSteady, Zenon
  <1>10. CASE pod' = [pod EXCEPT ![w] = f]
    BY <1>1, <1>3, <1>6, <1>7, <1>8, <1>10, PodSteady, Zenon
  <1>11. CASE pod' = [pod EXCEPT ![w] = d]
    BY <1>1, <1>4, <1>6, <1>7, <1>8, <1>11, PodSteady, Zenon
  <1>12. QED
    BY <1>5, <1>9, <1>10, <1>11

\* So is losing a claim.
LEMMA LoseClaimSteady ==
  ASSUME TypeOK, Visits, NEW w \in Workers, LoseClaim(w)
  PROVE  TypeOK' /\ Visits' /\ Steady
  <1>1. faults' \in 0 .. MaxFaults
    BY CallsBound DEF LoseClaim
  <1>2. UNCHANGED <<cluster, pod, joined, slurm, aged, pass>>
    BY DEF LoseClaim
  <1>3. claims' \in SUBSET Workers /\ aged' \in SUBSET Workers
    BY <1>2 DEF LoseClaim, TypeOK
  <1>4. QED
    BY <1>1, <1>2, <1>3, PassSteady

\* A step that removes one Pod, and its node or not.
LEMMA GoneSteady ==
  ASSUME TypeOK, Visits, NEW w \in Workers, pod' = [pod EXCEPT ![w] = NoPod],
         claims' = claims \ {w}, joined' = joined \ {w}, aged' = aged \ {w},
         node' = node \/ node' = [node EXCEPT ![w] = Absent],
         UNCHANGED <<cluster, job, at, pass, faults>>
  PROVE  TypeOK' /\ Visits' /\ Steady
  <1>1. TypeOK'
    BY NodeValues, Zenon DEF TypeOK
  <1>2. \A v \in Workers : Ages(v)
    BY Zenon DEF TypeOK, Ages
  <1>3. \A v \in Workers : Settles(v)
    BY NodeValues, Zenon DEF TypeOK, Settles
  <1>4. Visits'
    BY DEF Visits, Present
  <1>5. QED
    BY <1>1, <1>2, <1>3, <1>4, Zenon DEF Steady

\* The end of a Pod that is being deleted is steady.
LEMMA TerminateSteady ==
  ASSUME TypeOK, Visits, NEW w \in Workers, Terminate(w)
  PROVE  TypeOK' /\ Visits' /\ Steady
  <1>1. CASE pod' = [pod EXCEPT ![w].up = "failed"] /\ UNCHANGED <<claims, joined, aged>>
    <2> DEFINE f == [pod[w] EXCEPT !.up = "failed"]
    <2>1. pod[w] \in Pods
      BY DEF Terminate, TypeOK
    <2>2. /\ f \in Pods /\ f.pool = pod[w].pool /\ f.rec = pod[w].rec /\ f.up = "failed"
          /\ f.deleting = pod[w].deleting /\ f.fin = pod[w].fin
      BY <2>1, PodPhases, Zenon
    <2>3. pod' = [pod EXCEPT ![w] = f]
      BY <1>1
    <2> HIDE DEF f
    <2>4. UNCHANGED <<cluster, claims, joined, slurm, aged, pass, faults>>
      BY <1>1, Zenon DEF Terminate
    <2>5. aged' \in SUBSET Workers /\ faults' \in 0 .. MaxFaults
      BY <2>4 DEF TypeOK
    <2>6. QED
      BY <2>1, <2>2, <2>3, <2>4, <2>5, PodSteady, Zenon
  <1>2. CASE /\ pod' = [pod EXCEPT ![w] = NoPod] /\ claims' = claims \ {w}
             /\ joined' = joined \ {w} /\ aged' = aged \ {w}
    BY <1>2, GoneSteady, Zenon DEF Terminate, slurm
  <1>3. QED
    BY <1>1, <1>2, Zenon DEF Terminate

\* The passing of idleTimeout is steady.
LEMMA AgeSteady ==
  ASSUME TypeOK, Visits, NEW w \in Workers, Age(w)
  PROVE  TypeOK' /\ Visits' /\ Steady
  <1>1. UNCHANGED <<cluster, pod, claims, joined, slurm, pass, faults>>
    BY DEF Age, kube
  <1>2. claims' \in SUBSET Workers /\ aged' \in SUBSET Workers /\ faults' \in 0 .. MaxFaults
    BY <1>1 DEF Age, TypeOK
  <1>3. QED
    BY <1>1, <1>2, PassSteady

\* So is what the recovery reconciler does when it takes a Pod.
LEMMA TakeForRecoverySteady ==
  ASSUME TypeOK, Visits, NEW w \in Workers, TakeForRecovery(w)
  PROVE  TypeOK' /\ Visits' /\ Steady
  <1> DEFINE x == [pod[w] EXCEPT !.rec = TRUE]
  <1>0. PICK b \in BOOLEAN : b = (node[w].drain \/ node[w].state # "absent")
    BY Zenon
  <1> DEFINE n == [node[w] EXCEPT !.drain = b]
  <1>1. pod[w] \in Pods /\ node[w] \in Nodes
    BY DEF TakeForRecovery, TypeOK
  <1>2. /\ x \in Pods /\ x.pool = pod[w].pool /\ x.rec /\ x.up = pod[w].up
        /\ x.deleting = pod[w].deleting /\ x.fin = pod[w].fin
    BY <1>1, PodClaimed, Zenon
  <1>3. n \in Nodes /\ n.drain = b /\ n.state = node[w].state
    BY <1>1, NodeMarks, Zenon
  <1>4. pod' = [pod EXCEPT ![w] = x]
    BY Zenon DEF TakeForRecovery
  <1>5. node' = [node EXCEPT ![w] = n]
    BY <1>0, <1>1, Zenon DEF TakeForRecovery, TypeOK
  <1> HIDE DEF x, n
  <1>6. UNCHANGED <<cluster, claims, joined, job, at, aged, pass>>
    BY Zenon DEF TakeForRecovery
  <1>7. faults' \in 0 .. MaxFaults
    BY CallsBound DEF TakeForRecovery
  <1>8. TypeOK'
    BY <1>2, <1>3, <1>4, <1>5, <1>6, <1>7, Zenon DEF TypeOK
  <1>9. \A v \in Workers : Ages(v)
    BY <1>1, <1>2, <1>4, <1>6, NoPodIsNone, Zenon DEF TypeOK, Ages
  <1>10. \A v \in Workers : Settles(v)
    BY <1>0, <1>3, <1>5, Zenon DEF TypeOK, Settles
  <1>11. Visits'
    BY <1>6 DEF Visits, Present
  <1>12. QED
    BY <1>6, <1>8, <1>9, <1>10, <1>11 DEF Steady

\* So is the removal of a worker at the end of a recovery.
LEMMA RecoveryRemovesSteady ==
  ASSUME TypeOK, Visits, NEW w \in Workers, RecoveryRemoves(w)
  PROVE  TypeOK' /\ Visits' /\ Steady
  BY GoneSteady, Zenon DEF RecoveryRemoves

\* A step of slurmctld's job table that starts nothing.
LEMMA JobsSteady ==
  ASSUME TypeOK, Visits, UNCHANGED <<cluster, kube, aged, pass>>,
         node' \in [Workers -> Nodes], \A w \in Workers : Settles(w),
         job' \in [Jobs -> {"held", "pending", "running", "done"}],
         at' \in [Jobs -> Workers \cup {0}], \A j \in Jobs : at'[j] \in {at[j], 0},
         faults' \in 0 .. MaxFaults
  PROVE  TypeOK' /\ Visits' /\ Steady
  <1>1. TypeOK'
    BY DEF TypeOK, kube
  <1>2. \A w \in Workers : Ages(w)
    BY SameAges, Zenon DEF kube
  <1>3. Visits'
    BY DEF Visits, Present
  <1>4. QED
    BY <1>1, <1>2, <1>3 DEF Steady

\* Submitting, cancelling and finishing jobs is steady.
LEMMA UserSteady ==
  ASSUME TypeOK, Visits, NEW g, Submit(g) \/ Cancel(g) \/ Finish(g)
  PROVE  TypeOK' /\ Visits' /\ Steady
  <1>1. UNCHANGED <<cluster, kube, node, aged, pass>>
    BY Zenon DEF Submit, Cancel, Finish
  <1>2. faults' \in 0 .. MaxFaults
    BY CallsBound, Zenon DEF Submit, Cancel, Finish, TypeOK
  <1>3. job' \in [Jobs -> {"held", "pending", "running", "done"}]
    BY Zenon DEF Submit, Cancel, Finish, TypeOK
  <1>4. at' \in [Jobs -> Workers \cup {0}] /\ \A j \in Jobs : at'[j] \in {at[j], 0}
    BY Zenon DEF Submit, Cancel, Finish, TypeOK
  <1>5. node' \in [Workers -> Nodes] /\ \A w \in Workers : Settles(w)
    BY <1>1, SameSettles DEF TypeOK
  <1>6. QED
    BY <1>1, <1>2, <1>3, <1>4, <1>5, JobsSteady, Zenon

\* So is marking the node of a dead slurmd down and requeueing its job.
LEMMA NoticeDeadSteady ==
  ASSUME TypeOK, Visits, NEW w \in Workers, NoticeDead(w)
  PROVE  TypeOK' /\ Visits' /\ Steady
  <1> DEFINE n == [node[w] EXCEPT !.state = "down"]
  <1>1. UNCHANGED <<cluster, kube, aged, pass, faults>>
    BY Zenon DEF NoticeDead
  <1>2. node[w] \in Nodes /\ TRUE \in BOOLEAN
    BY DEF TypeOK
  <1>3. n \in Nodes /\ n.drain = node[w].drain
    BY <1>2, NodeMarks, Zenon
  <1>4. node' = [node EXCEPT ![w] = n] /\ node[w].state = "up"
    BY Zenon DEF NoticeDead
  <1> HIDE DEF n
  <1>5. node' \in [Workers -> Nodes] /\ \A v \in Workers : Settles(v)
    BY <1>3, <1>4, Zenon DEF TypeOK, Settles
  <1>6. /\ job' \in [Jobs -> {"held", "pending", "running", "done"}]
        /\ at' \in [Jobs -> Workers \cup {0}] /\ \A j \in Jobs : at'[j] \in {at[j], 0}
    BY DEF NoticeDead, TypeOK
  <1>7. faults' \in 0 .. MaxFaults
    BY <1>1, Zenon DEF TypeOK
  <1>8. QED
    BY <1>1, <1>5, <1>6, <1>7, JobsSteady, Zenon

\* So is asking for the deletion of the cluster.
LEMMA DeleteClusterSteady ==
  ASSUME TypeOK, Visits, DeleteCluster
  PROVE  TypeOK' /\ Visits' /\ Steady
  <1>1. faults' \in 0 .. MaxFaults
    BY CallsBound DEF DeleteCluster
  <1>2. UNCHANGED <<pod, claims, joined, node, job, at, aged, pass>> /\ cluster' = "deleting"
    BY Zenon DEF DeleteCluster, kube, slurm
  <1>3. TypeOK'
    BY <1>1, <1>2, Zenon DEF TypeOK
  <1>4. \A w \in Workers : Ages(w) /\ Settles(w)
    BY <1>2, SameAges, SameSettles, Zenon
  <1>5. Visits'
    BY <1>2, Zenon DEF Visits, Present
  <1>6. QED
    BY <1>2, <1>3, <1>4, <1>5 DEF Steady

-----------------------------------------------------------------------------
(* The other steps *)

\* The jobs are as many as the queue is long, at most.
LEMMA JobsFinite == IsFiniteSet(Jobs) /\ IsFiniteSet(Workers)
  <1>1. IsFiniteSet(1 .. Len(Queue)) /\ DOMAIN Queue = 1 .. Len(Queue)
    BY WorkersAssumption, FS_Interval
  <1>2. Queue \in Surjection(1 .. Len(Queue), Jobs)
    BY <1>1, WorkersAssumption DEF Jobs, Surjection
  <1>3. QED
    BY <1>1, <1>2, WorkersAssumption, FS_Surjection

\* A list from the cache is a list of Pods, the current one if the cache is up
\* to date.
LEMMA CachedLists ==
  ASSUME TypeOK, NEW list \in Cached
  PROVE  list \in Lists /\ (~Lag => list = pod)
  <1>1. pod \in Lists /\ pass.list \in Lists
    BY PassFields, Zenon DEF TypeOK, Lists
  <1>2. CASE ~Lag
    BY <1>1, <1>2, Zenon DEF Cached
  <1>3. CASE Lag
    <2>1. /\ list \in [Workers -> {pod[w] : w \in Workers} \cup {pass.list[w] : w \in Workers}]
          /\ \A w \in Workers : list[w] \in {pod[w], pass.list[w]}
      BY <1>3, Zenon DEF Cached
    <2>2. QED
      BY <1>1, <1>3, <2>1, Zenon DEF Lists
  <1>4. QED
    BY <1>2, <1>3, Zenon

\* slurmctld's answer.
LEMMA Reported ==
  ASSUME TypeOK
  PROVE  [w \in Workers |-> Report(w)] \in [Workers -> Reports]
  <1>1. ASSUME NEW w \in Workers PROVE Report(w) \in Reports
    <2>1. node[w].state \in {"absent", "up", "down"} /\ node[w].drain \in BOOLEAN
      BY NodeValues, Zenon DEF TypeOK
    <2>2. QED
      BY <2>1, Zenon DEF Report, Reports
  <1>2. QED
    BY <1>1, Zenon

\* Reading the jobs starts a pass.
LEMMA ReadJobsStep ==
  ASSUME TypeOK, Visits, ReadJobs
  PROVE  /\ TypeOK' /\ Visits' /\ UNCHANGED <<pod, joined, node, at>>
         /\ cluster' = "live" /\ pass'.pc = "read" /\ pass'.nodes = pass.nodes
         /\ pass'.creates = pass.creates
  <1> DEFINE J == {j \in Jobs : job[j] = "pending"}
  <1>1. pass' = [pass EXCEPT !.pc = "read", !.jobs = J] /\ J \in SUBSET Jobs
    BY DEF ReadJobs
  <1>2. cluster = "live" /\ UNCHANGED <<cluster, pod, claims, joined, node, job, at, aged, faults>>
    BY Zenon DEF ReadJobs, kube, slurm
  <1> HIDE DEF J
  <1>3. /\ pass' \in Passes /\ pass'.pc = "read" /\ pass'.nodes = pass.nodes
        /\ pass'.creates = pass.creates
    BY <1>1, Zenon DEF TypeOK, Passes
  <1>4. TypeOK'
    BY <1>2, <1>3 DEF TypeOK
  <1>5. Visits'
    BY <1>3 DEF Visits
  <1>6. QED
    BY <1>2, <1>3, <1>4, <1>5, Zenon

\* What a pass has after it has read the workers.
HasRead == /\ pass'.list \in Cached /\ pass'.nodes = [w \in Workers |-> Report(w)]
           /\ pass'.creates = pass.creates

\* Reading the workers.
LEMMA ReadWorkersStep ==
  ASSUME TypeOK, Visits, ReadWorkers
  PROVE  /\ TypeOK' /\ Visits' /\ UNCHANGED <<cluster, pod, joined, node, at>>
         /\ pass.pc = "read" /\ pass'.pc = "inspect" /\ HasRead
  <1> DEFINE R == [w \in Workers |-> Report(w)]
  <1>1. PICK list \in Cached :
          pass' = [pass EXCEPT !.pc = "inspect", !.list = list, !.nodes = R,
                               !.todo = Present(list)]
    BY Zenon DEF ReadWorkers
  <1>2. pass.pc = "read" /\ UNCHANGED <<cluster, pod, claims, joined, node, job, at, aged, faults>>
    BY DEF ReadWorkers, kube, slurm, At
  <1>3. list \in Lists /\ R \in [Workers -> Reports] /\ Present(list) \in SUBSET Workers
    BY CachedLists, Reported, Zenon DEF Present
  <1> HIDE DEF R
  <1>4. /\ pass' \in Passes /\ pass'.pc = "inspect" /\ pass'.nodes = R
        /\ pass'.list = list /\ pass'.todo = Present(list) /\ pass'.creates = pass.creates
    BY <1>1, <1>3, Zenon DEF TypeOK, Passes, Lists
  <1>5. TypeOK'
    BY <1>2, <1>4 DEF TypeOK
  <1>6. Visits'
    BY <1>4 DEF Visits, Present
  <1>7. QED
    BY <1>2, <1>4, <1>5, <1>6 DEF HasRead, R

\* The start of a pass for a cluster that is being deleted, or its end when no
\* worker is left.
LEMMA CleanupClusterStep ==
  ASSUME TypeOK, Visits, CleanupClusterWorkers
  PROVE  /\ TypeOK' /\ Visits' /\ UNCHANGED <<pod, joined, node, at>>
         /\ pass.pc = "idle"
         /\ \/ /\ cluster' = "gone" /\ pass'.pc = "idle" /\ pass'.nodes = NoReports
               /\ pass'.creates = {}
               /\ ~Lag => \A w \in Workers : pod[w] = NoPod
            \/ cluster' = "deleting" /\ pass'.pc = "delete" /\ HasRead
  <1> DEFINE R == [w \in Workers |-> Report(w)]
  <1>1. PICK list \in Cached :
          IF Present(list) = {}
          THEN cluster' = "gone" /\ pass' = Idle(NoList)
          ELSE /\ pass' = [pass EXCEPT !.pc = "delete", !.list = list, !.nodes = R,
                                       !.todo = Present(list)]
               /\ UNCHANGED cluster
    BY Zenon DEF CleanupClusterWorkers
  <1>2. /\ pass.pc = "idle" /\ cluster = "deleting"
        /\ UNCHANGED <<pod, claims, joined, node, job, at, aged, faults>>
    BY DEF CleanupClusterWorkers, kube, slurm, At
  <1>3. /\ list \in Lists /\ (~Lag => list = pod) /\ R \in [Workers -> Reports]
        /\ Present(list) \in SUBSET Workers
    BY CachedLists, Reported DEF Present
  <1> HIDE DEF R
  <1>4. CASE Present(list) = {}
    <2>1. cluster' = "gone" /\ pass' = Idle(NoList)
      BY <1>1, <1>4, Zenon
    <2>2. /\ pass' \in Passes /\ pass'.pc = "idle" /\ pass'.nodes = NoReports
          /\ pass'.creates = {}
      BY <2>1, IdlePass, NothingRead, Zenon DEF Idle
    <2>3. ~Lag => \A w \in Workers : pod[w] = NoPod
      BY <1>3, <1>4, Zenon DEF Present
    <2>4. TypeOK'
      BY <1>2, <2>1, <2>2, Zenon DEF TypeOK
    <2>5. Visits'
      BY <2>2, Zenon DEF Visits
    <2>6. QED
      BY <1>2, <2>1, <2>2, <2>3, <2>4, <2>5, Zenon
  <1>5. CASE Present(list) # {}
    <2>1. pass' = [pass EXCEPT !.pc = "delete", !.list = list, !.nodes = R,
                               !.todo = Present(list)] /\ cluster' = cluster
      BY <1>1, <1>5
    <2>2. /\ pass' \in Passes /\ pass'.pc = "delete" /\ pass'.nodes = R
          /\ pass'.list = list /\ pass'.todo = Present(list) /\ pass'.creates = pass.creates
      BY <2>1, <1>3, Zenon DEF TypeOK, Passes, Lists
    <2>3. TypeOK'
      BY <1>2, <2>1, <2>2 DEF TypeOK
    <2>4. Visits'
      BY <2>2, Zenon DEF Visits, Present
    <2>5. QED
      BY <1>2, <2>1, <2>2, <2>3, <2>4, Zenon DEF HasRead, R
  <1>6. QED
    BY <1>4, <1>5, Zenon

\* From one loop of a pass to the next.
LEMMA ProceedStep ==
  ASSUME TypeOK, Visits, Proceed
  PROVE  /\ TypeOK' /\ Visits' /\ UNCHANGED <<cluster, pod, joined, node, at>>
         /\ \/ Ends
            \/ /\ pass'.nodes = pass.nodes /\ pass'.creates = pass.creates
               /\ \/ /\ pass.pc = "inspect" /\ pass'.pc = "orphans"
                     /\ pass'.list = pass.list
                  \/ /\ pass.pc = "orphans" /\ pass'.pc = "create"
                     /\ pass'.counts = [p \in Pools |->
                                          Cardinality({w \in Counted : pass.list[w].pool = p})]
                  \/ pass.pc = "create" /\ pass'.pc = "scale" /\ pass.creates = {}
  <1>1. UNCHANGED <<cluster, pod, claims, joined, node, job, at, aged, faults>>
    BY DEF Proceed, kube, slurm
  <1>2. pass' \in Passes /\ Visits' => TypeOK' /\ Visits'
    BY <1>1 DEF TypeOK
  <1>3. CASE At("inspect") /\ pass' = [pass EXCEPT !.pc = "orphans", !.todo = Orphaned]
    <2>1. Orphaned \in SUBSET Workers
      BY DEF Orphaned
    <2>2. /\ pass' \in Passes /\ pass'.pc = "orphans" /\ pass'.nodes = pass.nodes
          /\ pass'.creates = pass.creates /\ pass'.list = pass.list
      BY <1>3, <2>1, Zenon DEF TypeOK, Passes
    <2>3. Visits' /\ pass.pc = "inspect"
      BY <1>3, <2>2 DEF Visits, At
    <2>4. QED
      BY <1>1, <1>2, <2>2, <2>3, Zenon
  <1> DEFINE C == [p \in Pools |-> Cardinality({w \in Counted : pass.list[w].pool = p})]
  <1>4. CASE At("orphans") /\ pass' = [pass EXCEPT !.pc = "create", !.counts = C]
    <2>1. C \in [Pools -> Nat]
      <3>1. ASSUME NEW p \in Pools
            PROVE  Cardinality({w \in Counted : pass.list[w].pool = p}) \in Nat
        <4>1. {w \in Counted : pass.list[w].pool = p} \subseteq Workers
          BY DEF Counted
        <4>2. QED
          BY <4>1, JobsFinite, FS_Subset, FS_CardinalityType, Zenon
      <3>2. QED
        BY <3>1
    <2> HIDE DEF C
    <2>2. /\ pass' \in Passes /\ pass'.pc = "create" /\ pass'.nodes = pass.nodes
          /\ pass'.creates = pass.creates /\ pass'.counts = C
      BY <1>4, <2>1, Zenon DEF TypeOK, Passes
    <2>3. Visits' /\ pass.pc = "orphans"
      BY <1>4, <2>2 DEF Visits, At
    <2>4. QED
      BY <1>1, <1>2, <2>2, <2>3 DEF C
  <1>5. CASE /\ At("create") /\ pass.creates = {}
             /\ pass' = [pass EXCEPT !.pc = "scale", !.todo = Present(pass.list), !.counts = None]
    <2>1. Present(pass.list) \in SUBSET Workers /\ None \in [Pools -> Nat]
      BY DEF Present, None
    <2>2. /\ pass' \in Passes /\ pass'.pc = "scale" /\ pass'.nodes = pass.nodes
          /\ pass'.creates = pass.creates /\ pass'.list = pass.list
          /\ pass'.todo = Present(pass.list)
      BY <1>5, <2>1, Zenon DEF TypeOK, Passes
    <2>3. Visits' /\ pass.pc = "create"
      BY <1>5, <2>2 DEF Visits, At, Present
    <2>4. QED
      BY <1>1, <1>2, <1>5, <2>2, <2>3
  <1>6. CASE Stop
    <2>1. Ends
      BY <1>6, StopEnds, Zenon
    <2>2. QED
      BY <1>1, <1>2, <2>1, SteadyPass
  <1>7. QED
    BY <1>3, <1>4, <1>5, <1>6, Zenon DEF Proceed

\* Planning a group: what is to be created fits, or nothing is.
LEMMA PlanGroupStep ==
  ASSUME TypeOK, Visits, PlanGroup
  PROVE  /\ TypeOK' /\ Visits' /\ UNCHANGED <<cluster, pod, joined, node, at>>
         /\ pass.pc = "create" /\ pass'.pc = "create" /\ pass'.nodes = pass.nodes
         /\ pass'.counts = pass.counts
         /\ pass'.creates = {} \/ Fits(pass'.creates)
  <1>1. PICK j \in pass.jobs :
          LET group   == {i \in pass.jobs : Group[i] = Group[j]}
              placed  == PlaceGroup(group)
              creates == group \ placed.served IN
          pass' = IF Fits(creates)
                  THEN [pass EXCEPT !.jobs = @ \ group, !.creates = creates,
                                    !.assigned = @ \cup (Candidates \cap placed.used)]
                  ELSE [pass EXCEPT !.jobs = @ \ group]
    BY Zenon DEF PlanGroup
  <1>2. /\ pass.pc = "create" /\ pass.creates = {}
        /\ UNCHANGED <<cluster, pod, claims, joined, node, job, at, aged, faults>>
    BY DEF PlanGroup, kube, slurm, At
  <1> DEFINE group == {i \in pass.jobs : Group[i] = Group[j]}
             c     == group \ PlaceGroup(group).served
             r     == pass.jobs \ group
             a     == pass.assigned \cup (Candidates \cap PlaceGroup(group).used)
  <1>3. \/ Fits(c) /\ pass' = [pass EXCEPT !.jobs = r, !.creates = c, !.assigned = a]
        \/ pass' = [pass EXCEPT !.jobs = r]
    BY <1>1, Zenon
  <1>4. c \in SUBSET Jobs /\ r \in SUBSET Jobs /\ a \in SUBSET Workers
    <2>1. pass.jobs \in SUBSET Jobs /\ pass.assigned \in SUBSET Workers
      BY PassFields, Zenon DEF TypeOK
    <2>2. Candidates \subseteq Workers
      BY DEF Candidates, Counted
    <2>3. QED
      BY <2>1, <2>2, Zenon
  <1> HIDE DEF c, r, a
  <1>5. /\ pass' \in Passes /\ pass'.pc = "create" /\ pass'.nodes = pass.nodes
        /\ pass'.counts = pass.counts
        /\ (Fits(c) /\ pass'.creates = c) \/ pass'.creates = {}
    BY <1>2, <1>3, <1>4, Zenon DEF TypeOK, Passes
  <1>6. TypeOK'
    BY <1>2, <1>5 DEF TypeOK
  <1>7. Visits'
    BY <1>5 DEF Visits
  <1>8. QED
    BY <1>2, <1>5, <1>6, <1>7, Zenon

\* What createWorker does for job j: nothing, or a Pod under a free name, which
\* is counted if the pass goes on.
Creates(j) ==
    \/ Ends /\ pod' = pod
    \/ \E w \in FreeNames :
         /\ pod' = [pod EXCEPT ![w] = NewPod(j)]
         /\ \/ Ends
            \/ /\ pass'.pc = "create" /\ pass'.nodes = pass.nodes
               /\ pass'.creates = pass.creates \ {j}
               /\ pass'.counts = [pass.counts EXCEPT ![Pool[j]] = @ + 1]

\* Creating a worker.
LEMMA CreateWorkerStep ==
  ASSUME TypeOK, Visits, CreateWorker
  PROVE  /\ TypeOK' /\ Visits' /\ UNCHANGED <<cluster, joined, node, at>>
         /\ pass.pc = "create" /\ \E j \in pass.creates : Creates(j)
  <1> DEFINE limit == IF FreeNames = {} THEN 0 ELSE 2
  <1>1. PICK j \in pass.creates, k \in 0 .. limit :
          /\ Calls(k, limit)
          /\ \/ k = 0 /\ Stop /\ UNCHANGED <<pod, claims>>
             \/ \E w \in FreeNames :
                  /\ pod' = [pod EXCEPT ![w] = NewPod(j)]
                  /\ IF k = 1 THEN UNCHANGED claims /\ Stop
                     ELSE /\ claims' = claims \cup {w}
                          /\ pass' = [pass EXCEPT !.creates = @ \ {j},
                                                  !.counts[Pool[j]] = @ + 1]
    BY Zenon DEF CreateWorker
  <1>2. pass.pc = "create" /\ UNCHANGED <<cluster, joined, node, job, at, aged>>
    BY DEF CreateWorker, slurm, At
  <1>3. faults' \in 0 .. MaxFaults
    BY <1>1, CallsBound, Zenon
  <1>4. j \in Jobs /\ pass.creates \in SUBSET Jobs /\ pass.counts \in [Pools -> Nat]
    BY PassFields, Zenon DEF TypeOK
  <1>5. NewPod(j) \in Pods /\ Pool[j] \in Pools
    BY <1>4, NewPodFields, WorkersAssumption, Zenon
  <1>6. CASE Stop /\ UNCHANGED <<pod, claims>>
    <2>1. Ends /\ pod' = pod /\ claims' = claims
      BY <1>6, StopEnds
    <2>2. pass' \in Passes /\ Visits'
      BY <2>1, SteadyPass, Zenon
    <2>3. TypeOK'
      BY <1>2, <1>3, <2>1, <2>2, Zenon DEF TypeOK
    <2>4. QED
      BY <1>2, <2>1, <2>2, <2>3 DEF Creates
  <1>7. ASSUME NEW w \in FreeNames, pod' = [pod EXCEPT ![w] = NewPod(j)],
               claims' = claims, Stop
        PROVE  TypeOK' /\ Visits' /\ Creates(j)
    <2>1. Ends
      BY <1>7, StopEnds
    <2>2. pass' \in Passes /\ Visits'
      BY <2>1, SteadyPass
    <2>3. TypeOK'
      BY <1>2, <1>3, <1>5, <1>7, <2>2, Zenon DEF TypeOK
    <2>4. QED
      BY <1>7, <2>1, <2>2, <2>3, Zenon DEF Creates
  <1>8. ASSUME NEW w \in FreeNames, pod' = [pod EXCEPT ![w] = NewPod(j)],
               claims' = claims \cup {w},
               pass' = [pass EXCEPT !.creates = @ \ {j}, !.counts[Pool[j]] = @ + 1]
        PROVE  TypeOK' /\ Visits' /\ Creates(j)
    <2> DEFINE C == [pass.counts EXCEPT ![Pool[j]] = @ + 1]
               N == pass.creates \ {j}
    <2>1. pass' = [pass EXCEPT !.creates = N, !.counts = C]
      BY <1>8, Zenon DEF TypeOK, Passes
    <2>2. C \in [Pools -> Nat] /\ N \in SUBSET Jobs
      BY <1>4, <1>5
    <2> HIDE DEF C, N
    <2>3. /\ pass' \in Passes /\ pass'.pc = "create" /\ pass'.nodes = pass.nodes
          /\ pass'.creates = N /\ pass'.counts = C
      BY <1>2, <2>1, <2>2, Zenon DEF TypeOK, Passes
    <2>4. w \in Workers
      BY DEF FreeNames
    <2>5. TypeOK'
      BY <1>2, <1>3, <1>5, <1>8, <2>3, <2>4 DEF TypeOK
    <2>6. Visits'
      BY <2>3, Zenon DEF Visits
    <2>7. Creates(j)
      BY <1>8, <2>3, Zenon DEF Creates, C, N
    <2>8. QED
      BY <2>5, <2>6, <2>7
  <1>9. QED
    BY <1>1, <1>2, <1>6, <1>7, <1>8

\* A slurmd that registers.
LEMMA RegisterStep ==
  ASSUME TypeOK, Visits, NEW w \in Workers, Register(w)
  PROVE  /\ TypeOK' /\ Visits' /\ UNCHANGED <<cluster, pod, at, pass>>
         /\ w \notin joined /\ joined' = joined \cup {w}
         /\ \A v \in Workers \ {w} : node'[v] = node[v]
  <1>1. /\ UNCHANGED <<cluster, pod, claims, job, at, aged, pass, faults>>
        /\ w \notin joined /\ joined' = joined \cup {w}
        /\ node' = [node EXCEPT ![w] = [state |-> "up", drain |-> FALSE]]
    BY DEF Register
  <1>2. TypeOK'
    BY <1>1, NodeValues, Zenon DEF TypeOK
  <1>3. Visits'
    BY <1>1, Zenon DEF Visits, Present
  <1>4. QED
    BY <1>1, <1>2, <1>3 DEF TypeOK

\* Jobs that start, on nodes that are up and not drained.
LEMMA StartStep ==
  ASSUME TypeOK, Visits, NEW g, Start(g)
  PROVE  /\ TypeOK' /\ Visits' /\ UNCHANGED <<cluster, pod, joined, node, pass>>
         /\ \A j \in Jobs : \/ at'[j] = at[j]
                            \/ node[at'[j]] = [state |-> "up", drain |-> FALSE]
  <1>1. UNCHANGED <<cluster, pod, claims, joined, node, aged, pass, faults>>
    BY Zenon DEF Start, kube
  <1>2. PICK place \in [Members(g) -> Workers] :
          /\ \A j \in Members(g) : place[j] \in Startable(j)
          /\ job' = [j \in Jobs |-> IF j \in Members(g) THEN "running" ELSE job[j]]
          /\ at' = [j \in Jobs |-> IF j \in Members(g) THEN place[j] ELSE at[j]]
    BY Zenon DEF Start
  <1>3. TypeOK'
    BY <1>1, <1>2 DEF TypeOK
  <1>4. Visits'
    BY <1>1, Zenon DEF Visits, Present
  <1>5. \A j \in Jobs : \/ at'[j] = at[j]
                        \/ node[at'[j]] = [state |-> "up", drain |-> FALSE]
    BY <1>2, Zenon DEF Startable
  <1>6. QED
    BY <1>1, <1>3, <1>4, <1>5, Zenon

-----------------------------------------------------------------------------
(* Type correctness *)

\* Every step is steady or one of the eight others.
LEMMA StepKinds ==
  ASSUME TypeOK, Visits, [Next]_vars
  PROVE  \/ TypeOK' /\ Visits' /\ Steady
         \/ ReadJobs \/ ReadWorkers \/ CleanupClusterWorkers \/ Proceed \/ PlanGroup
         \/ CreateWorker \/ (\E w \in Workers : Register(w)) \/ (\E g \in GroupIDs : Start(g))
  <1>1. CASE UNCHANGED vars
    <2>1. UNCHANGED <<cluster, pod, claims, joined, slurm, aged, pass, faults>>
      BY <1>1 DEF vars, kube
    <2>2. QED
      BY <2>1, PassSteady, Zenon DEF TypeOK
  <1>2. CASE Operate
    BY <1>2, VisitSteady DEF Operate
  <1>3. CASE AbandonPass
    BY <1>3, AbandonSteady, Zenon
  <1>4. CASE \E w \in Workers : Tend(w) \/ PodFault(w) \/ LoseClaim(w) \/ TakeForRecovery(w)
    BY <1>4, BecomeReadySteady, TerminateSteady, AgeSteady, RecoveryRemovesSteady,
       NoticeDeadSteady, PodFaultSteady, LoseClaimSteady, TakeForRecoverySteady DEF Tend
  <1>5. CASE \E g \in GroupIDs : Submit(g) \/ Cancel(g) \/ Start(g) \/ Finish(g)
    BY <1>5, UserSteady, Zenon
  <1>6. CASE DeleteCluster
    BY <1>6, DeleteClusterSteady, Zenon
  <1>7. QED
    BY <1>1, <1>2, <1>3, <1>4, <1>5, <1>6, Zenon DEF Next

\* Types, and what a pass visits, are inductive.
LEMMA TypeStep ==
  ASSUME TypeOK, Visits, [Next]_vars
  PROVE  TypeOK' /\ Visits'
  BY StepKinds, ReadJobsStep, ReadWorkersStep, CleanupClusterStep, ProceedStep,
     PlanGroupStep, CreateWorkerStep, RegisterStep, StartStep, Zenon

\* At the start nothing is read, and no worker exists.
LEMMA TypeInit ==
  ASSUME Init
  PROVE  TypeOK /\ Visits
  <1>1. pass \in Passes /\ pass.pc = "idle"
    BY IdlePass, NothingRead DEF Init
  <1>2. pod \in Lists
    BY NothingRead, Zenon DEF Init
  <1>3. TypeOK
    BY <1>1, <1>2, NodeValues, WorkersAssumption DEF Init, TypeOK, Lists
  <1>4. QED
    BY <1>1, <1>3, Zenon DEF Visits

\* Type correctness of Workers, and no pass of reconcileWorkers or
\* cleanupClusterWorkers touches a Pod that it has not listed.
THEOREM TypeCorrect == Spec => [](TypeOK /\ Visits)
  <1>1. Init => TypeOK /\ Visits
    BY TypeInit
  <1>2. (TypeOK /\ Visits) /\ [Next]_vars => (TypeOK /\ Visits)'
    BY TypeStep, Zenon
  <1>3. QED
    BY <1>1, <1>2, PTL DEF Spec

-----------------------------------------------------------------------------
(* No busy worker is taken down *)

\* A node that Slurm knows and whose Pod exists belongs to that Pod.
Joined == \A w \in Workers : pod[w] # NoPod /\ node[w].state # "absent" => w \in joined

\* A worker that the pass has seen drained and idle has no job and gets none: it
\* is drained still, or deleted, and its slurmd does not register again.
Quiet ==
    \A w \in Workers :
        NodeIdle(pass.nodes[w]) /\ pass.nodes[w].drain /\ pod[w] # NoPod =>
            /\ w \in joined /\ (node[w].drain \/ node[w].state = "absent")
            /\ \A j \in Jobs : at[j] # w

\* A pass that knows no node knows no idle one.
LEMMA NoReportsIdle ==
  ASSUME NEW w \in Workers
  PROVE  ~NodeIdle(NoReports[w])
  BY NothingRead DEF NodeIdle

\* A steady step leaves a drained and idle worker drained and idle.
LEMMA QuietSteady ==
  ASSUME TypeOK, Joined, Quiet, Steady
  PROVE  Joined' /\ Quiet'
  <1>1. Joined'
    BY Zenon DEF Joined, Steady, Ages, Settles
  <1>2. pass'.nodes = pass.nodes \/ pass'.nodes = NoReports
    BY IdlePass, Zenon DEF Steady, Ends, Carries
  <1>3. ASSUME NEW w \in Workers, NodeIdle(pass.nodes[w]), pass.nodes[w].drain, pod'[w] # NoPod
        PROVE  /\ w \in joined' /\ (node'[w].drain \/ node'[w].state = "absent")
               /\ \A j \in Jobs : at'[j] # w
    <2>1. Ages(w) /\ Settles(w)
      BY Zenon DEF Steady
    <2>2. /\ w \in joined /\ (node[w].drain \/ node[w].state = "absent")
          /\ \A j \in Jobs : at[j] # w
      BY <1>3, <2>1, Zenon DEF Quiet, Ages
    <2>3. w # 0
      BY WorkersAssumption, Zenon
    <2>4. \A j \in Jobs : at'[j] # w
      BY <2>2, <2>3, Zenon DEF Steady
    <2>5. QED
      BY <1>3, <2>1, <2>2, <2>4, Zenon DEF Ages, Settles
  <1>4. Quiet'
    BY <1>2, <1>3, NoReportsIdle DEF Quiet, NodeIdle
  <1>5. QED
    BY <1>1, <1>4, Zenon

\* So does the reading of the nodes: what it sees drained and idle is.
LEMMA QuietRead ==
  ASSUME TypeOK, Joined, UNCHANGED <<pod, joined, node, at>>,
         pass'.nodes = [w \in Workers |-> Report(w)]
  PROVE  Joined' /\ Quiet'
  <1>1. Joined'
    BY Zenon DEF Joined
  <1>2. ASSUME NEW w \in Workers, NodeIdle(pass'.nodes[w]), pass'.nodes[w].drain, pod[w] # NoPod
        PROVE  w \in joined /\ node[w].drain /\ \A j \in Jobs : at[j] # w
    <2>1. pass'.nodes[w] = Report(w)
      OBVIOUS
    <2>2. node[w].state = "up" /\ node[w].drain /\ ~\E j \in Jobs : at[j] = w
      BY <1>2, <2>1 DEF NodeIdle, Report
    <2>3. QED
      BY <1>2, <2>2 DEF Joined
  <1>3. Quiet'
    BY <1>2, Zenon DEF Quiet, NodeIdle
  <1>4. QED
    BY <1>1, <1>3, Zenon

\* So does a step that changes none of this.
LEMMA QuietSame ==
  ASSUME Joined, Quiet, UNCHANGED <<pod, joined, node, at>>,
         pass'.nodes = pass.nodes \/ pass'.nodes = NoReports
  PROVE  Joined' /\ Quiet'
  <1>1. Joined'
    BY Zenon DEF Joined
  <1>2. Quiet'
    BY NoReportsIdle DEF Quiet, NodeIdle
  <1>3. QED
    BY <1>1, <1>2, Zenon

\* So does the creation of a worker, whose name Slurm does not know.
LEMMA QuietCreate ==
  ASSUME TypeOK, Joined, Quiet, UNCHANGED <<joined, node, at>>, NEW j, Creates(j)
  PROVE  Joined' /\ Quiet'
  <1>1. pass'.nodes = pass.nodes \/ pass'.nodes = NoReports
    BY IdlePass DEF Creates, Ends
  <1>2. CASE pod' = pod
    BY <1>1, <1>2, QuietSame, Zenon
  <1>3. ASSUME NEW w \in FreeNames, pod' = [pod EXCEPT ![w] = NewPod(j)]
        PROVE  Joined' /\ Quiet'
    <2>1. /\ node[w].state = "absent" /\ ~NodeIdle(pass.nodes[w])
          /\ \A v \in Workers \ {w} : pod'[v] = pod[v]
      BY <1>3, NodeValues, Zenon DEF FreeNames, Registered, NodeIdle, TypeOK
    <2>2. Joined'
      BY <2>1, Zenon DEF Joined
    <2>3. Quiet'
      BY <1>1, <2>1, NoReportsIdle DEF Quiet, NodeIdle
    <2>4. QED
      BY <2>2, <2>3, Zenon
  <1>4. QED
    BY <1>2, <1>3, Zenon DEF Creates

\* So does a registration, as the slurmd of a drained worker has registered.
LEMMA QuietRegister ==
  ASSUME TypeOK, Visits, Joined, Quiet, NEW w \in Workers, Register(w)
  PROVE  Joined' /\ Quiet'
  <1>1. /\ UNCHANGED <<pod, at, pass>> /\ w \notin joined /\ joined' = joined \cup {w}
        /\ \A v \in Workers \ {w} : node'[v] = node[v]
    BY RegisterStep, Zenon
  <1>2. Joined'
    BY <1>1, Zenon DEF Joined
  <1>3. Quiet'
    BY <1>1 DEF Quiet, NodeIdle
  <1>4. QED
    BY <1>2, <1>3, Zenon

\* So does the start of jobs, as a drained node gets none.
LEMMA QuietStart ==
  ASSUME TypeOK, Visits, Joined, Quiet, NEW g, Start(g)
  PROVE  Joined' /\ Quiet'
  <1>1. /\ UNCHANGED <<pod, joined, node, pass>>
        /\ \A j \in Jobs : \/ at'[j] = at[j]
                           \/ node[at'[j]] = [state |-> "up", drain |-> FALSE]
    BY StartStep, Zenon
  <1>2. Joined'
    BY <1>1, Zenon DEF Joined
  <1>3. Quiet'
    BY <1>1 DEF Quiet, NodeIdle
  <1>4. QED
    BY <1>2, <1>3, Zenon

\* What a pass takes for idle stays idle, whatever step is taken.
LEMMA QuietStep ==
  ASSUME TypeOK, Visits, Joined, Quiet, [Next]_vars
  PROVE  Joined' /\ Quiet'
  <1>1. CASE Steady
    BY <1>1, QuietSteady, Zenon
  <1>2. CASE ReadJobs
    BY <1>2, ReadJobsStep, QuietSame, Zenon
  <1>3. CASE ReadWorkers
    BY <1>3, ReadWorkersStep, QuietRead, Zenon DEF HasRead
  <1>4. CASE CleanupClusterWorkers
    BY <1>4, CleanupClusterStep, QuietRead, QuietSame, Zenon DEF HasRead
  <1>5. CASE Proceed
    BY <1>5, ProceedStep, IdlePass, QuietSame, Zenon DEF Ends
  <1>6. CASE PlanGroup
    BY <1>6, PlanGroupStep, QuietSame
  <1>7. CASE CreateWorker
    BY <1>7, CreateWorkerStep, QuietCreate
  <1>8. QED
    BY <1>1, <1>2, <1>3, <1>4, <1>5, <1>6, <1>7, StepKinds, QuietRegister, QuietStart, Zenon

\* cleanupWorker drops the finalizer of a registered worker only when nothing
\* runs on it, though what it knows of the node is as old as the pass, whether
\* the cache of Pods lags or not.
THEOREM NoBusyWorkerTaken == Spec => NoBusyWorkerTakenDown
  <1> DEFINE Inv == TypeOK /\ Visits /\ Joined /\ Quiet
             Idles == \A w \in Workers :
                        (pod[w] # NoPod /\ pod[w].fin /\ pod'[w] # NoPod /\ ~pod'[w].fin
                           /\ Registered(w))
                        => \A j \in Jobs : at[j] # w \/ ~Running(w)
  <1>1. Init => Inv
    <2>1. Init => Joined
      BY NodeValues, Zenon DEF Init, Joined
    <2>2. ASSUME Init PROVE Quiet
      <3>1. pass.nodes = NoReports
        BY <2>2, IdlePass, NothingRead DEF Init
      <3>2. QED
        BY <3>1, NoReportsIdle, Zenon DEF Quiet
    <2>3. QED
      BY <2>1, <2>2, TypeInit
  <1>2. Inv /\ [Next]_vars => Inv'
    BY TypeStep, QuietStep, Zenon
  <1>3. Inv /\ [Next]_vars => Idles
    <2> SUFFICES ASSUME Inv, [Next]_vars, NEW w \in Workers, pod[w] # NoPod, pod[w].fin,
                        pod'[w] # NoPod, ~pod'[w].fin, Registered(w)
                 PROVE  \A j \in Jobs : at[j] # w
      OBVIOUS
    <2>1. CASE Steady
      <3>1. NodeIdle(pass.nodes[w]) /\ pass.nodes[w].drain
        BY <2>1, Zenon DEF Steady, Ages
      <3>2. QED
        BY <3>1, Zenon DEF Quiet
    <2>2. CASE pod' = pod
      BY <2>2, Zenon
    <2>3. CASE CreateWorker
      <3>1. PICK j : Creates(j)
        BY <2>3, CreateWorkerStep, Zenon
      <3>2. pod' = pod \/ \E v \in FreeNames : pod' = [pod EXCEPT ![v] = NewPod(j)]
        BY <3>1 DEF Creates
      <3>3. QED
        BY <3>2, Zenon DEF FreeNames, TypeOK
    <2>4. QED
      BY <2>1, <2>2, <2>3, StepKinds, ReadJobsStep, ReadWorkersStep, CleanupClusterStep,
         ProceedStep, PlanGroupStep, RegisterStep, StartStep, Zenon
  <1>4. QED
    BY <1>1, <1>2, <1>3, PTL DEF Spec, NoBusyWorkerTakenDown

-----------------------------------------------------------------------------
(* The limits of the pools *)

\* What occupies a pool was counted, as long as the pass creates nothing.
Seen ==
    pass.pc \in {"inspect", "orphans"} =>
        \A p \in Pools : \A w \in Occupying(p) : w \in Counted /\ pass.list[w].pool = p

\* While it creates, counts is an upper bound, and what the group still lacks
\* fits on top of it.
Room ==
    pass.pc = "create" =>
        \A p \in Pools :
            /\ Cardinality(Occupying(p)) <= pass.counts[p]
            /\ InPool(pass.creates, p) # {} =>
                 pass.counts[p] + Cardinality(InPool(pass.creates, p)) <= MaxWorkers[p]

\* Nothing is planned before and after.
Unplanned == pass.pc # "create" => pass.creates = {}

\* When the cluster is gone no pass runs and no worker Pod is left.
Cleared == cluster = "gone" => At("idle") /\ \A w \in Workers : pod[w] = NoPod

Limits == WithinMaxWorkers /\ Seen /\ Room /\ Unplanned /\ Cleared

\* The number of Pods in a pool, and of Pods to create in it.
LEMMA PoolCounts ==
  ASSUME NEW p, pass \in Passes
  PROVE  /\ IsFiniteSet(Occupying(p)) /\ Cardinality(Occupying(p)) \in Nat
         /\ IsFiniteSet(InPool(pass.creates, p))
         /\ Cardinality(InPool(pass.creates, p)) \in Nat
  <1>1. Occupying(p) \subseteq Workers
    BY Zenon DEF Occupying
  <1>2. InPool(pass.creates, p) \subseteq Jobs
    BY PassFields DEF InPool
  <1>3. QED
    BY <1>1, <1>2, JobsFinite, FS_Subset, FS_CardinalityType

\* A pool in which no Pod appears is not fuller.
LEMMA PoolShrinks ==
  ASSUME pass \in Passes, NEW p, Occupying(p)' \subseteq Occupying(p)
  PROVE  /\ Cardinality(Occupying(p)') \in Nat
         /\ Cardinality(Occupying(p)') <= Cardinality(Occupying(p))
  BY PoolCounts, FS_Subset, FS_CardinalityType

\* What only ages occupies no more.
LEMMA AgesOccupying ==
  ASSUME TypeOK, TypeOK', \A w \in Workers : Ages(w), NEW p
  PROVE  Occupying(p)' \subseteq Occupying(p)
  <1>1. ASSUME NEW w \in Occupying(p)' PROVE w \in Occupying(p)
    <2>1. /\ w \in Workers /\ pod'[w] # NoPod /\ pod'[w].pool = p /\ ~pod'[w].deleting
          /\ ~pod'[w].rec /\ pod'[w].up # "failed"
      BY <1>1 DEF Occupying
    <2>2. QED
      BY <2>1 DEF Ages, Occupying
  <1>2. QED
    BY <1>1, Zenon

\* The limits hold after a step in which no Pod appears and nothing is planned.
LEMMA LimitsShrink ==
  ASSUME TypeOK, TypeOK', WithinMaxWorkers, \A p \in Pools : Occupying(p)' \subseteq Occupying(p)
  PROVE  WithinMaxWorkers'
  <1>1. ASSUME NEW p \in Pools
        PROVE  Cardinality(Occupying(p)') <= MaxWorkers[p]
    <2>1. /\ Cardinality(Occupying(p)') \in Nat /\ Cardinality(Occupying(p)) \in Nat
          /\ Cardinality(Occupying(p)') <= Cardinality(Occupying(p))
      BY PoolCounts, PoolShrinks, Zenon DEF TypeOK
    <2>2. MaxWorkers[p] \in Nat /\ Cardinality(Occupying(p)) <= MaxWorkers[p]
      BY WorkersAssumption DEF WithinMaxWorkers
    <2>3. QED
      BY <2>1, <2>2
  <1>2. QED
    BY <1>1, Zenon DEF WithinMaxWorkers

\* A steady step keeps the limits.
LEMMA LimitsSteady ==
  ASSUME TypeOK, TypeOK', Limits, Steady
  PROVE  Limits'
  <1>1. \A p \in Pools : Occupying(p)' \subseteq Occupying(p)
    BY AgesOccupying DEF Steady
  <1>2. WithinMaxWorkers'
    BY <1>1, LimitsShrink, Zenon DEF Limits
  <1>3. CASE Ends
    <2>1. pass'.pc = "idle" /\ pass'.creates = {}
      BY <1>3, IdlePass, Zenon DEF Ends
    <2>2. Cleared'
      BY <2>1 DEF Cleared, Limits, Steady, Ages, At
    <2>3. QED
      BY <1>2, <2>1, <2>2, Zenon DEF Limits, Seen, Room, Unplanned
  <1>4. CASE pass' = pass \/ Carries(pass')
    <2>1. /\ pass'.pc = pass.pc /\ pass'.counts = pass.counts /\ pass'.creates = pass.creates
          /\ \A w \in Workers : \/ pass'.list[w] = pass.list[w]
                                \/ /\ pass.list[w] \in Pods /\ pass'.list[w] \in Pods
                                   /\ Alike(pass.list[w], pass'.list[w])
      BY <1>4 DEF Carries
    <2>2. Seen'
      <3>1. ASSUME pass.pc \in {"inspect", "orphans"}, NEW p \in Pools, NEW w \in Occupying(p)'
            PROVE  w \in Counted' /\ pass'.list[w].pool = p
        <4>1. w \in Workers /\ w \in Counted /\ pass.list[w].pool = p
          BY <1>1, <3>1, Zenon DEF Limits, Seen, Occupying
        <4>2. QED
          BY <2>1, <4>1, NoPodIsNone, Zenon DEF Counted, Listed, Alike
      <3>2. QED
        BY <2>1, <3>1, Zenon DEF Seen
    <2>3. Room'
      <3>1. ASSUME pass.pc = "create", NEW p \in Pools
            PROVE  /\ Cardinality(Occupying(p)') <= pass.counts[p]
                   /\ InPool(pass.creates, p) # {} =>
                        pass.counts[p] + Cardinality(InPool(pass.creates, p)) <= MaxWorkers[p]
        <4>1. /\ Cardinality(Occupying(p)') \in Nat /\ Cardinality(Occupying(p)) \in Nat
              /\ Cardinality(Occupying(p)') <= Cardinality(Occupying(p))
          BY <1>1, PoolCounts, PoolShrinks, Zenon DEF TypeOK
        <4>2. pass.counts[p] \in Nat
          BY PassFields, Zenon DEF TypeOK
        <4>3. QED
          BY <3>1, <4>1, <4>2 DEF Limits, Room
      <3>2. QED
        BY <2>1, <3>1, Zenon DEF Room, InPool
    <2>4. Unplanned' /\ Cleared'
      BY <2>1, Zenon DEF Limits, Unplanned, Cleared, At, Steady, Ages
    <2>5. QED
      BY <1>2, <2>2, <2>3, <2>4, Zenon DEF Limits
  <1>5. QED
    BY <1>3, <1>4, Zenon DEF Steady

\* A step that touches no Pod and does not go on to create keeps the limits, if
\* the pass has just read the Pods or had seen them before.
LEMMA LimitsSame ==
  ASSUME TypeOK, TypeOK', Limits, pod' = pod, pass'.pc # "create", pass'.creates = {},
         \/ pass'.pc \notin {"inspect", "orphans"}
         \/ pass'.list = pod
         \/ pass.pc \in {"inspect", "orphans"} /\ pass'.list = pass.list,
         Cleared'
  PROVE  Limits'
  <1>1. \A p \in Pools : Occupying(p)' = Occupying(p)
    BY DEF Occupying
  <1>2. WithinMaxWorkers'
    BY <1>1, LimitsShrink DEF Limits
  <1>3. Seen'
    <2>1. CASE pass'.list = pod
      <3>1. ASSUME NEW p \in Pools, NEW w \in Occupying(p)
            PROVE  w \in Counted' /\ pass'.list[w].pool = p
        BY <2>1, <3>1, Zenon DEF Occupying, Counted, Listed
      <3>2. QED
        BY <1>1, <3>1 DEF Seen
    <2>2. CASE pass.pc \in {"inspect", "orphans"} /\ pass'.list = pass.list
      <3>1. Counted' = Counted
        BY <2>2 DEF Counted, Listed
      <3>2. QED
        BY <1>1, <2>2, <3>1 DEF Seen, Limits
    <2>3. CASE pass'.pc \notin {"inspect", "orphans"}
      BY <2>3, Zenon DEF Seen
    <2>4. QED
      BY <2>1, <2>2, <2>3, Zenon
  <1>4. QED
    BY <1>2, <1>3, Zenon DEF Limits, Room, Unplanned

\* Going on to create: everything that occupies a pool is counted.
LEMMA LimitsCount ==
  ASSUME TypeOK, TypeOK', Limits, UNCHANGED <<cluster, pod>>,
         pass.pc = "orphans", pass'.pc = "create", pass'.creates = pass.creates,
         pass'.counts = [p \in Pools |-> Cardinality({w \in Counted : pass.list[w].pool = p})]
  PROVE  Limits'
  <1>1. \A p \in Pools : Occupying(p)' = Occupying(p)
    BY Zenon DEF Occupying
  <1>2. WithinMaxWorkers'
    BY <1>1, LimitsShrink DEF Limits
  <1>3. ASSUME NEW p \in Pools
        PROVE  Cardinality(Occupying(p)) <= pass'.counts[p]
    <2> DEFINE S == {w \in Counted : pass.list[w].pool = p}
    <2>1. Occupying(p) \subseteq S
      BY Zenon DEF Limits, Seen
    <2>2. S \subseteq Workers
      BY DEF Counted
    <2>3. pass'.counts[p] = Cardinality(S)
      OBVIOUS
    <2> HIDE DEF S
    <2>4. QED
      BY <2>1, <2>2, <2>3, JobsFinite, FS_Subset, Zenon
  <1>4. pass'.creates = {}
    BY Zenon DEF Limits, Unplanned
  <1>5. Room'
    BY <1>1, <1>3, <1>4 DEF Room, InPool
  <1>6. Cleared'
    BY Zenon DEF Limits, Cleared, At
  <1>7. QED
    BY <1>2, <1>5, <1>6, Zenon DEF Limits, Seen, Unplanned

\* Planning a group: what it is to create fits on top of the count.
LEMMA LimitsPlan ==
  ASSUME TypeOK, TypeOK', Limits, UNCHANGED <<cluster, pod>>,
         pass.pc = "create", pass'.pc = "create", pass'.counts = pass.counts,
         pass'.creates = {} \/ Fits(pass'.creates)
  PROVE  Limits'
  <1>1. \A p \in Pools : Occupying(p)' = Occupying(p)
    BY DEF Occupying
  <1>2. WithinMaxWorkers'
    BY <1>1, LimitsShrink, Zenon DEF Limits
  <1>3. Room'
    BY <1>1, Zenon DEF Limits, Room, Fits, InPool
  <1>4. Cleared'
    BY DEF Limits, Cleared, At
  <1>5. QED
    BY <1>2, <1>3, <1>4, Zenon DEF Limits, Seen, Unplanned

\* One worker more, in the pool of the job it is created for.
LEMMA LimitsCreate ==
  ASSUME TypeOK, TypeOK', Limits, cluster' = cluster, pass.pc = "create",
         NEW j \in pass.creates, Creates(j)
  PROVE  Limits'
  <1>0. cluster # "gone"
    BY DEF Limits, Cleared, At
  <1>1. CASE Ends /\ pod' = pod
    <2>1. pass'.pc = "idle" /\ pass'.creates = {}
      BY <1>1, IdlePass, Zenon DEF Ends
    <2>2. Cleared'
      BY <1>0, Zenon DEF Cleared
    <2>3. QED
      BY <1>1, <2>1, <2>2, LimitsSame
  <1>2. ASSUME NEW w \in FreeNames, pod' = [pod EXCEPT ![w] = NewPod(j)],
               \/ Ends
               \/ /\ pass'.pc = "create" /\ pass'.creates = pass.creates \ {j}
                  /\ pass'.counts = [pass.counts EXCEPT ![Pool[j]] = @ + 1]
        PROVE  Limits'
    <2>1. /\ w \in Workers /\ pod[w] = NoPod /\ j \in Jobs /\ Pool[j] \in Pools
          /\ NewPod(j).pool = Pool[j]
      BY PassFields, NewPodFields, WorkersAssumption, Zenon DEF FreeNames, TypeOK
    <2>2. /\ \A p \in Pools \ {Pool[j]} : Occupying(p)' \subseteq Occupying(p)
          /\ Occupying(Pool[j])' \subseteq Occupying(Pool[j]) \cup {w}
          /\ w \notin Occupying(Pool[j])
      BY <1>2, <2>1, Zenon DEF Occupying, TypeOK
    <2> DEFINE q == Pool[j]
               old == Occupying(q)
               new == Occupying(q)'
               need == InPool(pass.creates, q)
    <2>3. /\ IsFiniteSet(old) /\ Cardinality(old) \in Nat
          /\ IsFiniteSet(need) /\ Cardinality(need) \in Nat
      BY PoolCounts, Zenon DEF TypeOK
    <2>4. Cardinality(new) \in Nat /\ Cardinality(new) <= Cardinality(old) + 1
      <3> DEFINE more == old \cup {w}
      <3>1. IsFiniteSet(more) /\ Cardinality(more) = Cardinality(old) + 1
        BY <2>2, <2>3, FS_AddElement, Zenon
      <3>2. new \subseteq more
        BY <2>2, Zenon
      <3> HIDE DEF more, old, new
      <3>3. IsFiniteSet(new) /\ Cardinality(new) <= Cardinality(more)
        BY <3>1, <3>2, FS_Subset
      <3>4. QED
        BY <2>3, <3>1, <3>3, FS_CardinalityType, Zenon
    <2>5. j \in need
      BY Zenon DEF InPool
    <2>6. /\ Cardinality(need \ {j}) = Cardinality(need) - 1
          /\ Cardinality(need \ {j}) \in Nat
      <3> HIDE DEF need
      <3>1. QED
        BY <2>3, <2>5, FS_RemoveElement, FS_CardinalityType, Zenon
    <2>7. /\ Cardinality(old) <= pass.counts[q]
          /\ pass.counts[q] + Cardinality(need) <= MaxWorkers[q]
          /\ pass.counts[q] \in Nat /\ MaxWorkers[q] \in Nat
      <3>1. pass.counts \in [Pools -> Nat]
        BY PassFields, Zenon DEF TypeOK
      <3>2. QED
        BY <2>1, <2>5, <3>1, WorkersAssumption, Zenon DEF Limits, Room
    <2>8. /\ Cardinality(new) <= MaxWorkers[q]
          /\ Cardinality(new) <= pass.counts[q] + 1
          /\ (pass.counts[q] + 1) + Cardinality(need \ {j}) <= MaxWorkers[q]
      <3> HIDE DEF old, new, need, q
      <3>1. QED
        BY <2>3, <2>4, <2>6, <2>7
    <2>9. WithinMaxWorkers'
      <3>1. ASSUME NEW p \in Pools \ {q} PROVE Cardinality(Occupying(p)') <= MaxWorkers[p]
        <4>1. /\ Cardinality(Occupying(p)') \in Nat /\ Cardinality(Occupying(p)) \in Nat
              /\ Cardinality(Occupying(p)') <= Cardinality(Occupying(p))
          BY <2>2, PoolCounts, PoolShrinks, Zenon DEF TypeOK
        <4>2. MaxWorkers[p] \in Nat /\ Cardinality(Occupying(p)) <= MaxWorkers[p]
          BY WorkersAssumption, Zenon DEF Limits, WithinMaxWorkers
        <4>3. QED
          BY <4>1, <4>2
      <3>2. QED
        BY <2>8, <3>1, Zenon DEF WithinMaxWorkers
    <2>10. Cleared'
      BY <1>0, Zenon DEF Cleared
    <2>11. CASE Ends
      <3>1. pass'.pc = "idle" /\ pass'.creates = {}
        BY <2>11, IdlePass, Zenon DEF Ends
      <3>2. QED
        BY <2>9, <2>10, <3>1, Zenon DEF Limits, Seen, Room, Unplanned
    <2>12. CASE /\ pass'.pc = "create" /\ pass'.creates = pass.creates \ {j}
                /\ pass'.counts = [pass.counts EXCEPT ![Pool[j]] = @ + 1]
      <3>1. /\ pass'.counts[q] = pass.counts[q] + 1
            /\ \A p \in Pools \ {q} : pass'.counts[p] = pass.counts[p]
        <4>1. pass.counts \in [Pools -> Nat]
          BY PassFields, Zenon DEF TypeOK
        <4>2. QED
          BY <2>1, <2>12, <4>1, Zenon
      <3>2. /\ InPool(pass'.creates, q) = need \ {j}
            /\ \A p \in Pools \ {q} : InPool(pass'.creates, p) = InPool(pass.creates, p)
        BY <2>12, Zenon DEF InPool
      <3>3. /\ Cardinality(new) <= pass'.counts[q]
            /\ pass'.counts[q] + Cardinality(need \ {j}) <= MaxWorkers[q]
        <4> HIDE DEF old, new, need, q
        <4>1. QED
          BY <2>8, <3>1, Zenon
      <3>4. ASSUME NEW p \in Pools \ {q}
            PROVE  /\ Cardinality(Occupying(p)') <= pass'.counts[p]
                   /\ InPool(pass'.creates, p) # {} =>
                        pass'.counts[p] + Cardinality(InPool(pass'.creates, p)) <= MaxWorkers[p]
        <4>1. /\ Cardinality(Occupying(p)') \in Nat /\ Cardinality(Occupying(p)) \in Nat
              /\ Cardinality(Occupying(p)') <= Cardinality(Occupying(p))
          BY <2>2, PoolCounts, PoolShrinks, Zenon DEF TypeOK
        <4>2. pass.counts[p] \in Nat
          BY PassFields, Zenon DEF TypeOK
        <4>3. /\ Cardinality(Occupying(p)) <= pass.counts[p]
              /\ InPool(pass.creates, p) # {} =>
                   pass.counts[p] + Cardinality(InPool(pass.creates, p)) <= MaxWorkers[p]
          BY Zenon DEF Limits, Room
        <4>4. QED
          BY <3>1, <3>2, <4>1, <4>2, <4>3, AtMost, Zenon
      <3>5. Room'
        <4>1. ASSUME NEW p \in Pools
              PROVE  /\ Cardinality(Occupying(p)') <= pass'.counts[p]
                     /\ InPool(pass'.creates, p) # {} =>
                          pass'.counts[p] + Cardinality(InPool(pass'.creates, p)) <= MaxWorkers[p]
          BY <3>2, <3>3, <3>4, Zenon
        <4>2. QED
          BY <4>1, Zenon DEF Room, InPool
      <3>6. QED
        BY <2>9, <2>10, <2>12, <3>5, Zenon DEF Limits, Seen, Unplanned
    <2>13. QED
      BY <1>2, <2>11, <2>12, Zenon
  <1>3. QED
    BY <1>1, <1>2 DEF Creates

\* Every step keeps the limits if the cache is up to date.
LEMMA LimitsStep ==
  ASSUME ~Lag, TypeOK, Visits, Limits, [Next]_vars
  PROVE  Limits'
  <1>1. TypeOK'
    BY TypeStep
  <1>2. CASE Steady
    BY <1>1, <1>2, LimitsSteady, Zenon
  <1>3. CASE ReadJobs
    <2>1. /\ pod' = pod /\ cluster' = "live" /\ pass'.pc = "read"
          /\ pass'.creates = pass.creates /\ pass.pc = "idle"
      BY <1>3, ReadJobsStep, Zenon DEF ReadJobs, At
    <2>2. Cleared' /\ pass'.creates = {}
      BY <2>1, Zenon DEF Cleared, Limits, Unplanned
    <2>3. QED
      BY <1>1, <2>1, <2>2, LimitsSame, Zenon
  <1>4. CASE ReadWorkers
    <2>1. /\ pod' = pod /\ cluster' = cluster /\ pass.pc = "read" /\ pass'.pc = "inspect"
          /\ pass'.creates = pass.creates /\ pass'.list \in Cached
      BY <1>4, ReadWorkersStep DEF HasRead
    <2>2. pass'.list = pod
      BY <2>1, CachedLists, Zenon
    <2>3. Cleared' /\ pass'.creates = {}
      BY <2>1, Zenon DEF Cleared, Limits, Unplanned, At
    <2>4. QED
      BY <1>1, <2>1, <2>2, <2>3, LimitsSame, Zenon
  <1>5. CASE CleanupClusterWorkers
    <2>1. /\ pod' = pod /\ pass.pc = "idle"
          /\ \/ /\ cluster' = "gone" /\ pass'.pc = "idle" /\ pass'.creates = {}
                /\ \A w \in Workers : pod[w] = NoPod
             \/ /\ cluster' = "deleting" /\ pass'.pc = "delete"
                /\ pass'.creates = pass.creates
      BY <1>5, CleanupClusterStep, Zenon DEF HasRead
    <2>2. Cleared' /\ pass'.creates = {}
      BY <2>1, Zenon DEF Cleared, Limits, Unplanned, At
    <2>3. QED
      BY <1>1, <2>1, <2>2, LimitsSame, Zenon
  <1>6. CASE Proceed
    <2>1. pod' = pod /\ cluster' = cluster
      BY <1>6, ProceedStep, Zenon
    <2>2. CASE Ends
      <3>1. pass'.pc = "idle" /\ pass'.creates = {}
        BY <2>2, IdlePass, Zenon DEF Ends
      <3>2. Cleared'
        BY <2>1, <3>1 DEF Cleared, Limits, At
      <3>3. QED
        BY <1>1, <2>1, <3>1, <3>2, LimitsSame, Zenon
    <2>3. CASE /\ pass.pc = "inspect" /\ pass'.pc = "orphans" /\ pass'.list = pass.list
               /\ pass'.creates = pass.creates
      <3>1. Cleared' /\ pass'.creates = {}
        BY <2>1, <2>3, Zenon DEF Cleared, Limits, Unplanned, At
      <3>2. QED
        BY <1>1, <2>1, <2>3, <3>1, LimitsSame, Zenon
    <2>4. CASE /\ pass.pc = "orphans" /\ pass'.pc = "create" /\ pass'.creates = pass.creates
               /\ pass'.counts = [p \in Pools |->
                                    Cardinality({w \in Counted : pass.list[w].pool = p})]
      BY <1>1, <2>1, <2>4, LimitsCount, Zenon
    <2>5. CASE /\ pass.pc = "create" /\ pass'.pc = "scale" /\ pass.creates = {}
               /\ pass'.creates = pass.creates
      <3>1. Cleared'
        BY <2>1, <2>5, Zenon DEF Cleared, Limits, At
      <3>2. QED
        BY <1>1, <2>1, <2>5, <3>1, LimitsSame, Zenon
    <2>6. QED
      BY <1>6, <2>2, <2>3, <2>4, <2>5, ProceedStep, Zenon
  <1>7. CASE PlanGroup
    BY <1>1, <1>7, PlanGroupStep, LimitsPlan, Zenon
  <1>8. CASE CreateWorker
    BY <1>1, <1>8, CreateWorkerStep, LimitsCreate, Zenon
  <1>9. ASSUME UNCHANGED <<cluster, pod, pass>> PROVE Limits'
    BY <1>9, Zenon DEF Limits, WithinMaxWorkers, Occupying, Seen, Counted, Listed, Room, InPool,
                Unplanned, Cleared, At
  <1>10. CASE \E w \in Workers : Register(w)
    BY <1>9, <1>10, RegisterStep, Zenon
  <1>11. CASE \E g \in GroupIDs : Start(g)
    BY <1>9, <1>11, StartStep, Zenon
  <1>12. QED
    BY <1>2, <1>3, <1>4, <1>5, <1>6, <1>7, <1>8, <1>10, <1>11, StepKinds, Zenon

\* Before the first pass there is no Pod.
LEMMA LimitsInit ==
  ASSUME Init
  PROVE  Limits
  <1>1. pass.pc = "idle" /\ pass.creates = {}
    BY IdlePass, NothingRead, Zenon DEF Init
  <1>2. \A w \in Workers : pod[w] = NoPod
    BY NothingRead, Zenon DEF Init
  <1>3. \A p \in Pools : Cardinality(Occupying(p)) = 0
    <2>1. \A p \in Pools : Occupying(p) = {}
      BY <1>2, Zenon DEF Occupying
    <2>2. QED
      BY <2>1, FS_EmptySet
  <1>4. QED
    BY <1>1, <1>2, <1>3, WorkersAssumption
       DEF Limits, WithinMaxWorkers, Seen, Room, Unplanned, Cleared, Init

\* What occupies a pool never exceeds its maxWorkers, wherever a pass of
\* reconcileWorkers fails and however many follow, if the cache is up to date.
THEOREM PoolsWithinMaxWorkers ==
  ASSUME ~Lag
  PROVE  Spec => []WithinMaxWorkers
  <1>1. Init => TypeOK /\ Visits /\ Limits
    BY TypeInit, LimitsInit, Zenon
  <1>2. (TypeOK /\ Visits /\ Limits) /\ [Next]_vars => (TypeOK /\ Visits /\ Limits)'
    BY TypeStep, LimitsStep
  <1>3. Limits => WithinMaxWorkers
    BY DEF Limits
  <1>4. QED
    BY <1>1, <1>2, <1>3, PTL DEF Spec

\* A cluster that is gone has left no worker Pod behind and never gets another,
\* whatever happened while cleanupClusterWorkers ran, if the cache is up to date.
THEOREM NoWorkerOutlivesCluster ==
  ASSUME ~Lag
  PROVE  Spec => [](cluster = "gone" => \A w \in Workers : pod[w] = NoPod)
  <1>1. Init => TypeOK /\ Visits /\ Limits
    BY TypeInit, LimitsInit
  <1>2. (TypeOK /\ Visits /\ Limits) /\ [Next]_vars => (TypeOK /\ Visits /\ Limits)'
    BY TypeStep, LimitsStep
  <1>3. Limits => (cluster = "gone" => \A w \in Workers : pod[w] = NoPod)
    BY DEF Limits, Cleared
  <1>4. QED
    BY <1>1, <1>2, <1>3, PTL DEF Spec
=============================================================================
