-------------------------- MODULE DraPluginProofs --------------------------
(***************************************************************************)
(* Proofs about DraPlugin, for any number of claims, names and devices.    *)
(***************************************************************************)
EXTENDS DraPlugin, TLAPS

-----------------------------------------------------------------------------
(* Types *)

\* What the driver writes into a record is a record.
LEMMA RecordTypes ==
    ASSUME NEW devices \in SUBSET Devices, NEW inventory \in Stock
    PROVE  /\ NoRecord \in Record /\ NoRecords \in Records
           /\ InventoryHash(devices, inventory) \in Stock
           /\ [devices |-> devices, stock |-> InventoryHash(devices, inventory)] \in Record
<1>1. /\ NoRecord \in Record
      /\ InventoryHash(devices, inventory) \in Stock
  BY SMTT(60) DEF NoRecord, Record, Stock, Versions, InventoryHash
<1>2. [devices |-> devices, stock |-> InventoryHash(devices, inventory)] \in Record
  BY <1>1 DEF Record
<1>3. NoRecords \in Records
  BY <1>1 DEF NoRecords, Records
<1> QED
  BY <1>1, <1>2, <1>3

\* The mutex is free, or one call holds it for one claim.
LEMMA CallTypes ==
    ASSUME NEW u \in Claims
    PROVE  /\ NoCall \in Calls
           /\ [kind |-> "prepare", uid |-> {u}] \in Calls
           /\ [kind |-> "unprepare", uid |-> {u}] \in Calls
  BY DEF Calls

\* Every step keeps the types.
LEMMA TypeStep == TypeOK /\ [Next]_vars => TypeOK'
<1> SUFFICES ASSUME TypeOK, [Next]_vars PROVE TypeOK'
  OBVIOUS
<1> USE DraAssumption
<1>n. NoRecord \in Record /\ NoRecords \in Records /\ NoCall \in Calls
  BY SMTT(60) DEF NoRecord, NoRecords, Record, Records, Stock, Versions, NoCall, Calls
<1>p. \A u \in Claims : Pinned(u) \in SUBSET Devices
  BY DEF Pinned, Held, TypeOK, Records, Record
<1>1. CASE New
  BY <1>1, <1>n, SMTT(60) DEF New, TypeOK, Points, objects, pods, hist, bounds, Records, Recorded
<1>2. ASSUME NEW u \in Claims, Driver(u) PROVE TypeOK'
  <2>1. CASE DropRecord(u)
    BY <2>1, <1>n DEF DropRecord, TypeOK, objects, pods, hist, bounds, Records
  <2>2. CASE KeepRecord(u)
    BY <2>2 DEF KeepRecord, TypeOK, objects, pods, hist, bounds
  <2>3. CASE RefuseRecord(u)
    BY <2>3, <1>n DEF RefuseRecord, Exit, TypeOK, Points, objects, pods, hist, bounds
  <2>4. CASE PrepareClaim(u)
    <3>1. claim[u].alloc \in SUBSET Devices /\ inv \in Stock
      BY DEF TypeOK
    <3>2. [devices |-> claim[u].alloc, stock |-> InventoryHash(claim[u].alloc, inv)] \in Record
      BY <3>1, RecordTypes
    <3>3. disk' \in Records
      BY <2>4, <3>2 DEF PrepareClaim, TypeOK, Records
    <3> QED
      BY <2>4, <3>3, CallTypes, ZenonT(60) DEF PrepareClaim, TypeOK, objects, pods, hist, bounds
  <2>5. CASE FinishPrepare(u)
    <3>1. disk[u] \in Record /\ Held(disk, u) \in SUBSET Devices
      BY DEF TypeOK, Records, Record, Held
    <3> QED
      BY <2>5, <3>1, <1>n DEF FinishPrepare, TypeOK, objects, hist, bounds, Records
  <2>6. CASE UnprepareClaim(u)
    BY <2>6, <1>n, CallTypes, ZenonT(60) DEF UnprepareClaim, TypeOK, objects, hist, bounds, Records
  <2>7. CASE FinishUnprepare(u)
    BY <2>7, <1>n DEF FinishUnprepare, TypeOK, objects, hist, bounds, Records
  <2> QED
    BY <1>2, <2>1, <2>2, <2>3, <2>4, <2>5, <2>6, <2>7 DEF Driver
<1>3. CASE Serve
  BY <1>3 DEF Serve, TypeOK, Points, objects, pods, hist, bounds
<1>4. CASE PublishInventory
  BY <1>4, <1>n, SMTT(60) DEF PublishInventory, Exit, TypeOK, Points, objects, pods, hist, bounds
<1>5. CASE Synchronize
  <2>1. cpuset' \in [Claims -> SUBSET Devices]
    <3> DEFINE running == {u \in Claims : kubelet[u] = "running"}
    <3>1. CASE UNCHANGED cpuset
      BY <3>1 DEF TypeOK
    <3>2. ASSUME NEW choice \in [running -> Claims],
                 cpuset' = [u \in Claims |-> IF u \in running THEN Pinned(choice[u])
                                             ELSE cpuset[u]]
          PROVE  cpuset' \in [Claims -> SUBSET Devices]
      <4>1. \A u \in running : Pinned(choice[u]) \in SUBSET Devices
        BY <1>p
      <4> HIDE DEF running
      <4> QED
        BY <3>2, <4>1 DEF TypeOK
    <3> QED
      BY <1>5, <3>1, <3>2, ZenonT(60) DEF Synchronize
  <2> QED
    BY <1>5, <2>1, <1>n, SMTT(60) DEF Synchronize, Exit, TypeOK, Points, objects, hist, bounds
<1>6. CASE Crash
  BY <1>6, <1>n DEF Crash, Exit, TypeOK, Points, objects, pods, hist, bounds
<1>7. ASSUME NEW u \in Claims, Pod(u) PROVE TypeOK'
  <2>1. CASE AdmitPod(u)
    BY <2>1 DEF AdmitPod, TypeOK, objects, process, hist, bounds
  <2>2. CASE CreateContainer(u)
    <3>1. cpuset' \in [Claims -> SUBSET Devices]
      BY <2>2, <1>p, SMTT(60) DEF CreateContainer, PreparedFor, Recorded, TypeOK
    <3> QED
      BY <2>2, <3>1 DEF CreateContainer, TypeOK, objects, process, hist, bounds
  <2>3. CASE StopContainer(u)
    BY <2>3 DEF StopContainer, TypeOK, objects, process, hist, bounds
  <2> QED
    BY <1>7, <2>1, <2>2, <2>3 DEF Pod
<1>8. ASSUME NEW u \in Claims, Cluster(u) PROVE TypeOK'
  <2>1. CASE CreateClaim(u)
    BY <2>1 DEF CreateClaim, TypeOK, process, pods, hist, bounds
  <2>2. ASSUME NEW devices \in SUBSET Devices, Allocate(u, devices) PROVE TypeOK'
    BY <2>2, SMTT(60) DEF Allocate, TypeOK, process, pods, hist, bounds
  <2>3. ASSUME NEW life \in {"live", "deleted"}, Release(u, life) PROVE TypeOK'
    BY <2>3 DEF Release, TypeOK, process, pods, bounds
  <2> QED
    BY <1>8, <2>1, <2>2, <2>3 DEF Cluster
<1>9. ASSUME NEW d \in Devices, NEW version \in Versions, ChangeHardware(d, version)
      PROVE  TypeOK'
  BY <1>9, SMTT(60) DEF ChangeHardware, TypeOK, Stock, objects, process, pods, hist
<1>10. CASE Flush
  BY <1>10 DEF Flush, TypeOK, objects, process, pods, hist, bounds
<1>11. CASE RebootHost
  BY <1>11, <1>n, SMTT(60) DEF RebootHost, Exit, TypeOK, Points, objects
<1>12. CASE UNCHANGED vars
  BY <1>12 DEF TypeOK, vars, objects, process, pods, hist, bounds
<1> QED
  BY <1>1, <1>2, <1>3, <1>4, <1>5, <1>6, <1>7, <1>8, <1>9, <1>10, <1>11, <1>12
  DEF Next, StartUp

-----------------------------------------------------------------------------
(* Devices are prepared once *)

\* Records that hold less than disjoint ones are disjoint.
LEMMA SmallerRecords ==
    ASSUME NEW old, NEW new, DisjointRecords(old),
           \A u \in Claims : Held(new, u) \subseteq Held(old, u)
    PROVE  DisjointRecords(new)
  BY DEF DisjointRecords

LEMMA EmptyRecords ==
    /\ DisjointRecords(NoRecords)
    /\ \A u \in Claims : NoRecords[u] = NoRecord /\ Held(NoRecords, u) = {}
  BY DEF DisjointRecords, NoRecords, NoRecord, Held

\* What each step does to the records: only a call of the kubelet and Recover
\* write a file, and only they, the start and the end of the process write memory.
LEMMA RecordSteps ==
    ASSUME TypeOK, [Next]_vars
    PROVE  \/ /\ disk' = disk /\ durable' \in {durable, disk}
              /\ mem' \in {mem, NoRecords} \/ New
           \/ RebootHost
           \/ \E u \in Claims : \/ DropRecord(u) \/ PrepareClaim(u) \/ FinishPrepare(u)
                                \/ UnprepareClaim(u) \/ FinishUnprepare(u)
<1>1. CASE New \/ Serve \/ PublishInventory \/ Synchronize \/ Crash \/ Flush
  BY <1>1 DEF New, Serve, PublishInventory, Synchronize, Crash, Flush, Exit, process
<1>2. ASSUME NEW u \in Claims, KeepRecord(u) \/ RefuseRecord(u) \/ Pod(u) \/ Cluster(u)
      PROVE  disk' = disk /\ durable' = durable /\ mem' \in {mem, NoRecords}
  BY <1>2 DEF KeepRecord, RefuseRecord, Exit, Pod, AdmitPod, CreateContainer, StopContainer,
              Cluster, CreateClaim, Allocate, Release, process
<1>3. ASSUME NEW d \in Devices, NEW version \in Versions, ChangeHardware(d, version)
      PROVE  disk' = disk /\ durable' = durable /\ mem' = mem
  BY <1>3 DEF ChangeHardware, process
<1>4. CASE UNCHANGED vars
  BY <1>4 DEF vars, process
<1> QED
  BY <1>1, <1>2, <1>3, <1>4 DEF Next, StartUp, Driver

\* Prepare gives nothing that memory records for another claim, and memory and
\* files agree while nobody holds the mutex.
LEMMA ExclusiveStep ==
    ASSUME DraInv, [Next]_vars
    PROVE  Exclusive'
<1> USE DEF Exclusive
<1>t. TypeOK /\ Exclusive /\ CallSound
  BY DEF DraInv
<1>1. CASE disk' = disk /\ durable' \in {durable, disk} /\ mem' \in {mem, NoRecords}
  BY <1>1, <1>t, EmptyRecords DEF DisjointRecords, Held
<1>2. CASE New
  BY <1>2, <1>t DEF New, DisjointRecords, Held
<1>3. CASE RebootHost
  BY <1>3, <1>t, EmptyRecords DEF RebootHost, Exit, DisjointRecords, Held
<1>4. ASSUME NEW u \in Claims, DropRecord(u) PROVE Exclusive'
  <2>1. \A v \in Claims : /\ Held(disk', v) \subseteq Held(disk, v)
                          /\ Held(mem', v) \subseteq Held(mem, v)
    BY <1>4, <1>t DEF DropRecord, Held, TypeOK, Records, NoRecord
  <2> QED
    BY <1>4, <1>t, <2>1, SmallerRecords DEF DropRecord, DisjointRecords, Held
<1>5. ASSUME NEW u \in Claims, PrepareClaim(u) PROVE Exclusive'
  <2>1. mem = disk
    BY <1>5, <1>t, SMTT(60) DEF PrepareClaim, CallSound, NoCall, TypeOK, Records
  <2>2. /\ Held(disk', u) = claim[u].alloc
        /\ \A v \in Claims : v # u => Held(disk', v) = Held(mem, v)
    BY <1>5, <1>t, <2>1 DEF PrepareClaim, Held, TypeOK, Records
  <2>3. \A v \in Claims : v # u => Held(disk', u) \cap Held(mem, v) = {}
    <3>1. CASE u \in Recorded(mem) /\ Held(mem, u) = claim[u].alloc
      BY <3>1, <2>2, <1>t DEF DisjointRecords
    <3>2. CASE NotHeld(u)
      BY <3>2, <2>2 DEF NotHeld
    <3> QED
      BY <3>1, <3>2, <1>5, SMTT(60) DEF PrepareClaim, Preparable, Held
  <2>4. DisjointRecords(disk')
    BY <2>2, <2>3, <1>t DEF DisjointRecords
  <2> QED
    BY <2>4, <1>5, <1>t DEF PrepareClaim, DisjointRecords, Held
<1>6. ASSUME NEW u \in Claims, FinishPrepare(u) PROVE Exclusive'
  <2>1. \A v \in Claims : mem'[v] = disk[v]
    BY <1>6, <1>t DEF FinishPrepare, CallSound, TypeOK, Records, Serving, Points, NoCall
  <2> QED
    BY <2>1, <1>6, <1>t DEF FinishPrepare, DisjointRecords, Held
<1>7. ASSUME NEW u \in Claims, UnprepareClaim(u) \/ FinishUnprepare(u) PROVE Exclusive'
  <2>1. \A v \in Claims : /\ Held(disk', v) \subseteq Held(disk, v)
                          /\ Held(mem', v) \subseteq Held(mem, v)
    <3>1. CASE UnprepareClaim(u)
      BY <3>1, <1>t DEF UnprepareClaim, Held, TypeOK, Records, NoRecord
    <3>2. CASE FinishUnprepare(u)
      BY <3>2, <1>t DEF FinishUnprepare, Held, TypeOK, Records, NoRecord
    <3> QED
      BY <1>7, <3>1, <3>2
  <2> QED
    BY <1>7, <1>t, <2>1, SmallerRecords
    DEF UnprepareClaim, FinishUnprepare, DisjointRecords, Held
<1> QED
  BY <1>t, <1>1, <1>2, <1>3, <1>4, <1>5, <1>6, <1>7, RecordSteps

-----------------------------------------------------------------------------
(* Memory and files *)

\* Whoever holds the mutex is the only reason for memory and files to differ.
LEMMA CallStep ==
    ASSUME DraInv, [Next]_vars
    PROVE  CallSound'
<1>t. TypeOK /\ CallSound /\ PodsSound
  BY DEF DraInv
<1>n. NoCall.uid = {} /\ NoCall.kind = "none"
  BY DEF NoCall
<1>1. CASE New
  BY <1>1, <1>t, <1>n, SMTT(60) DEF New, CallSound, Serving, NoCall, pods, hist, Held
<1>2. CASE Serve
  BY <1>2, <1>t, <1>n, SMTT(60) DEF Serve, CallSound, Serving, NoCall, pods, hist, Held
<1>3. CASE PublishInventory
  <2>1. UNCHANGED <<disk, dropped, kubelet>>
    BY <1>3 DEF PublishInventory, pods, hist
  <2>2. CASE Exit("refused")
    BY <2>1, <2>2, <1>t, <1>n DEF Exit, CallSound, Serving, NoCall, Held
  <2>3. CASE drv.pc \in Serving /\ drv'.pc \in Serving
               /\ drv'.todo = drv.todo /\ UNCHANGED <<mem, call>>
    BY <2>1, <2>3, <1>t DEF CallSound, Serving, Held, Recorded
  <2> QED
    BY <1>3, <1>t, <2>2, <2>3 DEF PublishInventory, Serving, TypeOK
<1>4. CASE Synchronize
  <2>1. UNCHANGED <<disk, dropped, kubelet>>
    BY <1>4 DEF Synchronize, hist
  <2>2. CASE Exit("refused")
    BY <2>1, <2>2, <1>t, <1>n DEF Exit, CallSound, Serving, NoCall, Held
  <2>3. CASE drv.pc \in Serving /\ drv'.pc \in Serving
               /\ drv'.todo = drv.todo /\ UNCHANGED <<mem, call>>
    BY <2>1, <2>3, <1>t DEF CallSound, Serving, Held, Recorded
  <2> QED
    BY <1>4, <1>t, <2>2, <2>3 DEF Synchronize, Serving, TypeOK
<1>5. CASE Crash
  BY <1>5, <1>t, <1>n DEF Crash, Exit, CallSound, Serving, NoCall, pods, hist, Held
<1>6. CASE RebootHost
  BY <1>6, <1>t, <1>n DEF RebootHost, Exit, CallSound, Serving, NoCall, Held
<1>7. ASSUME NEW u \in Claims, DropRecord(u) PROVE CallSound'
  <2>1. /\ \A v \in Claims \ {u} : mem'[v] = mem[v] /\ disk'[v] = disk[v]
        /\ mem'[u] = NoRecord /\ disk'[u] = NoRecord
        /\ drv'.todo = drv.todo \ {u} /\ drv'.pc = "recover" /\ drv.pc = "recover"
        /\ UNCHANGED <<call, kubelet>>
    BY <1>7, <1>t DEF DropRecord, TypeOK, Records, pods
  <2>2. call = NoCall /\ drv.todo \subseteq Recorded(disk)
    BY <2>1, <1>t DEF CallSound, Serving
  <2> QED
    BY <2>1, <2>2, <1>t, <1>n DEF CallSound, Serving, NoCall, Held, Recorded
<1>8. ASSUME NEW u \in Claims, KeepRecord(u) PROVE CallSound'
  BY <1>8, <1>t, <1>n DEF KeepRecord, CallSound, Serving, NoCall, pods, hist, TypeOK, Held
<1>9. ASSUME NEW u \in Claims, RefuseRecord(u) PROVE CallSound'
  BY <1>9, <1>t, <1>n, SMTT(60) DEF RefuseRecord, Exit, CallSound, Serving, NoCall, pods, hist, Held
<1>10. ASSUME NEW u \in Claims, PrepareClaim(u) PROVE CallSound'
  <2>1. Held(disk, u)' # {} /\ u \notin dropped /\ kubelet[u] # "none"
    <3>1. claim[u].alloc # {}
      <4>1. CASE u \in Recorded(mem) /\ mem[u].devices = claim[u].alloc
        BY <4>1 DEF Recorded, Held
      <4>2. CASE Preparable(u)
        BY <4>2 DEF Preparable
      <4> QED
        BY <1>10, <4>1, <4>2, SMTT(60) DEF PrepareClaim
    <3>2. Held(disk, u)' = claim[u].alloc
      BY <1>10, <1>t DEF PrepareClaim, Held, TypeOK, Records
    <3> QED
      BY <1>10, <1>t, <3>1, <3>2 DEF PrepareClaim, PodsSound, Live
  <2>2. \A v \in Claims : v # u => mem'[v] = disk'[v]
    BY <1>10, <1>t, <1>n DEF PrepareClaim, CallSound, TypeOK, Records
  <2> QED
    BY <1>10, <1>t, <2>1, <2>2, SMTT(60)
    DEF PrepareClaim, CallSound, Serving, NoCall, pods, hist, Held
<1>11. ASSUME NEW u \in Claims, FinishPrepare(u) PROVE CallSound'
  <2>1. \A v \in Claims : mem'[v] = disk'[v]
    BY <1>11, <1>t DEF FinishPrepare, CallSound, TypeOK, Records, Serving, Points, NoCall
  <2> QED
    BY <1>11, <1>t, <1>n, <2>1 DEF FinishPrepare, CallSound, Serving, NoCall, hist, Held
<1>12. ASSUME NEW u \in Claims, UnprepareClaim(u) PROVE CallSound'
  <2>1. disk'[u] = NoRecord /\ kubelet'[u] = "stopped"
    BY <1>12, <1>t DEF UnprepareClaim, TypeOK, Records
  <2>2. \A v \in Claims : v # u => mem'[v] = disk'[v]
    BY <1>12, <1>t, <1>n DEF UnprepareClaim, CallSound, TypeOK, Records
  <2> QED
    BY <1>12, <1>t, <2>1, <2>2 DEF UnprepareClaim, CallSound, Serving, NoCall, hist, Held
<1>13. ASSUME NEW u \in Claims, FinishUnprepare(u) PROVE CallSound'
  <2>1. \A v \in Claims : mem'[v] = disk'[v]
    BY <1>13, <1>t DEF FinishUnprepare, CallSound, TypeOK, Records, Serving, Points, NoCall
  <2> QED
    BY <1>13, <1>t, <1>n, <2>1 DEF FinishUnprepare, CallSound, Serving, NoCall, hist, Held
<1>14. ASSUME NEW u \in Claims, Pod(u) PROVE CallSound'
  <2>1. \A v \in Claims : (kubelet[v] = "stopped" => kubelet'[v] = "stopped")
                          /\ (kubelet[v] # "none" => kubelet'[v] # "none")
    BY <1>14, <1>t DEF Pod, AdmitPod, CreateContainer, StopContainer, TypeOK
  <2> QED
    BY <1>14, <1>t, <2>1
    DEF Pod, AdmitPod, CreateContainer, StopContainer, CallSound, process, hist, Held
<1>15. CASE UNCHANGED <<drv, call, mem, disk, dropped, kubelet>>
  BY <1>15, <1>t DEF CallSound, Held
<1>16. ASSUME NEW u \in Claims, Cluster(u)
       PROVE  UNCHANGED <<drv, call, mem, disk, dropped, kubelet>>
  BY <1>16 DEF Cluster, CreateClaim, Allocate, Release, process, pods, hist
<1>17. ASSUME Flush \/ (\E d \in Devices, version \in Versions : ChangeHardware(d, version))
              \/ UNCHANGED vars
       PROVE  UNCHANGED <<drv, call, mem, disk, dropped, kubelet>>
  BY <1>17 DEF Flush, ChangeHardware, vars, process, pods, hist
<1> QED
  BY <1>1, <1>2, <1>3, <1>4, <1>5, <1>6, <1>7, <1>8, <1>9, <1>10, <1>11, <1>12, <1>13,
     <1>14, <1>15, <1>16, <1>17 DEF Next, StartUp, Driver

-----------------------------------------------------------------------------
(* The kubelet's checkpoint *)

\* A prepared Pod's record stays as long as the Pod, unless Recover drops it,
\* and the kubelet has one claim of a name at a time.
LEMMA PodsStep ==
    ASSUME DraInv, [Next]_vars
    PROVE  PodsSound'
<1>t. TypeOK /\ CallSound /\ PodsSound
  BY DEF DraInv
<1>1. ASSUME NEW u \in Claims, DropRecord(u) PROVE PodsSound'
  <2>1. /\ \A v \in Claims \ {u} : disk'[v] = disk[v]
        /\ Held(disk', u) = {} /\ UNCHANGED <<name, claim, kubelet, given, undone>>
    BY <1>1, <1>t DEF DropRecord, TypeOK, Records, NoRecord, Held, objects, pods
  <2>2. \/ dropped' = dropped /\ kubelet[u] \notin {"prepared", "running"}
        \/ dropped' = dropped \cup {u} /\ claim[u].life = "deleted"
    BY <1>1, <1>t DEF DropRecord, TypeOK, PodsSound, Live
  <2> QED
    BY <2>1, <2>2, <1>t DEF PodsSound, Held, Recorded
<1>2. ASSUME NEW u \in Claims, PrepareClaim(u) PROVE PodsSound'
  <2>1. /\ \A v \in Claims \ {u} : disk'[v] = disk[v]
        /\ UNCHANGED <<name, claim, kubelet, given, dropped, undone>>
    BY <1>2, <1>t, SMTT(60) DEF PrepareClaim, TypeOK, Records, objects, pods, hist
  <2>2. kubelet[u] # "none" /\ u \notin dropped
    BY <1>2, <1>t, SMTT(60) DEF PrepareClaim, PodsSound, Live
  <2>3. mem[u] = disk[u]
    BY <1>2, <1>t DEF PrepareClaim, CallSound, NoCall
  <2>4. u \in Recorded(disk) => disk'[u] = disk[u]
    BY <1>2, <1>t, <2>3, SMTT(60) DEF PrepareClaim, Recorded, Held, TypeOK, Records
  <2>5. kubelet[u] \in {"prepared", "running"} => u \in Recorded(disk)
    BY <2>2, <1>t DEF PodsSound, Recorded
  <2> QED
    BY <2>1, <2>2, <2>4, <2>5, <1>t, SMTT(60) DEF PodsSound, Held, Recorded
<1>3. ASSUME NEW u \in Claims, FinishPrepare(u) PROVE PodsSound'
  <2>1. /\ \A v \in Claims \ {u} : given'[v] = given[v] /\ kubelet'[v] = kubelet[v]
        /\ given'[u] = Held(disk, u) /\ UNCHANGED <<name, claim, disk, dropped, undone>>
    BY <1>3, <1>t DEF FinishPrepare, TypeOK, objects, hist
  <2>2. Held(disk, u) # {} /\ kubelet[u] # "none" /\ kubelet'[u] # "none"
    BY <1>3, <1>t DEF FinishPrepare, CallSound, TypeOK
  <2> QED
    BY <2>1, <2>2, <1>t, SMTT(60) DEF PodsSound, Held, Recorded
<1>4. ASSUME NEW u \in Claims, UnprepareClaim(u) PROVE PodsSound'
  <2>1. /\ \A v \in Claims \ {u} : disk'[v] = disk[v] /\ kubelet'[v] = kubelet[v]
        /\ Held(disk', u) = {} /\ kubelet[u] # "none" /\ kubelet'[u] = "stopped"
        /\ UNCHANGED <<name, claim, given, dropped, undone>>
    BY <1>4, <1>t, SMTT(60) DEF UnprepareClaim, TypeOK, Records, NoRecord, Held, objects, hist
  <2> QED
    BY <2>1, <1>t, SMTT(60) DEF PodsSound, Held, Recorded
<1>5. ASSUME NEW u \in Claims, FinishUnprepare(u) PROVE PodsSound'
  <2>1. /\ \A v \in Claims \ {u} : given'[v] = given[v] /\ kubelet'[v] = kubelet[v]
        /\ kubelet'[u] = "none" /\ UNCHANGED <<name, claim, disk, dropped, undone>>
    BY <1>5, <1>t DEF FinishUnprepare, TypeOK, objects, hist
  <2>2. Held(disk, u) = {}
    BY <1>5, <1>t, SMTT(60) DEF FinishUnprepare, CallSound, NoRecord, Held
  <2> QED
    BY <2>1, <2>2, <1>t, SMTT(60) DEF PodsSound, Held, Recorded
<1>6. ASSUME NEW u \in Claims, AdmitPod(u) PROVE PodsSound'
  <2>1. /\ \A v \in Claims \ {u} : kubelet'[v] = kubelet[v]
        /\ kubelet'[u] = "admitted"
        /\ UNCHANGED <<name, claim, given, disk, dropped, undone>>
    BY <1>6, <1>t DEF AdmitPod, TypeOK, objects, hist
  <2>2. claim[u].life # "none" /\ \A v \in Claims : name[v] = name[u] => kubelet[v] = "none"
    BY <1>6 DEF AdmitPod, Live
  <2> QED
    BY <2>1, <2>2, <1>t, SMTT(60) DEF PodsSound, Held, Recorded
<1>7. ASSUME NEW u \in Claims, CreateContainer(u) \/ StopContainer(u) PROVE PodsSound'
  <2>1. /\ \A v \in Claims \ {u} : kubelet'[v] = kubelet[v]
        /\ \/ kubelet[u] = "prepared" /\ kubelet'[u] = "running"
           \/ kubelet[u] = "running" /\ kubelet'[u] = "stopped"
        /\ UNCHANGED <<name, claim, given, disk, dropped, undone>>
    BY <1>7, <1>t, SMTT(60) DEF CreateContainer, StopContainer, TypeOK, objects, hist
  <2> QED
    BY <2>1, <1>t, SMTT(60) DEF PodsSound, Held, Recorded
<1>8. ASSUME NEW u \in Claims, Cluster(u) PROVE PodsSound'
  <2>1. UNCHANGED <<name, kubelet, given, disk, dropped, undone>>
    BY <1>8 DEF Cluster, CreateClaim, Allocate, Release, pods, hist
  <2> DEFINE LivesGoOn == \A v \in Claims :
                 /\ claim[v].life # "none" => claim'[v].life # "none"
                 /\ claim[v].life = "deleted" => claim'[v].life = "deleted"
  <2>2. LivesGoOn
    <3>1. CASE CreateClaim(u)
      BY <3>1, <1>t DEF CreateClaim, TypeOK
    <3>2. ASSUME NEW devices \in SUBSET Devices, Allocate(u, devices) PROVE LivesGoOn
      BY <3>2, <1>t, SMTT(60) DEF Allocate, TypeOK
    <3>3. ASSUME NEW life \in {"live", "deleted"}, Release(u, life) PROVE LivesGoOn
      BY <3>3, <1>t, SMTT(60) DEF Release, Live, TypeOK
    <3> QED
      BY <1>8, <3>1, <3>2, <3>3 DEF Cluster
  <2> QED
    BY <2>1, <2>2, <1>t DEF PodsSound, Held, Recorded, TypeOK
<1>9. CASE RebootHost
  <2>1. /\ \A v \in Claims : /\ kubelet'[v] \notin {"prepared", "running"}
                             /\ kubelet'[v] = "none" <=> kubelet[v] = "none"
        /\ UNCHANGED <<name, claim, dropped>>
    BY <1>9, <1>t, SMTT(60) DEF RebootHost, TypeOK, objects
  <2>2. ~undone' => ~undone /\ \A v \in Recorded(disk') : v \in Recorded(disk)
    BY <1>9, <1>t, ZenonT(60) DEF RebootHost, TypeOK, Recorded, Held
  <2> QED
    BY <2>1, <2>2, <1>t, ZenonT(60) DEF PodsSound, Held, Recorded
<1>10. CASE UNCHANGED <<name, claim, kubelet, given, disk, dropped, undone>>
  BY <1>10, <1>t DEF PodsSound, Held, Recorded
<1>11. ASSUME StartUp \/ Crash \/ Flush \/ UNCHANGED vars
              \/ (\E u \in Claims : KeepRecord(u) \/ RefuseRecord(u))
              \/ (\E d \in Devices, version \in Versions : ChangeHardware(d, version))
       PROVE  UNCHANGED <<name, claim, kubelet, given, disk, dropped, undone>>
  BY <1>11 DEF StartUp, New, Serve, PublishInventory, Synchronize, Crash, Flush, KeepRecord,
               RefuseRecord, ChangeHardware, vars, objects, pods, hist
<1> QED
  BY <1>1, <1>2, <1>3, <1>4, <1>5, <1>6, <1>7, <1>8, <1>9, <1>10, <1>11, SMTT(60)
  DEF Next, Driver, Pod

-----------------------------------------------------------------------------
(* As long as nothing outside the driver went wrong *)

\* What went wrong once is not forgotten.
LEMMA HistoryStep ==
    ASSUME TypeOK, [Next]_vars
    PROVE  (changes > 0 => changes' > 0) /\ (forced => forced') /\ (undone => undone')
<1>1. CASE RebootHost
  BY <1>1 DEF RebootHost, TypeOK
<1>2. ASSUME NEW u \in Claims, NEW life \in {"live", "deleted"}, Release(u, life)
      PROVE  (forced => forced') /\ UNCHANGED <<changes, undone>>
  BY <1>2 DEF Release, TypeOK, bounds
<1>3. ASSUME NEW d \in Devices, NEW version \in Versions, ChangeHardware(d, version)
      PROVE  changes' = changes + 1 /\ UNCHANGED <<forced, undone>>
  BY <1>3 DEF ChangeHardware, hist
<1>4. ASSUME NEW u \in Claims,
             Driver(u) \/ Pod(u) \/ CreateClaim(u)
                 \/ \E devices \in SUBSET Devices : Allocate(u, devices)
      PROVE  UNCHANGED <<changes, forced, undone>>
  BY <1>4 DEF Driver, DropRecord, KeepRecord, RefuseRecord, PrepareClaim, FinishPrepare,
              UnprepareClaim, FinishUnprepare, Pod, AdmitPod, CreateContainer, StopContainer,
              CreateClaim, Allocate, hist, bounds
<1>5. CASE StartUp \/ Crash \/ Flush \/ UNCHANGED vars
  BY <1>5, SMTT(60)
  DEF StartUp, New, Serve, PublishInventory, Synchronize, Crash, Flush, vars, hist,
              bounds
<1> QED
  BY <1>1, <1>2, <1>3, <1>4, <1>5, SMTT(60) DEF Next, Cluster, TypeOK

LEMMA EmptyHash == NoRecord.stock = InventoryHash({}, Original) /\ NoRecord.devices = {}
  BY DEF NoRecord, InventoryHash

\* While the hardware stays, so do the hashes of all records.
LEMMA ChangedStep ==
    ASSUME DraInv, [Next]_vars, changes' = 0
    PROVE  NothingChanged'
<1>t. TypeOK /\ changes = 0 /\ NothingChanged
  <2>1. TypeOK /\ (changes = 0 => NothingChanged)
    BY DEF DraInv
  <2>2. changes > 0 => changes' > 0
    BY <2>1, HistoryStep
  <2> QED
    BY <2>1, <2>2, SMTT(60) DEF TypeOK
<1>1. CASE New
  BY <1>1, <1>t DEF New, NothingChanged, Held
<1>2. CASE PublishInventory
  BY <1>2, <1>t DEF PublishInventory, Exit, NothingChanged, Held
<1>3. CASE Flush
  BY <1>3, <1>t DEF Flush, NothingChanged, process, Held
<1>4. CASE RebootHost
  BY <1>4, <1>t DEF RebootHost, Exit, NothingChanged, Held
<1>5. ASSUME NEW u \in Claims, DropRecord(u) \/ UnprepareClaim(u) PROVE NothingChanged'
  <2>1. /\ \A v \in Claims \ {u} : disk'[v] = disk[v]
        /\ disk'[u] = NoRecord /\ UNCHANGED <<hw, inv, published, durable>>
    BY <1>5, <1>t DEF DropRecord, UnprepareClaim, TypeOK, Records
  <2> QED
    BY <2>1, <1>t, EmptyHash, ZenonT(60) DEF NothingChanged, Held
<1>6. ASSUME NEW u \in Claims, PrepareClaim(u) PROVE NothingChanged'
  <2>1. /\ \A v \in Claims \ {u} : disk'[v] = disk[v]
        /\ disk'[u].devices = claim[u].alloc
        /\ disk'[u].stock = InventoryHash(claim[u].alloc, inv)
        /\ UNCHANGED <<hw, inv, published, durable>>
    BY <1>6, <1>t DEF PrepareClaim, TypeOK, Records
  <2> QED
    BY <2>1, <1>t DEF NothingChanged, Held
<1>7. CASE UNCHANGED <<hw, inv, published, disk, durable>>
  BY <1>7, <1>t DEF NothingChanged, Held
<1>8. ASSUME NEW d \in Devices, NEW version \in Versions, ChangeHardware(d, version)
      PROVE  FALSE
  BY <1>8, <1>t, SMTT(60) DEF ChangeHardware
<1>9. ASSUME Serve \/ Synchronize \/ Crash \/ UNCHANGED vars \/ \E u \in Claims :
                 \/ KeepRecord(u) \/ RefuseRecord(u) \/ FinishPrepare(u) \/ FinishUnprepare(u)
                 \/ Pod(u) \/ Cluster(u)
      PROVE  UNCHANGED <<hw, inv, published, disk, durable>>
  BY <1>9 DEF Serve, Synchronize, Crash, Exit, KeepRecord, RefuseRecord, FinishPrepare,
              FinishUnprepare, Pod, AdmitPod, CreateContainer, StopContainer, Cluster,
              CreateClaim, Allocate, Release, process, vars
<1> QED
  BY <1>1, <1>2, <1>3, <1>4, <1>5, <1>6, <1>7, <1>8, <1>9 DEF Next, StartUp, Driver

\* While no claim is released under its Pod, records are those of live claims.
LEMMA ReleasedStep ==
    ASSUME DraInv, [Next]_vars, ~forced', ~undone'
    PROVE  NothingReleased'
<1>t. TypeOK /\ PodsSound /\ CallSound /\ ~forced /\ ~undone /\ NothingReleased
  <2>1. TypeOK /\ PodsSound /\ CallSound /\ (~forced /\ ~undone => NothingReleased)
    BY DEF DraInv
  <2>2. (forced => forced') /\ (undone => undone')
    BY <2>1, HistoryStep
  <2> QED
    BY <2>1, <2>2
<1>1. ASSUME NEW u \in Claims, DropRecord(u) PROVE NothingReleased'
  <2>1. /\ \A v \in Claims \ {u} : disk'[v] = disk[v]
        /\ Held(disk', u) = {} /\ UNCHANGED claim
    BY <1>1, <1>t DEF DropRecord, TypeOK, Records, NoRecord, Held, objects
  <2>2. kubelet[u] \notin {"prepared", "running"}
    BY <1>1, <1>t DEF DropRecord, PodsSound, NothingReleased, Recorded, Held
  <2> QED
    BY <1>1, <2>1, <2>2, <1>t DEF DropRecord, NothingReleased, Recorded, Held, Live
<1>2. ASSUME NEW u \in Claims, PrepareClaim(u) PROVE NothingReleased'
  <2>1. /\ \A v \in Claims \ {u} : disk'[v] = disk[v]
        /\ disk'[u].devices = claim[u].alloc /\ Live(u)
        /\ UNCHANGED <<claim, dropped>>
    BY <1>2, <1>t DEF PrepareClaim, TypeOK, Records, objects, hist
  <2> QED
    BY <2>1, <1>t DEF NothingReleased, Recorded, Held, Live
<1>3. ASSUME NEW u \in Claims, UnprepareClaim(u) PROVE NothingReleased'
  <2>1. /\ \A v \in Claims \ {u} : disk'[v] = disk[v]
        /\ Held(disk', u) = {} /\ UNCHANGED <<claim, dropped>>
    BY <1>3, <1>t DEF UnprepareClaim, TypeOK, Records, NoRecord, Held, objects, hist
  <2> QED
    BY <2>1, <1>t DEF NothingReleased, Recorded, Held, Live
<1>4. ASSUME NEW u \in Claims, Cluster(u) PROVE NothingReleased'
  <2>1. UNCHANGED <<disk, dropped>> /\ \A v \in Claims \ {u} : claim'[v] = claim[v]
    BY <1>4, <1>t DEF Cluster, CreateClaim, Allocate, Release, hist, TypeOK
  <2>2. u \notin Recorded(disk)
    <3>1. CASE CreateClaim(u)
      BY <3>1, <1>t DEF CreateClaim, NothingReleased, Live
    <3>2. ASSUME NEW devices \in SUBSET Devices, Allocate(u, devices) PROVE u \notin Recorded(disk)
      BY <3>2, <1>t, SMTT(60) DEF Allocate, NothingReleased, Recorded
    <3>3. ASSUME NEW life \in {"live", "deleted"}, Release(u, life)
          PROVE  u \notin Recorded(disk)
      BY <3>3, <1>t, ZenonT(60) DEF Release, PodsSound
    <3> QED
      BY <1>4, <3>1, <3>2, <3>3 DEF Cluster
  <2> QED
    BY <2>1, <2>2, <1>t DEF NothingReleased, Recorded, Held, Live
<1>5. CASE RebootHost
  <2>1. /\ \A v \in Recorded(disk') : disk'[v] = disk[v]
        /\ UNCHANGED <<claim, dropped>>
    BY <1>5, <1>t, ZenonT(60) DEF RebootHost, Recorded, Held, objects
  <2> QED
    BY <2>1, <1>t DEF NothingReleased, Recorded, Held, Live
<1>6. CASE UNCHANGED <<claim, disk, dropped>>
  BY <1>6, <1>t DEF NothingReleased, Recorded, Held, Live
<1>7. ASSUME StartUp \/ Crash \/ Flush \/ UNCHANGED vars
             \/ (\E u \in Claims : \/ KeepRecord(u) \/ RefuseRecord(u) \/ FinishPrepare(u)
                                   \/ FinishUnprepare(u) \/ Pod(u))
             \/ (\E d \in Devices, version \in Versions : ChangeHardware(d, version))
      PROVE  UNCHANGED <<claim, disk, dropped>>
  BY <1>7 DEF StartUp, New, Serve, PublishInventory, Synchronize, Crash, Flush, KeepRecord,
              RefuseRecord, FinishPrepare, FinishUnprepare, Pod, AdmitPod, CreateContainer,
              StopContainer, ChangeHardware, vars, objects, hist
<1> QED
  BY <1>1, <1>2, <1>3, <1>4, <1>5, <1>6, <1>7 DEF Next, Driver

\* The start refuses nothing that the driver itself left behind.
LEMMA RefusedStep ==
    ASSUME DraInv, [Next]_vars
    PROVE  RefusedForCause'
<1>t. /\ TypeOK /\ Exclusive /\ CallSound /\ PodsSound /\ RefusedForCause
      /\ changes = 0 => NothingChanged
      /\ ~forced /\ ~undone => NothingReleased
  BY DEF DraInv
<1>h. (changes > 0 => changes' > 0) /\ (forced => forced') /\ (undone => undone')
  BY <1>t, HistoryStep
<1> SUFFICES ASSUME drv'.pc = "refused", changes = 0, ~forced, ~undone
             PROVE  changes' > 0 \/ forced' \/ undone'
  BY <1>t, <1>h, SMTT(60) DEF RefusedForCause, TypeOK
<1>q. NothingChanged /\ NothingReleased
  BY <1>t
<1>1. CASE New
  <2>1. NewAccepts(hw)
    <3>1. ASSUME NEW u \in Recorded(disk)
          PROVE  /\ \A d \in Held(disk, u) : hw[d] # 0
                 /\ disk[u].stock = InventoryHash(Held(disk, u), hw)
      <4>1. Held(disk, u) \subseteq Devices
        BY <1>t DEF Recorded, Held, TypeOK, Records, Record
      <4> QED
        BY <4>1, <1>q, SMTT(60) DEF NothingChanged, Original, Recorded
    <3> QED
      BY <3>1, <1>t DEF NewAccepts, Exclusive, DisjointRecords
  <2> QED
    BY <1>1, <2>1, SMTT(60) DEF New
<1>2. ASSUME NEW u \in Claims, RefuseRecord(u) PROVE FALSE
  <2>1. u \in Recorded(disk) /\ mem[u] = disk[u]
    BY <1>2, <1>t, SMTT(60) DEF RefuseRecord, CallSound, NoCall, Serving
  <2> QED
    BY <1>2, <2>1, <1>q, SMTT(60) DEF RefuseRecord, NothingReleased, Held
<1>3. CASE PublishInventory
  BY <1>3, <1>q, <1>t DEF PublishInventory, NothingChanged, TypeOK
<1>4. CASE Synchronize
  <2>1. ASSUME NEW u \in Claims, kubelet[u] = "running" PROVE PreparedFor(u) # {}
    <3>1. u \in Recorded(disk)
      BY <2>1, <1>t, <1>q, Zenon DEF PodsSound, NothingReleased, Recorded
    <3>2. mem[u] = disk[u]
      BY <1>4, <1>t DEF Synchronize, CallSound, NoCall, Serving
    <3> QED
      BY <3>1, <3>2, ZenonT(60) DEF PreparedFor, Recorded, Held
  <2> QED
    BY <1>4, <2>1, <1>t, SMTT(60) DEF Synchronize, TypeOK
<1>5. CASE RebootHost \/ Crash \/ Serve
  BY <1>5, <1>t, SMTT(60) DEF RebootHost, Crash, Exit, Serve, TypeOK
<1>6. ASSUME NEW d \in Devices, NEW version \in Versions, ChangeHardware(d, version)
      PROVE  changes' > 0
  BY <1>6, <1>t, SMTT(60) DEF ChangeHardware, TypeOK
<1>7. CASE drv'.pc = drv.pc
  BY <1>7, <1>t, SMTT(60) DEF RefusedForCause
<1>8. ASSUME Flush \/ UNCHANGED vars \/ \E u \in Claims :
                 \/ DropRecord(u) \/ KeepRecord(u) \/ PrepareClaim(u) \/ FinishPrepare(u)
                 \/ UnprepareClaim(u) \/ FinishUnprepare(u) \/ Pod(u) \/ Cluster(u)
      PROVE  drv'.pc = drv.pc
  BY <1>8, <1>t, ZenonT(60)
  DEF Flush, DropRecord, KeepRecord, PrepareClaim, FinishPrepare, UnprepareClaim,
              FinishUnprepare, Pod, AdmitPod, CreateContainer, StopContainer, Cluster,
              CreateClaim, Allocate, Release, process, vars, TypeOK
<1> QED
  BY <1>1, <1>2, <1>3, <1>4, <1>5, <1>6, <1>7, <1>8, <1>t DEF Next, StartUp, Driver, TypeOK

-----------------------------------------------------------------------------
(* Pinning *)

\* A record with the name of the Pod's claim is the record of that claim.
LEMMA PreparedForOwn ==
    ASSUME DraInv, ~undone, drv.pc \in Serving, call = NoCall,
           NEW u \in Claims, kubelet[u] \in {"prepared", "running"}, NEW v \in PreparedFor(u)
    PROVE  Pinned(v) = given[u] \cap Cpus
<1>t. TypeOK /\ CallSound /\ PodsSound
  BY DEF DraInv
<1>1. v \in Claims /\ name[v] = name[u] /\ Held(mem, v) # {} /\ mem[v] = disk[v]
  BY <1>t, Zenon DEF PreparedFor, Recorded, CallSound, NoCall
<1>2. v \in Recorded(disk)
  BY <1>1, Zenon DEF Recorded, Held
<1>3. v = u /\ v \notin dropped
  BY <1>1, <1>2, <1>t DEF PodsSound
<1> QED
  BY <1>1, <1>3, <1>t DEF PodsSound, Pinned, Held

LEMMA PinnedStep ==
    ASSUME DraInv, [Next]_vars
    PROVE  PinnedToOwnClaim'
<1>t. TypeOK /\ CallSound /\ PodsSound /\ PinnedToOwnClaim
  BY DEF DraInv
<1>h. undone => undone'
  BY <1>t, HistoryStep
<1> SUFFICES ASSUME drv'.pc = "ready", ~undone', NEW w \in Claims, kubelet'[w] = "running"
             PROVE  cpuset'[w] = given'[w] \cap Cpus
  BY DEF PinnedToOwnClaim
<1>1. CASE Synchronize
  <2> DEFINE running == {u \in Claims : kubelet[u] = "running"}
  <2>1. w \in running /\ UNCHANGED given /\ drv.pc \in Serving /\ call = NoCall
    BY <1>1 DEF Synchronize, Serving
  <2>2. PICK choice \in [running -> Claims] :
            /\ choice[w] \in PreparedFor(w)
            /\ cpuset' = [u \in Claims |-> IF u \in running THEN Pinned(choice[u])
                                            ELSE cpuset[u]]
    <3>1. ~Exit("refused")
      BY SMTT(60) DEF Exit
    <3> QED
      BY <1>1, <2>1, <3>1, ZenonT(60) DEF Synchronize
  <2>3. Pinned(choice[w]) = given[w] \cap Cpus
    BY <2>1, <2>2, <1>h, PreparedForOwn
  <2> QED
    BY <2>1, <2>2, <2>3
<1>2. ASSUME NEW u \in Claims, CreateContainer(u) PROVE cpuset'[w] = given'[w] \cap Cpus
  <2>1. drv.pc = "ready" /\ call = NoCall /\ UNCHANGED given /\ kubelet[u] = "prepared"
    BY <1>2 DEF CreateContainer, process
  <2>2. CASE w = u
    BY <1>2, <2>1, <2>2, <1>h, <1>t, PreparedForOwn, SMTT(60) DEF CreateContainer, Serving, TypeOK
  <2>3. CASE w # u
    BY <1>2, <2>1, <2>3, <1>h, <1>t DEF CreateContainer, PinnedToOwnClaim, TypeOK
  <2> QED
    BY <2>2, <2>3
<1>3. ASSUME NEW u \in Claims, FinishPrepare(u) PROVE cpuset'[w] = given'[w] \cap Cpus
  <2>1. drv.pc = "ready" /\ kubelet[w] = "running" /\ UNCHANGED cpuset
    BY <1>3, <1>t, SMTT(60) DEF FinishPrepare, TypeOK
  <2>2. given'[w] = given[w]
    BY <1>3, <1>t, <2>1 DEF FinishPrepare, CallSound, PodsSound, TypeOK
  <2> QED
    BY <2>1, <2>2, <1>h, <1>t DEF PinnedToOwnClaim
<1>4. ASSUME NEW u \in Claims, UnprepareClaim(u) \/ FinishUnprepare(u) \/ AdmitPod(u)
                                \/ StopContainer(u)
      PROVE  cpuset'[w] = given'[w] \cap Cpus
  <2>1. w # u
    BY <1>4, <1>t, SMTT(60) DEF UnprepareClaim, FinishUnprepare, AdmitPod, StopContainer, TypeOK
  <2>2. /\ drv.pc = "ready" /\ kubelet[w] = "running"
        /\ cpuset'[w] = cpuset[w] /\ given'[w] = given[w]
    BY <1>4, <2>1, <1>t
    DEF UnprepareClaim, FinishUnprepare, AdmitPod, StopContainer, process, TypeOK
  <2> QED
    BY <2>2, <1>h, <1>t, SMTT(60) DEF PinnedToOwnClaim
<1>5. CASE drv.pc = "ready" /\ UNCHANGED <<kubelet, cpuset, given>>
  BY <1>5, <1>h, <1>t DEF PinnedToOwnClaim
<1>6. ASSUME New \/ Serve \/ PublishInventory \/ Crash \/ RebootHost \/ \E u \in Claims :
                 DropRecord(u) \/ KeepRecord(u) \/ RefuseRecord(u)
      PROVE  FALSE
  BY <1>6, <1>t, SMTT(60)
  DEF New, Serve, PublishInventory, Crash, RebootHost, DropRecord, KeepRecord,
                    RefuseRecord, Exit, TypeOK
<1>7. ASSUME Flush \/ UNCHANGED vars \/ (\E u \in Claims : PrepareClaim(u) \/ Cluster(u))
             \/ (\E d \in Devices, version \in Versions : ChangeHardware(d, version))
      PROVE  drv.pc = "ready" /\ UNCHANGED <<kubelet, cpuset, given>>
  BY <1>7, ZenonT(60)
  DEF Flush, PrepareClaim, Cluster, CreateClaim, Allocate, Release, ChangeHardware,
              process, pods, vars
<1> QED
  BY <1>1, <1>2, <1>3, <1>4, <1>5, <1>6, <1>7 DEF Next, StartUp, Driver, Pod

-----------------------------------------------------------------------------
(* Theorems *)

LEMMA InitInv == Init => DraInv
<1> SUFFICES ASSUME Init PROVE DraInv
  OBVIOUS
<1> USE DEF Init
<1>1. TypeOK
  <2>1. Original \in Stock /\ NoRecords \in Records /\ NoCall \in Calls
    <3>1. Original \in Stock
      BY SMTT(60) DEF Original, Stock, Versions
    <3>2. NoRecords \in Records
      BY <3>1, RecordTypes, ZenonT(60)
    <3>3. NoCall \in Calls
      BY DEF Calls
    <3> QED
      BY <3>1, <3>2, <3>3
  <2>2. /\ claim \in [Claims -> [life : {"none", "live", "deleted"}, alloc : SUBSET Devices]]
        /\ given \in [Claims -> SUBSET Devices] /\ cpuset \in [Claims -> SUBSET Devices]
        /\ kubelet \in [Claims -> {"none", "admitted", "prepared", "running", "stopped"}]
    OBVIOUS
  <2>3. drv \in [pc : Points, todo : SUBSET Claims] /\ published \in SUBSET Stock
    BY DEF Points
  <2>4. changes \in Nat /\ reboots \in Nat /\ changes + reboots <= MaxFaults
    BY DraAssumption, SMTT(60)
  <2>5. forced \in BOOLEAN /\ undone \in BOOLEAN /\ dropped \in SUBSET Claims
    BY ZenonT(60)
  <2> QED
    BY <2>1, <2>2, <2>3, <2>4, <2>5 DEF TypeOK
<1>2. Exclusive
  BY EmptyRecords DEF Exclusive
<1>3. CallSound
  BY DEF CallSound, Serving, NoCall
<1>4. PodsSound
  BY EmptyRecords, SMTT(60) DEF PodsSound, Recorded
<1>5. NothingChanged
  BY EmptyRecords, EmptyHash, ZenonT(60) DEF NothingChanged, Held
<1>6. NothingReleased
  BY EmptyRecords DEF NothingReleased, Recorded
<1>7. PinnedToOwnClaim /\ RefusedForCause
  BY DEF PinnedToOwnClaim, RefusedForCause
<1> QED
  BY <1>1, <1>2, <1>3, <1>4, <1>5, <1>6, <1>7 DEF DraInv

\* The inductive invariant holds of every reachable state of the driver, the
\* kubelet, the runtime and the claims.
THEOREM Inductive == Spec => []DraInv
<1>1. DraInv /\ [Next]_vars => DraInv'
  <2> SUFFICES ASSUME DraInv, [Next]_vars PROVE DraInv'
    OBVIOUS
  <2>1. TypeOK'
    BY TypeStep DEF DraInv
  <2>2. changes' = 0 => NothingChanged'
    BY ChangedStep
  <2>3. ~forced' /\ ~undone' => NothingReleased'
    BY ReleasedStep
  <2> QED
    BY <2>1, <2>2, <2>3, ExclusiveStep, CallStep, PodsStep, PinnedStep, RefusedStep DEF DraInv
<1> QED
  BY InitInv, <1>1, PTL DEF Spec

\* The types of the files, of Plugin.prepared and of what surrounds them.
THEOREM TypeCorrect == Spec => []TypeOK
<1>1. DraInv => TypeOK
  BY DEF DraInv
<1> QED
  BY Inductive, <1>1, PTL

\* No device is ever prepared for two claims, whatever crashes and power failures
\* come between AtomicJSON or os.Remove and the map, and although Unprepare and
\* Recover give devices back while others are prepared.
THEOREM PreparedOnce == Spec => []Exclusive
<1>1. DraInv => Exclusive
  BY DEF DraInv
<1> QED
  BY Inductive, <1>1, PTL

\* Whenever the mutex of PrepareResourceClaims and UnprepareResourceClaims is
\* free, Plugin.prepared is what a restarted driver would read.
THEOREM CrashForgetsNothing == Spec => []MemoryIsDisk
<1>1. DraInv => MemoryIsDisk
  <2> SUFFICES ASSUME DraInv, drv.pc \in Serving, call = NoCall PROVE mem = disk
    BY SMTT(60) DEF MemoryIsDisk
  <2>1. mem \in Records /\ disk \in Records /\ \A u \in Claims : mem[u] = disk[u]
    BY SMTT(60) DEF DraInv, TypeOK, CallSound, NoCall
  <2> QED
    BY <2>1, SMTT(60) DEF Records
<1> QED
  BY Inductive, <1>1, PTL

\* Running containers have no device in common, however claims are released and
\* devices allocated again, unless Recover dropped the record of one of them.
THEOREM NoSharing == Spec => []DevicesNotShared
<1>1. DraInv => DevicesNotShared
  BY ZenonT(60) DEF DraInv, DevicesNotShared, PodsSound, Exclusive, DisjointRecords
<1> QED
  BY Inductive, <1>1, PTL

\* Once Synchronize has run, containers are pinned to the CPUs of their own claim,
\* although PreparedFor compares names and claims come back under old ones.
THEOREM PinnedRight == Spec => []PinnedToOwnClaim
<1>1. DraInv => PinnedToOwnClaim
  BY DEF DraInv
<1> QED
  BY Inductive, <1>1, PTL

\* New, Recover, PublishInventory and Synchronize refuse nothing that the driver's
\* own crashes left behind.
THEOREM NoSelfInflictedRefusal == Spec => []RefusedForCause
<1>1. DraInv => RefusedForCause
  BY DEF DraInv
<1> QED
  BY Inductive, <1>1, PTL

=============================================================================
