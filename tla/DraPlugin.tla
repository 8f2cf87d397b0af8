----------------------------- MODULE DraPlugin -----------------------------
(***************************************************************************)
(* Prepared claims of a DRA driver on one node (shared/draplugin): their   *)
(* records on disk and in memory, across crashes of the driver and of the  *)
(* host, with the parties that use them: the kubelet, the container        *)
(* runtime (NRI), the scheduler and whoever deletes claims.                *)
(*                                                                         *)
(* A mutex is held during Prepare and Unprepare, so other calls see memory *)
(* before or after; a crash can come between the file and the map.  What   *)
(* an allocation or a device is beyond its name and version is left out,   *)
(* and so equal hashes are equal values.                                   *)
(***************************************************************************)
EXTENDS Naturals

CONSTANTS
    Claims,      \* ResourceClaim UIDs
    Names,       \* namespace/name of claims: two UIDs may have the same
    Devices,     \* devices of the driver's pool on this node
    Cpus,        \* those of them that are CPUs, pinned through NRI
    Numa,        \* NUMA node of each device
    Strict,      \* whether the driver has a Prepare hook (the optical one has none)
    MaxFaults    \* bound: hardware changes and host reboots

ASSUME DraAssumption ==
    /\ Cpus \subseteq Devices /\ Strict \in BOOLEAN
    /\ MaxFaults \in Nat

VARIABLES
    name,       \* API server: the name of each claim
    claim,      \* API server: each claim's life and allocation
    disk,       \* record files, as a restarted driver would find them
    durable,    \* record files, as a power failure would leave them
    mem,        \* Plugin.prepared
    drv,        \* the driver: program point, claims still to recover
    call,       \* the call that holds the mutex
    inv,        \* the inventory the driver discovered when it started
    hw,         \* the devices a start of the driver would discover
    published,  \* whether this boot's inventory is on the Node, and which
    kubelet,    \* kubelet checkpoint: how far each claim's Pod is
    given,      \* devices handed to the Pod of a claim
    cpuset,     \* CPUs its container may run on
    changes, reboots,
    forced,     \* history: a claim was released while its Pod was on the node
    dropped,    \* history: claims whose record was dropped under their Pod
    undone      \* history: a power failure brought an old record back

objects == <<name, claim>>
process == <<mem, drv, call, inv>>
pods    == <<kubelet, given, cpuset>>
hist    == <<forced, dropped, undone>>
bounds  == <<changes, reboots>>
vars    == <<objects, disk, durable, process, hw, published, pods, hist, bounds>>

-----------------------------------------------------------------------------
(* State *)

Versions == 0..2    \* of a device: absent, the original one, another one
Stock    == [Devices -> Versions]
Original == [d \in Devices |-> 1]

\* PreparedClaim: Devices (which the allocation hash covers) and Inventory.
Record    == [devices : SUBSET Devices, stock : Stock]
NoRecord  == [devices |-> {}, stock |-> [d \in Devices |-> 0]]
NoRecords == [u \in Claims |-> NoRecord]
NoCall    == [kind |-> "none", uid |-> {}]

Calls   == {NoCall} \cup [kind : {"prepare", "unprepare"}, uid : {{u} : u \in Claims}]
Points  == {"down", "refused", "recover", "serving", "published", "ready"}
Serving == {"serving", "published", "ready"}

Held(records, u) == records[u].devices
Recorded(records) == {u \in Claims : Held(records, u) # {}}
Live(u) == claim[u].life = "live"

Init ==
    /\ name \in [Claims -> Names]
    /\ claim = [u \in Claims |-> [life |-> "none", alloc |-> {}]]
    /\ disk = NoRecords /\ durable = NoRecords /\ mem = NoRecords
    /\ drv = [pc |-> "down", todo |-> {}] /\ call = NoCall
    /\ hw = Original /\ inv = Original
    /\ published = {}
    /\ kubelet = [u \in Claims |-> "none"]
    /\ given = [u \in Claims |-> {}] /\ cpuset = given
    /\ changes = 0 /\ reboots = 0
    /\ forced = FALSE /\ dropped = {} /\ undone = FALSE

\* The process ends: only the files remain.
Exit(pc) ==
    /\ drv' = [pc |-> pc, todo |-> {}] /\ call' = NoCall
    /\ mem' = NoRecords /\ UNCHANGED inv

-----------------------------------------------------------------------------
(* Start of the driver: Run, New, Recover, PublishInventory, Synchronize *)

\* inventoryHash: what the record's devices are in this inventory.
InventoryHash(devices, inventory) ==
    [d \in Devices |-> IF d \in devices THEN inventory[d] ELSE 0]

\* New refuses a record with an absent or changed device, and devices held twice.
NewAccepts(inventory) ==
    /\ \A u \in Recorded(disk) :
        /\ \A d \in Held(disk, u) : inventory[d] # 0
        /\ disk[u].stock = InventoryHash(Held(disk, u), inventory)
    /\ \A u, v \in Claims : u # v => Held(disk, u) \cap Held(disk, v) = {}

\* Run up to New: discover the inventory, read the records.
New ==
    /\ drv.pc \in {"down", "refused"}
    /\ inv' = hw
    /\ \/ /\ NewAccepts(hw)
          /\ mem' = disk /\ drv' = [pc |-> "recover", todo |-> Recorded(disk)]
       \/ /\ ~NewAccepts(hw)
          /\ drv' = [pc |-> "refused", todo |-> {}] /\ UNCHANGED mem
    /\ UNCHANGED <<objects, disk, durable, call, hw, published, pods, hist, bounds>>

\* Recover, one record: the claim has gone (or its name has another UID).
DropRecord(u) ==
    /\ drv.pc = "recover" /\ u \in drv.todo /\ ~Live(u)
    /\ disk' = [disk EXCEPT ![u] = NoRecord] /\ mem' = [mem EXCEPT ![u] = NoRecord]
    /\ drv' = [drv EXCEPT !.todo = @ \ {u}]
    /\ dropped' = IF kubelet[u] \in {"prepared", "running"} THEN dropped \cup {u} ELSE dropped
    /\ UNCHANGED <<objects, durable, call, inv, hw, published, pods, forced, undone, bounds>>

KeepRecord(u) ==
    /\ drv.pc = "recover" /\ u \in drv.todo /\ Live(u)
    /\ claim[u].alloc = Held(mem, u)
    /\ drv' = [drv EXCEPT !.todo = @ \ {u}]
    /\ UNCHANGED <<objects, disk, durable, mem, call, inv, hw, published, pods, hist, bounds>>

\* "is no longer allocated", "allocation changed".
RefuseRecord(u) ==
    /\ drv.pc = "recover" /\ u \in drv.todo /\ Live(u)
    /\ claim[u].alloc # Held(mem, u)
    /\ Exit("refused")
    /\ UNCHANGED <<objects, disk, durable, hw, published, pods, hist, bounds>>

\* Variant with a fault: a program point from which nothing goes on.
ServeNowhere ==
    /\ drv.pc = "recover" /\ drv.todo = {}
    /\ drv' = [drv EXCEPT !.pc = "started"]
    /\ UNCHANGED <<objects, disk, durable, mem, call, inv, hw, published, pods, hist, bounds>>

\* Start: the kubelet may call from now on.
Serve ==
    /\ drv.pc = "recover" /\ drv.todo = {}
    /\ drv' = [drv EXCEPT !.pc = "serving"]
    /\ UNCHANGED <<objects, disk, durable, mem, call, inv, hw, published, pods, hist, bounds>>

\* One inventory per boot; another one ends the driver.
PublishInventory ==
    /\ drv.pc = "serving"
    /\ \/ published \subseteq {inv} /\ published' = {inv}
          /\ drv' = [drv EXCEPT !.pc = "published"] /\ UNCHANGED <<mem, call, inv>>
       \/ ~(published \subseteq {inv}) /\ Exit("refused") /\ UNCHANGED published
    /\ UNCHANGED <<objects, disk, durable, hw, pods, hist, bounds>>

\* Variant with a fault: the name is not compared.
AnyPrepared(u) == Recorded(mem)

\* PreparedFor: some record with the name of the Pod's claim.
PreparedFor(u) == {v \in Recorded(mem) : name[v] = name[u]}

Pinned(v) == Held(mem, v) \cap Cpus

\* NRI connects and updates every container, or fails when one has no record.
Synchronize ==
    LET running == {u \in Claims : kubelet[u] = "running"} IN
    /\ drv.pc = "published" /\ call = NoCall
    /\ \/ /\ \A u \in running : PreparedFor(u) # {}
          /\ \E choice \in [running -> Claims] :
                /\ \A u \in running : choice[u] \in PreparedFor(u)
                /\ cpuset' = [u \in Claims |-> IF u \in running THEN Pinned(choice[u])
                                               ELSE cpuset[u]]
          /\ drv' = [drv EXCEPT !.pc = "ready"] /\ UNCHANGED <<mem, call, inv>>
       \/ /\ \E u \in running : PreparedFor(u) = {}
          /\ Exit("refused") /\ UNCHANGED cpuset
    /\ UNCHANGED <<objects, disk, durable, hw, published, kubelet, given, hist, bounds>>

Crash ==
    /\ drv.pc \notin {"down", "refused"}
    /\ Exit("down")
    /\ UNCHANGED <<objects, disk, durable, hw, published, pods, hist, bounds>>

-----------------------------------------------------------------------------
(* Calls of the kubelet *)

\* Variant with a fault: records of other claims are not looked at.
HeldOrNot(u) == TRUE

NotHeld(u) == \A v \in Claims : v # u => claim[u].alloc \cap Held(mem, v) = {}

\* The Prepare hook: one NUMA node and at least one CPU.
HookAccepts(devices) ==
    Strict => /\ devices \cap Cpus # {}
              /\ \A d, e \in devices : Numa[d] = Numa[e]

Preparable(u) ==
    /\ claim[u].alloc # {} /\ \A d \in claim[u].alloc : inv[d] # 0
    /\ NotHeld(u) /\ HookAccepts(claim[u].alloc)

\* PrepareResourceClaims up to the file: a new record, or the old one again.
PrepareClaim(u) ==
    LET record == [devices |-> claim[u].alloc,
                   stock |-> InventoryHash(claim[u].alloc, inv)] IN
    /\ drv.pc \in Serving /\ call = NoCall
    /\ kubelet[u] \in {"admitted", "prepared", "running"} /\ Live(u)
    /\ \/ u \in Recorded(mem) /\ mem[u] = record
       \/ u \notin Recorded(mem) /\ Preparable(u)
    /\ disk' = [disk EXCEPT ![u] = record]
    /\ call' = [kind |-> "prepare", uid |-> {u}]
    /\ UNCHANGED <<objects, durable, mem, drv, inv, hw, published, pods, hist, bounds>>

FinishPrepare(u) ==
    /\ call = [kind |-> "prepare", uid |-> {u}]
    /\ mem' = [mem EXCEPT ![u] = disk[u]] /\ call' = NoCall
    /\ given' = [given EXCEPT ![u] = Held(disk, u)]
    /\ kubelet' = [kubelet EXCEPT ![u] = IF @ = "admitted" THEN "prepared" ELSE @]
    /\ UNCHANGED <<objects, disk, durable, drv, inv, hw, published, cpuset, hist, bounds>>

\* Variant with a fault: the file stays.
UnprepareMemoryOnly(u) ==
    /\ drv.pc \in Serving /\ call = NoCall
    /\ kubelet[u] \in {"admitted", "prepared", "stopped"}
    /\ kubelet' = [kubelet EXCEPT ![u] = "stopped"]
    /\ call' = [kind |-> "unprepare", uid |-> {u}]
    /\ UNCHANGED <<objects, disk, durable, mem, drv, inv, hw, published, given, cpuset, hist,
                   bounds>>

\* UnprepareResourceClaims up to the file.  The Pod is over and stays so; the
\* kubelet repeats the call until it succeeds.
UnprepareClaim(u) ==
    /\ drv.pc \in Serving /\ call = NoCall
    /\ kubelet[u] \in {"admitted", "prepared", "stopped"}
    /\ kubelet' = [kubelet EXCEPT ![u] = "stopped"]
    /\ disk' = [disk EXCEPT ![u] = NoRecord]
    /\ call' = [kind |-> "unprepare", uid |-> {u}]
    /\ UNCHANGED <<objects, durable, mem, drv, inv, hw, published, given, cpuset, hist, bounds>>

\* Variant with a fault: the record stays in memory.
FinishUnprepareFileOnly(u) ==
    /\ call = [kind |-> "unprepare", uid |-> {u}]
    /\ call' = NoCall
    /\ given' = [given EXCEPT ![u] = {}] /\ kubelet' = [kubelet EXCEPT ![u] = "none"]
    /\ UNCHANGED <<objects, disk, durable, mem, drv, inv, hw, published, cpuset, hist, bounds>>

FinishUnprepare(u) ==
    /\ call = [kind |-> "unprepare", uid |-> {u}]
    /\ mem' = [mem EXCEPT ![u] = NoRecord] /\ call' = NoCall
    /\ given' = [given EXCEPT ![u] = {}] /\ kubelet' = [kubelet EXCEPT ![u] = "none"]
    /\ UNCHANGED <<objects, disk, durable, drv, inv, hw, published, cpuset, hist, bounds>>

\* The kubelet takes a Pod of the claim, unless it still has another claim of
\* that name in its checkpoint.
AdmitPod(u) ==
    /\ kubelet[u] = "none" /\ Live(u) /\ claim[u].alloc # {}
    /\ \A v \in Claims : name[v] = name[u] => kubelet[v] = "none"
    /\ kubelet' = [kubelet EXCEPT ![u] = "admitted"]
    /\ UNCHANGED <<objects, disk, durable, process, hw, published, given, cpuset, hist, bounds>>

\* nriDriver.CreateContainer; while NRI is not connected nobody pins.
CreateContainer(u) ==
    /\ kubelet[u] = "prepared"
    /\ \/ /\ drv.pc = "ready" /\ call = NoCall
          /\ \E v \in PreparedFor(u) : cpuset' = [cpuset EXCEPT ![u] = Pinned(v)]
       \/ drv.pc # "ready" /\ cpuset' = [cpuset EXCEPT ![u] = Cpus]
    /\ kubelet' = [kubelet EXCEPT ![u] = "running"]
    /\ UNCHANGED <<objects, disk, durable, process, hw, published, given, hist, bounds>>

StopContainer(u) ==
    /\ kubelet[u] = "running"
    /\ kubelet' = [kubelet EXCEPT ![u] = "stopped"]
    /\ cpuset' = [cpuset EXCEPT ![u] = {}]
    /\ UNCHANGED <<objects, disk, durable, process, hw, published, given, hist, bounds>>

-----------------------------------------------------------------------------
(* Claims and hosts *)

CreateClaim(u) ==
    /\ claim[u].life = "none" /\ \A v \in Claims : Live(v) => name[v] # name[u]
    /\ claim' = [claim EXCEPT ![u].life = "live"]
    /\ UNCHANGED <<name, disk, durable, process, hw, published, pods, hist, bounds>>

\* The scheduler gives every device to one claim at a time.
Allocate(u, devices) ==
    /\ Live(u) /\ claim[u].alloc = {} /\ devices # {}
    /\ \A v \in Claims : devices \cap claim[v].alloc = {}
    /\ claim' = [claim EXCEPT ![u].alloc = devices]
    /\ UNCHANGED <<name, disk, durable, process, hw, published, pods, hist, bounds>>

\* A claim loses its allocation, or is deleted.  Kubernetes waits for the
\* kubelet, unless the Pod was deleted by force.
Release(u, life) ==
    /\ Live(u) /\ (life = "live" => claim[u].alloc # {})
    /\ claim' = [claim EXCEPT ![u] = [life |-> life, alloc |-> {}]]
    /\ forced' = (forced \/ kubelet[u] # "none")
    /\ UNCHANGED <<name, disk, durable, process, hw, published, pods, dropped, undone, bounds>>

\* A device fails, comes back or is replaced; an accelerator also goes when its
\* CDI specification cannot be generated.  Only a start of the driver looks.
ChangeHardware(d, version) ==
    /\ drv.pc \in {"down", "refused"} /\ changes + reboots < MaxFaults /\ changes' = changes + 1
    /\ version # hw[d] /\ hw' = [hw EXCEPT ![d] = version]
    /\ UNCHANGED <<objects, disk, durable, process, published, pods, hist, reboots>>

\* AtomicJSON syncs the file and not the directory: file creations and removals
\* become durable later.
Flush ==
    /\ changes + reboots < MaxFaults /\ durable # disk /\ durable' = disk
    /\ UNCHANGED <<objects, disk, process, hw, published, pods, hist, bounds>>

RebootHost ==
    /\ changes + reboots < MaxFaults /\ reboots' = reboots + 1
    /\ Exit("down")
    /\ disk' = durable
    /\ undone' = (undone \/ \E u \in Recorded(durable) : durable[u] # disk[u])
    /\ published' = {}
    /\ kubelet' = [u \in Claims |->
                      IF kubelet[u] \in {"none", "stopped"} THEN kubelet[u] ELSE "admitted"]
    /\ given' = [u \in Claims |-> {}] /\ cpuset' = [u \in Claims |-> {}]
    /\ UNCHANGED <<objects, durable, hw, forced, dropped, changes>>

-----------------------------------------------------------------------------
(* Specification *)

Driver(u) ==
    \/ DropRecord(u) \/ KeepRecord(u) \/ RefuseRecord(u)
    \/ PrepareClaim(u) \/ FinishPrepare(u) \/ UnprepareClaim(u) \/ FinishUnprepare(u)

StartUp == New \/ Serve \/ PublishInventory \/ Synchronize

Pod(u) == AdmitPod(u) \/ CreateContainer(u) \/ StopContainer(u)

Cluster(u) == \/ CreateClaim(u)
              \/ \E devices \in SUBSET Devices : Allocate(u, devices)
              \/ \E life \in {"live", "deleted"} : Release(u, life)

Next == \/ StartUp \/ Crash \/ Flush \/ RebootHost
        \/ \E u \in Claims : Driver(u) \/ Pod(u) \/ Cluster(u)
        \/ \E d \in Devices, version \in Versions : ChangeHardware(d, version)

Spec == Init /\ [][Next]_vars

-----------------------------------------------------------------------------
(* Properties *)

Records == [Claims -> Record]

TypeOK ==
    /\ name \in [Claims -> Names]
    /\ claim \in [Claims -> [life : {"none", "live", "deleted"}, alloc : SUBSET Devices]]
    /\ disk \in Records /\ durable \in Records /\ mem \in Records
    /\ drv \in [pc : Points, todo : SUBSET Claims] /\ call \in Calls
    /\ inv \in Stock /\ hw \in Stock /\ published \in SUBSET Stock
    /\ kubelet \in [Claims -> {"none", "admitted", "prepared", "running", "stopped"}]
    /\ given \in [Claims -> SUBSET Devices] /\ cpuset \in [Claims -> SUBSET Devices]
    /\ changes \in Nat /\ reboots \in Nat /\ changes + reboots <= MaxFaults
    /\ forced \in BOOLEAN /\ dropped \in SUBSET Claims /\ undone \in BOOLEAN

DisjointRecords(records) ==
    \A u, v \in Claims : u # v => Held(records, u) \cap Held(records, v) = {}

\* No device is ever prepared for two claims: not in memory, not in the files a
\* restarted driver finds, not in those a power failure leaves.  So New never
\* meets a device "held by claims" u and v.
Exclusive == DisjointRecords(mem) /\ DisjointRecords(disk) /\ DisjointRecords(durable)

\* Between calls memory and files agree, so that a crash forgets no preparation
\* the kubelet was told of and revives none that was given back.
MemoryIsDisk == drv.pc \in Serving /\ call = NoCall => mem = disk

\* No two running containers have a device in common, even when a claim was
\* released under its Pod and its devices allocated again: Prepare refuses them
\* until the old claim is unprepared.  Only a restart of the driver, which drops
\* the record of a deleted claim whether or not its Pod is still there, breaks it.
DevicesNotShared ==
    \A u, v \in Claims : u # v /\ kubelet[u] = "running" /\ kubelet[v] = "running" =>
        given[u] \cap given[v] = {} \/ u \in dropped \/ v \in dropped

\* Once NRI is connected every container is pinned to the CPUs of its own claim,
\* although PreparedFor goes by name and claims come back under old names; unless
\* a power failure revived the record of an earlier claim of that name.
PinnedToOwnClaim ==
    drv.pc = "ready" => \A u \in Claims : kubelet[u] = "running" =>
        cpuset[u] = given[u] \cap Cpus \/ undone

\* The driver refuses to start only for a cause outside it: hardware that
\* changed, a claim released under its Pod, or a record a power failure revived.
\* A crash between any two of its own steps is never a cause.
RefusedForCause ==
    drv.pc = "refused" => changes > 0 \/ forced \/ undone

-----------------------------------------------------------------------------
(* Inductive invariant *)

\* Who holds the mutex, and where memory may differ from the files.
CallSound ==
    /\ drv.pc \notin Serving => call = NoCall
    /\ drv.pc \in {"down", "refused"} => mem = NoRecords
    /\ drv.todo # {} => drv.pc = "recover" /\ drv.todo \subseteq Recorded(disk)
    /\ drv.pc \in Serving \cup {"recover"} =>
           \A u \in Claims : u \notin call.uid => mem[u] = disk[u]
    /\ \A u \in Claims : call = [kind |-> "prepare", uid |-> {u}] =>
           Held(disk, u) # {} /\ u \notin dropped /\ kubelet[u] # "none"
    /\ \A u \in Claims : call = [kind |-> "unprepare", uid |-> {u}] =>
           disk[u] = NoRecord /\ kubelet[u] = "stopped"

\* What the kubelet's checkpoint says of claims, names and records.
PodsSound ==
    /\ \A u \in Claims : kubelet[u] # "none" => claim[u].life # "none"
    /\ \A u, v \in Claims : u # v /\ name[u] = name[v] =>
           kubelet[u] = "none" \/ kubelet[v] = "none"
    /\ \A u \in Claims : kubelet[u] \in {"prepared", "running"} /\ u \notin dropped =>
           given[u] # {} /\ given[u] = Held(disk, u)
    /\ \A u \in dropped : claim[u].life = "deleted"
    /\ ~undone => \A u \in Recorded(disk) : kubelet[u] # "none" /\ u \notin dropped

\* What records are as long as nothing outside the driver went wrong.
NothingChanged ==
    /\ hw = Original /\ inv = Original /\ published \subseteq {Original}
    /\ \A u \in Claims :
           /\ disk[u].stock = InventoryHash(Held(disk, u), Original)
           /\ durable[u].stock = InventoryHash(Held(durable, u), Original)

NothingReleased ==
    /\ dropped = {}
    /\ \A u \in Recorded(disk) : Live(u) /\ claim[u].alloc = Held(disk, u)

DraInv ==
    /\ TypeOK /\ Exclusive /\ CallSound /\ PodsSound
    /\ changes = 0 => NothingChanged
    /\ ~forced /\ ~undone => NothingReleased
    /\ PinnedToOwnClaim /\ RefusedForCause

=============================================================================
