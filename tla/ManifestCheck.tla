---------------------------- MODULE ManifestCheck ----------------------------
(***************************************************************************)
(* Validation of a checkpoint manifest (shared/checkpoint/manifest.go and  *)
(* optimizer.go): what Validate accepts, which objects a manifest stands   *)
(* for, and what both are worth to somebody who restores from it.          *)
(*                                                                         *)
(* A manifest is a record: world (size, ranks), adapters (hardware kinds   *)
(* with an advertised version), tensors (a sequence), total (parameters),  *)
(* dtype, optimizer (a path) and rng (a function from keys to paths).  A   *)
(* slice is a pair <<from, to>> per dimension; the ID of an object is a     *)
(* pair too, <<"rng", key>> for "rng_<key>" and <<"id", name>> for others.  *)
(* Syntax (patterns, hashes, times, unknown fields) is left out: an input   *)
(* of the model has passed it.                                             *)
(***************************************************************************)
EXTENDS Integers, FiniteSets, FiniteSetsExt, SequencesExt

CONSTANTS
    MaxUint,        \* math.MaxUint64
    MaxDimensions,
    MaxChunks,
    Atoi,           \* strconv.Atoi on the keys of an RNG map
    SomeTensors,    \* bounded inputs: tensors of a world with two ranks
    SomeManifests   \* bounded inputs: manifests

ASSUME ManifestAssumption ==
    MaxUint \in Nat /\ MaxDimensions \in Nat /\ MaxChunks \in Nat

-----------------------------------------------------------------------------
(* Tensors *)

\* product; 0 stands for its error, "shape is empty or overflows".
Product(shape) ==
    FoldLeft(LAMBDA n, d : IF d = 0 \/ n = 0 \/ n > MaxUint \div d THEN 0 ELSE n * d,
             1, shape)

\* Variant with a fault: slices that touch count as overlapping.
SlicesTouch(a, b) == \A i \in DOMAIN a : a[i][2] >= b[i][1] /\ b[i][2] >= a[i][1]

SlicesOverlap(a, b) == \A i \in DOMAIN a : a[i][2] > b[i][1] /\ b[i][2] > a[i][1]

\* One chunk of a tensor whose elements have size bytes.
ChunkValid(t, c, world) ==
    LET elements == Product(c.shape) IN
    /\ Len(c.slice) = Len(t.shape) /\ Len(c.shape) = Len(t.shape)
    /\ \A i \in DOMAIN t.shape : /\ c.slice[i][1] < c.slice[i][2]
                                 /\ c.slice[i][2] <= t.shape[i]
                                 /\ c.shape[i] = c.slice[i][2] - c.slice[i][1]
    /\ elements # 0 /\ elements <= MaxUint \div t.size
    /\ elements * t.size = c.length /\ c.offset <= MaxUint - c.length
    /\ c.writer \in 0 .. world.size - 1

\* The elements the chunks cover, counted with multiplicity; MaxUint + 1 when
\* the sum overflows.
Covered(t) ==
    FoldLeft(LAMBDA n, c : IF n > MaxUint - Product(c.shape) THEN MaxUint + 1
                           ELSE n + Product(c.shape), 0, t.chunks)

TensorValid(t, world) ==
    /\ Len(t.shape) \in 1 .. MaxDimensions /\ Product(t.shape) # 0
    /\ t.chunks # <<>>
    /\ \A i \in DOMAIN t.chunks : /\ ChunkValid(t, t.chunks[i], world)
                                  /\ \A j \in 1 .. i - 1 :
                                       ~SlicesOverlap(t.chunks[i].slice, t.chunks[j].slice)
    /\ Covered(t) = Product(t.shape)

-----------------------------------------------------------------------------
(* Manifests *)

WorldValid(world) ==
    /\ world.size >= 1 /\ Len(world.ranks) = world.size
    /\ \A i \in DOMAIN world.ranks :
         /\ world.ranks[i].rank \in 0 .. world.size - 1
         /\ \A j \in 1 .. i - 1 : world.ranks[j].rank # world.ranks[i].rank

\* Objects: every chunk, the optimizer metadata, and the RNG state of every key.
ChunkObjects(m) ==
    FlattenSeq([i \in DOMAIN m.tensors |->
                  [j \in DOMAIN m.tensors[i].chunks |->
                     LET c == m.tensors[i].chunks[j] IN
                     [id |-> c.id, path |-> c.path, writer |-> c.writer]]])

RngObjects(m) ==
    [i \in 1 .. Cardinality(DOMAIN m.rng) |->
       LET key == SetToSeq(DOMAIN m.rng)[i] IN
       [id |-> <<"rng", key>>, path |-> m.rng[key], writer |-> Atoi[key]]]

Objects(m) == ChunkObjects(m)
              \o <<[id |-> <<"id", "optimizer_metadata">>, path |-> m.optimizer, writer |-> 0]>>
              \o RngObjects(m)

\* Object: the first object with an ID.
Object(m, id) == LET found == SelectSeq(Objects(m), LAMBDA o : o.id = id) IN
                 IF found = <<>> THEN "not authorized" ELSE found[1]

\* uniquePath, for every object, and the duplicate check of chunk IDs.
UniquePaths(m) == \A i, j \in DOMAIN Objects(m) :
                    Objects(m)[i].path = Objects(m)[j].path => i = j

UniqueChunkIDs(m) == \A i, j \in DOMAIN ChunkObjects(m) :
                       ChunkObjects(m)[i].id = ChunkObjects(m)[j].id => i = j

Parameters(m) ==
    FoldLeft(LAMBDA n, t : n + IF t.role = "model_parameter" THEN Product(t.shape) ELSE 0,
             0, m.tensors)

\* Variant with a fault: the number of RNG states is not compared.
StateInRange(m) == \A key \in DOMAIN m.rng : Atoi[key] \in 0 .. m.world.size - 1

StateValid(m) == /\ Cardinality(DOMAIN m.rng) = m.world.size
                 /\ \A key \in DOMAIN m.rng : Atoi[key] \in 0 .. m.world.size - 1

Validate(m) ==
    /\ WorldValid(m.world)
    /\ \A i \in DOMAIN m.world.ranks : m.world.ranks[i].hardware \in m.adapters
    /\ m.tensors # <<>> /\ Len(ChunkObjects(m)) <= MaxChunks
    /\ \A i \in DOMAIN m.tensors :
         /\ TensorValid(m.tensors[i], m.world)
         /\ m.tensors[i].role = "model_parameter" => m.tensors[i].dtype = m.dtype
    /\ Parameters(m) <= MaxUint /\ Parameters(m) = m.total
    /\ UniqueChunkIDs(m) /\ UniquePaths(m)
    /\ StateValid(m)

-----------------------------------------------------------------------------
(* What validation is worth *)

Cells(shape) == {c \in [DOMAIN shape -> 0 .. Max(ToSet(shape))] :
                   \A i \in DOMAIN shape : c[i] < shape[i]}

Holds(slice, cell) == /\ DOMAIN slice = DOMAIN cell
                      /\ \A i \in DOMAIN cell : slice[i][1] <= cell[i] /\ cell[i] < slice[i][2]

\* Every element of the tensor is in exactly one chunk.
ExactCover(t) ==
    \A cell \in Cells(t.shape) :
        Cardinality({i \in DOMAIN t.chunks : Holds(t.chunks[i].slice, cell)}) = 1

\* Tensor.validate counts elements and compares slices in pairs.  Together they
\* accept a tensor of well-formed chunks if and only if every element of it is
\* in exactly one chunk, at the edge of the integer width too.
TensorsCovered ==
    \A t \in SomeTensors :
        LET world == [size |-> 2, ranks |-> <<>>] IN
        TensorValid(t, world) <=>
            /\ Len(t.shape) \in 1 .. MaxDimensions /\ Product(t.shape) # 0
            /\ \A i \in DOMAIN t.chunks : ChunkValid(t, t.chunks[i], world)
            /\ ExactCover(t)

\* The keys of the RNG map are spelled one way, and no chunk has the ID of a
\* state artifact.  Validate asks for neither.
Canonical(m) ==
    /\ \A k, l \in DOMAIN m.rng : Atoi[k] = Atoi[l] => k = l
    /\ \A i, j \in DOMAIN Objects(m) : Objects(m)[i].id = Objects(m)[j].id =>
         i = j \/ {i, j} \subseteq DOMAIN ChunkObjects(m)

\* Whoever restores from a manifest that Validate accepted gets every object by
\* its ID, the whole of every tensor, and one RNG state for every rank of the
\* world, and the objects do not share a path in the store.
ManifestsRestorable ==
    \A m \in SomeManifests : Validate(m) /\ Canonical(m) =>
        /\ \A i \in DOMAIN Objects(m) : Object(m, Objects(m)[i].id) = Objects(m)[i]
        /\ Cardinality({Objects(m)[i].path : i \in DOMAIN Objects(m)}) = Len(Objects(m))
        /\ \A i \in DOMAIN m.tensors : ExactCover(m.tensors[i])
        /\ \A r \in 0 .. m.world.size - 1 :
             /\ \E i \in DOMAIN m.world.ranks : m.world.ranks[i].rank = r
             /\ \E key \in DOMAIN m.rng : Atoi[key] = r
=============================================================================
