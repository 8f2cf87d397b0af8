------------------------------ MODULE MCStore ------------------------------
(* An instance of Store for TLC, and the inputs for ManifestCheck. *)
EXTENDS Store, ManifestCheck

\* Two attempts that agree on the shard and differ in the optimizer state.
TwoBytes == ("first" :> ("shard" :> 1 @@ "opt" :> 2))
            @@ ("second" :> ("shard" :> 1 @@ "opt" :> 3))

\* Keys of an RNG map: two ranks, and another spelling of the first.
Spelled == "0" :> 0 @@ "1" :> 1 @@ "00" :> 0

Span(b) == IF b[2] < b[1] THEN 0 ELSE b[2] - b[1]

ChunkOf(slice, length) ==
    [id |-> <<"id", "c">>, path |-> "p", slice |-> slice, offset |-> 0, writer |-> 0,
     shape |-> [i \in DOMAIN slice |-> Span(slice[i])],
     length |-> length]

TensorOf(shape, chunks) ==
    [shape |-> shape, chunks |-> chunks, size |-> 1, role |-> "model_parameter",
     dtype |-> "int8"]

\* Up to three chunks of a row, with any bounds, and of a square, which
\* overflows when MaxUint = 3.
Bounds(n)  == {<<i, j>> : i, j \in 0 .. n}
Proper(n)  == {b \in Bounds(n) : b[1] < b[2]}
Pieces(slices) == {ChunkOf(s, Product([i \in DOMAIN s |-> Span(s[i])])) : s \in slices}
UpTo(k, set)   == UNION {[1 .. n -> set] : n \in 0 .. k}

SmallTensors ==
    {TensorOf(<<n>>, chunks) : n \in 2 .. 3, chunks \in UpTo(3, Pieces([1 .. 1 -> Bounds(3)]))}
    \cup {TensorOf(<<n, 2>>, chunks) :
             n \in 1 .. 2, chunks \in UpTo(3, Pieces([1 .. 2 -> Proper(2)]))}

Whole == ChunkOf(<<<<0, 2>>>>, 2)
Left  == ChunkOf(<<<<0, 1>>>>, 1)
Right == ChunkOf(<<<<1, 2>>>>, 1)
IDs   == {<<"id", "c">>, <<"rng", "0">>}

Cut == {<<[Whole EXCEPT !.id = i]>> : i \in IDs}
       \cup {<<[Left EXCEPT !.id = i], [Right EXCEPT !.id = j, !.path = p]>> :
               i \in IDs, j \in IDs, p \in {"p", "q"}}

SmallManifests ==
    {[world |-> [size |-> n, ranks |-> [i \in DOMAIN ranks |->
                                          [rank |-> ranks[i], hardware |-> "cpu"]]],
      adapters |-> {"cpu"}, tensors |-> <<TensorOf(<<2>>, chunks)>>, total |-> 2,
      dtype |-> "int8", optimizer |-> optimizer, rng |-> rng] :
        n \in 1 .. 2, ranks \in UNION {[1 .. k -> 0 .. 2] : k \in 0 .. 2},
        chunks \in Cut, optimizer \in {"o", "q"},
        rng \in UNION {[keys -> {"q", "r", "s"}] : keys \in SUBSET {"0", "1", "00"}}}

-----------------------------------------------------------------------------
\* The flusher serves a commit request only after DecodeManifest has accepted
\* its manifest: every tensor it describes is then covered exactly once, and
\* whoever restores from it later finds every object, all of every tensor and an
\* RNG state for every rank.
AcceptedRestores ==
    \A a \in Attempts : com[a].pc # "none" => TensorsCovered /\ ManifestsRestorable
=============================================================================
