----------------------------- MODULE GraphStore -----------------------------
(***************************************************************************)
(* The Graph Memory Engine's store and its pure algorithms: the backend    *)
(* capability set (put_node, put_edge, get_node, raw_neighbors, raw_stats, *)
(* raw_export) for one scope, Neighbor Traversal and Spreading Activation. *)
(* The facade and backend source (memory/graph/facade.rs, backend.rs) is   *)
(* not part of src/, so every definition below except EdgeId is written    *)
(* from spec.md sections 3 and 4.2-4.6.                                    *)
(*                                                                         *)
(* Identifiers (node ids, relation labels, edge ids) are strings, written  *)
(* as sequences of one-character strings so that edge-id formatting and    *)
(* the byte-wise ordering of String can be modelled by what they do.       *)
(***************************************************************************)
EXTENDS Naturals, Sequences, FiniteSets

CONSTANTS
    Ids,        \* node ids that commands may name (strings as char sequences)
    Kinds,      \* node kind labels
    Rels,       \* relation labels (strings as char sequences)
    WsIds,      \* workspace ids
    Global,     \* the GraphScope::Global value
    NoNode,     \* "absent" in the node table
    Alphabet,   \* the characters in use, in byte order
    MaxDepth,   \* the implementation's defensive traversal depth cap
    MaxHops     \* the implementation's activation hop limit

ASSUME StoreAssumption ==
    /\ Global \notin WsIds
    /\ NoNode \notin Kinds
    /\ MaxDepth \in Nat
    /\ MaxHops \in Nat

Scopes == WsIds \cup {Global}

Colon == <<":">>

(* Mutant: the destination left out of the format string.                *)
EdgeIdNoDst(rel, src, dst) == <<"e", "d", "g", "e", ":">> \o rel \o Colon \o src

(* Mutant: the source left out of the format string.                    *)
EdgeIdNoSrc(rel, src, dst) == <<"e", "d", "g", "e", ":">> \o rel \o Colon \o dst

(* graph.rs add_edge: format!("edge:{}:{}:{}", rel, src, dst).             *)
EdgeId(rel, src, dst) == <<"e", "d", "g", "e", ":">> \o rel \o Colon \o src \o Colon \o dst

EdgeIds == {EdgeId(r, s, d) : r \in Rels, s \in Ids, d \in Ids}

(* A stored edge. The weight and the meta bag are left out: no property   *)
(* of the model tells two weights apart (activation ranking among         *)
(* non-seeds is abstracted, see Activations).                             *)
EdgeRec == [id : EdgeIds, src : Ids, dst : Ids, rel : Rels]

(* One scope's store: the node table (id -> kind) and the edge set keyed  *)
(* by edge id.                                                            *)
Graph == [nodes : [Ids -> Kinds \cup {NoNode}], edges : SUBSET EdgeRec]

EmptyGraph == [nodes |-> [n \in Ids |-> NoNode], edges |-> {}]

Stored(g, n) == g.nodes[n] # NoNode

StoredIds(g) == {n \in Ids : Stored(g, n)}

(* put_node: upsert by id, replacing kind (and meta, last_seen).          *)
PutNode(g, id, kind) == [g EXCEPT !.nodes[id] = kind]

(* Mutant: the upsert is keyed on the source node instead of the id.     *)
PutEdgeBySrc(g, e) == [g EXCEPT !.edges = {f \in g.edges : f.src # e.src} \cup {e}]

(* put_edge: upsert by edge id; the endpoints need not exist.             *)
PutEdge(g, e) == [g EXCEPT !.edges = {f \in g.edges : f.id # e.id} \cup {e}]

(* raw_stats: node and edge totals.                                       *)
NodeCount(g) == Cardinality(StoredIds(g))

EdgeCount(g) == Cardinality(g.edges)

(* raw_export: the artifact's size, counted in records (lines). Jsonl has *)
(* one record per node and per edge; Dot adds the digraph header/footer.  *)
ArtifactSize(fmt, g) == NodeCount(g) + EdgeCount(g) + (IF fmt = "dot" THEN 2 ELSE 0)

-----------------------------------------------------------------------------
(* Neighbor Traversal (spec 4.4). A filter is [rels, kinds, directed];    *)
(* an absent allow-set (None) is the full set, which passes every value.  *)
DefaultFilters == [rels |-> Rels, kinds |-> Kinds, directed |-> FALSE]

Far(e, x) == IF e.src = x THEN e.dst ELSE e.src

(* e may be followed from x: x is its source, or any endpoint when the    *)
(* traversal is undirected, and its relation passes the filter.           *)
Usable(g, f, x, e) ==
    /\ e \in g.edges
    /\ \/ e.src = x
       \/ ~f.directed /\ e.dst = x
    /\ e.rel \in f.rels

(* The far node joins the frontier only if it is stored and its kind      *)
(* passes the filter; a missing endpoint propagates nothing.              *)
Admit(g, f, n) == Stored(g, n) /\ g.nodes[n] \in f.kinds

(* Breadth-first layers: Layers[i] holds the nodes found within i hops.   *)
Layers(g, root, f) ==
    LET V[i \in Nat] ==
          IF i = 0 THEN {root}
          ELSE V[i - 1] \cup
                 {y \in Ids : \E x \in V[i - 1], e \in g.edges :
                                 Usable(g, f, x, e) /\ Far(e, x) = y /\ Admit(g, f, y)}
    IN  V

(* The edges the walk may report: each one followed from a node found     *)
(* before the last hop, towards a node it found or towards a missing one. *)
Explored(g, root, d, f) ==
    LET V == Layers(g, root, f) IN
    {e \in g.edges : \E x \in V[d - 1] :
                        /\ Usable(g, f, x, e)
                        /\ Far(e, x) \in V[d] \/ ~Stored(g, Far(e, x))}

(* Every node found at hop i is reached by a reported edge from hop i-1.  *)
TreeCovered(g, root, d, f, E) ==
    LET V == Layers(g, root, f) IN
    \A i \in 1..d : \A y \in V[i] \ V[i - 1] :
        \E x \in V[i - 1], e \in E : Usable(g, f, x, e) /\ Far(e, x) = y

(* raw_neighbors(root, depth, filters): the possible results. The walked  *)
(* tree is reported; a non-tree edge between found nodes, or towards a    *)
(* missing node, may or may not be (spec 4.4 leaves it open). Depth 0     *)
(* gives the root alone, when stored, and no edges.                       *)
Traversals(g, root, depth, f) ==
    LET d == IF depth < MaxDepth THEN depth ELSE MaxDepth IN
    IF d = 0 THEN {[nodes |-> {root} \cap StoredIds(g), edges |-> {}]}
    ELSE {[nodes |-> Layers(g, root, f)[d] \cap StoredIds(g), edges |-> E] :
            E \in {E \in SUBSET Explored(g, root, d, f) : TreeCovered(g, root, d, f, E)}}

-----------------------------------------------------------------------------
(* Spreading Activation (spec 4.5). Propagation runs src -> dst for at    *)
(* most MaxHops hops, out of seeds and stored nodes only. Ranking by      *)
(* score is abstracted: the surviving non-seeds are any set of the size   *)
(* the truncation leaves room for. Stored seeds always survive; a seed    *)
(* that is not a stored node is not reported (the spec's recommendation). *)
ActivationReach(g, seeds) ==
    LET A[i \in Nat] ==
          IF i = 0 THEN seeds
          ELSE A[i - 1] \cup {e.dst : e \in {e2 \in g.edges : e2.src \in A[i - 1]
                                                    /\ (e2.src \in seeds \/ Stored(g, e2.src))}}
    IN  A[MaxHops] \cap StoredIds(g)

Activations(g, seeds, topN) ==
    IF topN = 0 THEN {{}}
    ELSE LET S     == seeds \cap StoredIds(g)
             O     == ActivationReach(g, seeds) \ seeds
             room  == IF topN > Cardinality(S) THEN topN - Cardinality(S) ELSE 0
             taken == IF room < Cardinality(O) THEN room ELSE Cardinality(O)
         IN  {S \cup X : X \in {X \in SUBSET O : Cardinality(X) = taken}}

-----------------------------------------------------------------------------
(* String ordering (Ord for String): byte-wise lexicographic.             *)
CharRank(c) == CHOOSE i \in 1..Len(Alphabet) : Alphabet[i] = c

StrLess(s, t) ==
    \E i \in 0..Len(s) :
        /\ i <= Len(t)
        /\ SubSeq(s, 1, i) = SubSeq(t, 1, i)
        /\ \/ i = Len(s) /\ i < Len(t)
           \/ i < Len(s) /\ i < Len(t) /\ CharRank(s[i + 1]) < CharRank(t[i + 1])
=============================================================================
