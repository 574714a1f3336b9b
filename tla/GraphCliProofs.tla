--------------------------- MODULE GraphCliProofs ---------------------------
(***************************************************************************)
(* Proofs about the graph commands for every set of ids, kinds, relation  *)
(* labels, workspaces, processes and bounds: the type invariant, and that *)
(* query prints every seed it hands to activate.                          *)
(***************************************************************************)
EXTENDS GraphCli, FiniteSetTheorems, TLAPS

(* Every scope's edge set is finite (so the counts of stats and export    *)
(* are numbers).                                                          *)
FiniteEdges == \A s \in Scopes : IsFiniteSet(store[s].edges)

(* A query waiting to call activate holds seeds that are stored nodes of  *)
(* its scope. They were read one or two backend calls earlier; they stay  *)
(* stored because no command removes a node (put_node only upserts).     *)
SeedsStored ==
    \A p \in Procs :
        pc[p] = "q_activate" => ctx[p].seeds \subseteq StoredIds(store[ctx[p].scope])

IInv == TypeOK /\ FiniteEdges /\ SeedsStored /\ QueryResultHasSeeds

-----------------------------------------------------------------------------
(* put_node keeps the store well formed and never un-stores a node.      *)
LEMMA PutNodeGrows ==
    ASSUME NEW g \in Graph, NEW id \in Ids, NEW kind \in Kinds
    PROVE  /\ PutNode(g, id, kind) \in Graph
           /\ PutNode(g, id, kind).edges = g.edges
           /\ StoredIds(g) \subseteq StoredIds(PutNode(g, id, kind))
BY StoreAssumption DEF PutNode, Graph, StoredIds, Stored

(* put_edge keeps the store well formed and finite, and leaves the node  *)
(* table alone.                                                           *)
LEMMA PutEdgeKeeps ==
    ASSUME NEW g \in Graph, NEW e \in EdgeRec, IsFiniteSet(g.edges)
    PROVE  /\ PutEdge(g, e) \in Graph
           /\ IsFiniteSet(PutEdge(g, e).edges)
           /\ PutEdge(g, e).nodes = g.nodes
<1>1. IsFiniteSet({f \in g.edges : f.id # e.id} \cup {e})
  BY FS_Subset, FS_AddElement
<1>2. QED
  BY <1>1 DEF PutEdge, Graph

(* The counts stats and export print are numbers.                        *)
LEMMA CountsNat ==
    ASSUME NEW g \in Graph, IsFiniteSet(g.edges), NEW fmt
    PROVE  /\ NodeCount(g) \in Nat
           /\ ArtifactSize(fmt, g) \in Nat
<1>1. NodeCount(g) \in Nat
  <2>1. IsFiniteSet(StoredIds(g))
    BY CliAssumption, FS_Subset DEF StoredIds
  <2>2. QED
    BY <2>1, FS_CardinalityType DEF NodeCount
<1>2. EdgeCount(g) \in Nat
  BY FS_CardinalityType DEF EdgeCount
<1>3. QED
  BY <1>1, <1>2 DEF ArtifactSize

(* A traversal reports stored nodes only, and edges of the store only.   *)
LEMMA TraversalInStore ==
    ASSUME NEW g \in Graph, NEW root \in Ids, NEW depth \in Nat, NEW f,
           NEW t \in Traversals(g, root, depth, f)
    PROVE  t.nodes \subseteq StoredIds(g) /\ t.edges \subseteq g.edges
BY DEF Traversals, Explored

(* activate reports stored nodes only; with top_n > 0 it reports every   *)
(* stored seed.                                                           *)
LEMMA ActivationKeepsSeeds ==
    ASSUME NEW g \in Graph, NEW seeds \in SUBSET Ids, NEW topN \in Nat,
           NEW R \in Activations(g, seeds, topN)
    PROVE  /\ R \subseteq Ids
           /\ topN # 0 => seeds \cap StoredIds(g) \subseteq R
<1>1. ActivationReach(g, seeds) \subseteq Ids
  BY DEF ActivationReach, StoredIds
<1>2. QED
  BY <1>1 DEF Activations, StoredIds

(* The argument checks of resolve_scope leave a scope of the store.      *)
LEMMA ResolveInScopes ==
    ASSUME NEW ws \in WsArgs, NEW global \in BOOLEAN, ScopeOk(ws, global)
    PROVE  ResolveScope(ws, global) \in Scopes
BY CliAssumption DEF ResolveScope, ScopeOk, WsArgs, Scopes

(* Changing one field of a report to a value of that field's type keeps  *)
(* it a report.                                                           *)
LEMMA OutUpdate ==
    ASSUME NEW r \in Out
    PROVE  /\ \A v \in Cmds : [r EXCEPT !.cmd = v] \in Out
           /\ \A v \in BOOLEAN : [r EXCEPT !.ok = v] \in Out
           /\ \A v \in 0..MaxK : [r EXCEPT !.k = v] \in Out
           /\ \A v \in SUBSET Ids : [r EXCEPT !.seeds = v] \in Out
           /\ \A v \in SUBSET Ids : [r EXCEPT !.nodes = v] \in Out
           /\ \A v \in Nat : [r EXCEPT !.scopeNodes = v] \in Out
           /\ \A v \in 0..MaxLimit : [r EXCEPT !.limit = v] \in Out
           /\ \A v \in SUBSET EdgeRec : [r EXCEPT !.inE = v] \in Out
           /\ \A v \in SUBSET EdgeRec : [r EXCEPT !.outE = v] \in Out
           /\ \A v \in SUBSET EdgeRec : [r EXCEPT !.incident = v] \in Out
           /\ \A v \in Nat : [r EXCEPT !.size = v] \in Out
           /\ \A v \in Nat : [r EXCEPT !.reported = v] \in Out
BY DEF Out

(* The values a command starts from and ends with are well typed.        *)
LEMMA DefaultsTyped ==
    /\ IdleCtx \in Ctx
    /\ NoOut \in Out
    /\ \A cmd \in Cmds : Failed(cmd) \in Out
    /\ \A cmd \in Cmds : [NoOut EXCEPT !.cmd = cmd] \in Out
<1>1. AnyId \in Ids /\ AnyPath \in Paths
  BY CliAssumption DEF AnyId, AnyPath
<1>2. IdleCtx \in Ctx
  BY <1>1, CliAssumption DEF IdleCtx, Ctx, Scopes
<1>3. NoOut \in Out
  BY CliAssumption DEF NoOut, Out, Cmds
<1>4. QED
  BY <1>2, <1>3 DEF Failed, Out, NoOut

(* A depth-0 traversal is the root alone, when it is stored.              *)
LEMMA TraversalDepth0 ==
    ASSUME NEW g \in Graph, NEW root \in Ids, NEW f,
           NEW t \in Traversals(g, root, 0, f)
    PROVE  t.nodes = {root} \cap StoredIds(g)
BY StoreAssumption DEF Traversals

-----------------------------------------------------------------------------
LEMMA InitIInv == Init => IInv
<1> SUFFICES ASSUME Init PROVE IInv
  OBVIOUS
<1>1. EmptyGraph \in Graph
  BY DEF EmptyGraph, Graph
<1>2. TypeOK
  BY <1>1, DefaultsTyped, CliAssumption DEF Init, TypeOK, Pcs
<1>3. FiniteEdges
  BY FS_EmptySet DEF Init, FiniteEdges, EmptyGraph
<1>4. SeedsStored /\ QueryResultHasSeeds
  BY DEF Init, SeedsStored, QueryResultHasSeeds, NoOut
<1>5. QED
  BY <1>2, <1>3, <1>4 DEF IInv

(* A command that ends with an error changes nothing but what it reports. *)
LEMMA FailKeeps ==
    ASSUME IInv, NEW cmd \in Cmds, last' = Failed(cmd),
           UNCHANGED <<store, written, pc, ctx, files, puts>>
    PROVE  IInv'
BY DefaultsTyped DEF IInv, TypeOK, FiniteEdges, SeedsStored, QueryResultHasSeeds, Failed, NoOut

LEMMA AddNodeIInv ==
    ASSUME IInv, NEW p \in Procs, NEW ws \in WsArgs, NEW global \in BOOLEAN,
           NEW id \in Ids, NEW kind \in Kinds, NEW metaOk \in BOOLEAN,
           AddNode(p, ws, global, id, kind, metaOk)
    PROVE  IInv'
<1>1. CASE ~ScopeOk(ws, global)
  BY <1>1, FailKeeps DEF AddNode, ScopeRejected, Cmds
<1>2. CASE ScopeOk(ws, global) /\ ~metaOk
  BY <1>2, FailKeeps DEF AddNode, ScopeRejected, Cmds
<1>3. CASE ScopeOk(ws, global) /\ metaOk
  <2> DEFINE sc == ResolveScope(ws, global)
  <2>1. sc \in Scopes
    BY <1>3, ResolveInScopes
  <2>2. /\ store' = [store EXCEPT ![sc] = PutNode(store[sc], id, kind)]
        /\ puts < MaxPuts /\ puts' = puts + 1
        /\ last' = [NoOut EXCEPT !.cmd = "add_node"]
        /\ UNCHANGED <<written, pc, ctx, files>>
    BY <1>3 DEF AddNode, ScopeRejected
  <2>3. /\ PutNode(store[sc], id, kind) \in Graph
        /\ PutNode(store[sc], id, kind).edges = store[sc].edges
        /\ StoredIds(store[sc]) \subseteq StoredIds(PutNode(store[sc], id, kind))
    BY <2>1, PutNodeGrows DEF IInv, TypeOK
  <2>4. TypeOK'
    <3>1. last' \in Out
      BY <2>2, DefaultsTyped DEF Cmds
    <3>2. store' \in [Scopes -> Graph]
      BY <2>1, <2>2, <2>3 DEF IInv, TypeOK
    <3>3. puts' \in 0..MaxPuts
      BY <2>2, CliAssumption DEF IInv, TypeOK
    <3>4. QED
      BY <2>2, <3>1, <3>2, <3>3 DEF IInv, TypeOK
  <2>5. FiniteEdges'
    BY <2>1, <2>2, <2>3 DEF IInv, FiniteEdges
  <2>6. SeedsStored'
    BY <2>1, <2>2, <2>3 DEF IInv, TypeOK, Ctx, SeedsStored
  <2>7. QueryResultHasSeeds'
    BY <2>2 DEF QueryResultHasSeeds
  <2>8. QED
    BY <2>4, <2>5, <2>6, <2>7 DEF IInv
<1>4. QED
  BY <1>1, <1>2, <1>3

LEMMA AddEdgeIInv ==
    ASSUME IInv, NEW p \in Procs, NEW ws \in WsArgs, NEW global \in BOOLEAN,
           NEW src \in Ids, NEW dst \in Ids, NEW rel \in Rels,
           AddEdge(p, ws, global, src, dst, rel)
    PROVE  IInv'
<1>1. CASE ~ScopeOk(ws, global)
  BY <1>1, FailKeeps DEF AddEdge, ScopeRejected, Cmds
<1>2. CASE ScopeOk(ws, global)
  <2> DEFINE sc == ResolveScope(ws, global)
             e  == [id |-> EdgeId(rel, src, dst), src |-> src, dst |-> dst, rel |-> rel]
  <2>1. sc \in Scopes
    BY <1>2, ResolveInScopes
  <2>2. e \in EdgeRec
    BY DEF EdgeRec, EdgeIds
  <2>3. /\ store' = [store EXCEPT ![sc] = PutEdge(store[sc], e)]
        /\ written' = [written EXCEPT ![sc] = @ \cup {[rel |-> rel, src |-> src, dst |-> dst]}]
        /\ puts < MaxPuts /\ puts' = puts + 1
        /\ last' = [NoOut EXCEPT !.cmd = "add_edge"]
        /\ UNCHANGED <<pc, ctx, files>>
    BY <1>2 DEF AddEdge, ScopeRejected
  <2>4. /\ PutEdge(store[sc], e) \in Graph
        /\ IsFiniteSet(PutEdge(store[sc], e).edges)
        /\ PutEdge(store[sc], e).nodes = store[sc].nodes
    BY <2>1, <2>2, PutEdgeKeeps DEF IInv, TypeOK, FiniteEdges
  <2>5. TypeOK'
    <3>1. last' \in Out
      BY <2>3, DefaultsTyped DEF Cmds
    <3>2. store' \in [Scopes -> Graph]
      BY <2>1, <2>3, <2>4 DEF IInv, TypeOK
    <3>3. written' \in [Scopes -> SUBSET Triple]
      BY <2>1, <2>3 DEF IInv, TypeOK, Triple
    <3>4. puts' \in 0..MaxPuts
      BY <2>3, CliAssumption DEF IInv, TypeOK
    <3>5. QED
      BY <2>3, <3>1, <3>2, <3>3, <3>4 DEF IInv, TypeOK
  <2>6. FiniteEdges'
    BY <2>1, <2>3, <2>4 DEF IInv, FiniteEdges
  <2>7. SeedsStored'
    BY <2>1, <2>3, <2>4 DEF IInv, TypeOK, Ctx, SeedsStored, StoredIds, Stored
  <2>8. QueryResultHasSeeds'
    BY <2>3 DEF QueryResultHasSeeds
  <2>9. QED
    BY <2>5, <2>6, <2>7, <2>8 DEF IInv
<1>3. QED
  BY <1>1, <1>2

LEMMA QueryStartIInv ==
    ASSUME IInv, NEW p \in Procs, NEW ws \in WsArgs, NEW global \in BOOLEAN,
           NEW text \in Ids, NEW k \in 0..MaxK,
           QueryStart(p, ws, global, text, k)
    PROVE  IInv'
<1>1. CASE ~ScopeOk(ws, global)
  BY <1>1, FailKeeps DEF QueryStart, ScopeRejected, Cmds
<1>2. CASE ScopeOk(ws, global)
  <2> DEFINE sc == ResolveScope(ws, global)
  <2>1. sc \in Scopes
    BY <1>2, ResolveInScopes
  <2>2. PICK t \in Traversals(store[sc], text, 0, DefaultFilters) :
          /\ pc' = [pc EXCEPT ![p] = IF MatchSeeds(t.nodes, text) # {}
                                     THEN "q_activate" ELSE "q_expand"]
          /\ ctx' = [ctx EXCEPT ![p] = [IdleCtx EXCEPT !.scope = sc, !.id = text,
                                                       !.k = k, !.seeds = MatchSeeds(t.nodes, text)]]
    BY <1>2 DEF QueryStart, ScopeRejected
  <2>3. UNCHANGED <<store, written, last, files, puts>>
    BY <1>2 DEF QueryStart, ScopeRejected
  <2>4. MatchSeeds(t.nodes, text) \subseteq StoredIds(store[sc])
    <3>1. t.nodes = {text} \cap StoredIds(store[sc])
      BY <2>1, TraversalDepth0 DEF IInv, TypeOK
    <3>2. QED
      BY <3>1 DEF MatchSeeds
  <2>5. TypeOK'
    <3>1. MatchSeeds(t.nodes, text) \in SUBSET Ids
      BY <2>4 DEF StoredIds
    <3>2. [IdleCtx EXCEPT !.scope = sc, !.id = text, !.k = k,
                          !.seeds = MatchSeeds(t.nodes, text)] \in Ctx
      BY <2>1, <3>1, DefaultsTyped DEF Ctx
    <3>3. QED
      BY <2>2, <2>3, <3>2 DEF IInv, TypeOK, Pcs
  <2>6. SeedsStored'
    BY <2>2, <2>3, <2>4, DefaultsTyped DEF IInv, TypeOK, SeedsStored, Ctx
  <2>7. FiniteEdges' /\ QueryResultHasSeeds'
    BY <2>3 DEF IInv, FiniteEdges, QueryResultHasSeeds
  <2>8. QED
    BY <2>5, <2>6, <2>7 DEF IInv
<1>3. QED
  BY <1>1, <1>2

LEMMA QueryExpandIInv ==
    ASSUME IInv, NEW p \in Procs, QueryExpand(p)
    PROVE  IInv'
<1> DEFINE g == store[ctx[p].scope]
<1>1. g \in Graph /\ ctx[p] \in Ctx
  BY DEF IInv, TypeOK, Ctx
<1>2. PICK t \in Traversals(g, ctx[p].id, 1, DefaultFilters) :
        \E S \in FirstK(t.nodes, ctx[p].k) :
           /\ pc' = [pc EXCEPT ![p] = IF S = {} THEN "q_fallback" ELSE "q_activate"]
           /\ ctx' = [ctx EXCEPT ![p].seeds = S]
  BY DEF QueryExpand
<1>3. PICK S \in FirstK(t.nodes, ctx[p].k) :
           /\ pc' = [pc EXCEPT ![p] = IF S = {} THEN "q_fallback" ELSE "q_activate"]
           /\ ctx' = [ctx EXCEPT ![p].seeds = S]
  BY <1>2
<1>4. UNCHANGED <<store, written, last, files, puts>>
  BY DEF QueryExpand
<1>5. S \subseteq StoredIds(g)
  <2>1. t.nodes \subseteq StoredIds(g)
    BY <1>1, TraversalInStore DEF Ctx
  <2>2. QED
    BY <2>1 DEF FirstK
<1>6. TypeOK'
  <2>1. S \in SUBSET Ids
    BY <1>5 DEF StoredIds
  <2>2. QED
    BY <1>3, <1>4, <2>1 DEF IInv, TypeOK, Pcs, Ctx
<1>7. SeedsStored'
  BY <1>1, <1>3, <1>4, <1>5 DEF IInv, TypeOK, SeedsStored, Ctx
<1>8. FiniteEdges' /\ QueryResultHasSeeds'
  BY <1>4 DEF IInv, FiniteEdges, QueryResultHasSeeds
<1>9. QED
  BY <1>6, <1>7, <1>8 DEF IInv

LEMMA QueryFallbackIInv ==
    ASSUME IInv, NEW p \in Procs, QueryFallback(p)
    PROVE  IInv'
<1>1. store[ctx[p].scope] \in Graph /\ IsFiniteSet(store[ctx[p].scope].edges)
      /\ ctx[p].k \in 0..MaxK
  BY DEF IInv, TypeOK, FiniteEdges, Ctx
<1>2. NodeCount(store[ctx[p].scope]) \in Nat
  BY <1>1, CountsNat
<1>3. TypeOK'
  <2>1. last' \in Out
    BY <1>1, <1>2, DefaultsTyped, OutUpdate DEF QueryFallback, Cmds
  <2>2. QED
    BY <2>1, DefaultsTyped DEF QueryFallback, IInv, TypeOK, Pcs
<1>4. SeedsStored'
  BY DEF QueryFallback, IInv, SeedsStored
<1>5. FiniteEdges' /\ QueryResultHasSeeds'
  BY DEF QueryFallback, IInv, FiniteEdges, QueryResultHasSeeds, NoOut
<1>6. QED
  BY <1>3, <1>4, <1>5 DEF IInv

LEMMA QueryActivateIInv ==
    ASSUME IInv, NEW p \in Procs, QueryActivate(p)
    PROVE  IInv'
<1> DEFINE g == store[ctx[p].scope]
<1>1. g \in Graph /\ IsFiniteSet(g.edges) /\ ctx[p] \in Ctx
  BY DEF IInv, TypeOK, FiniteEdges, Ctx
<1>2. PICK R \in Activations(g, ctx[p].seeds, 2 * ctx[p].k) :
        last' = [NoOut EXCEPT !.cmd = "query", !.k = ctx[p].k, !.seeds = ctx[p].seeds,
                              !.nodes = R, !.scopeNodes = NodeCount(g)]
  BY DEF QueryActivate
<1>3. /\ pc' = [pc EXCEPT ![p] = "idle"]
      /\ ctx' = [ctx EXCEPT ![p] = IdleCtx]
      /\ UNCHANGED <<store, written, files, puts>>
  BY DEF QueryActivate
<1>4. /\ R \subseteq Ids
      /\ 2 * ctx[p].k # 0 => ctx[p].seeds \cap StoredIds(g) \subseteq R
  BY <1>1, ActivationKeepsSeeds, CliAssumption DEF Ctx
<1>5. NodeCount(g) \in Nat
  BY <1>1, CountsNat
<1>6. TypeOK'
  <2>1. last' \in Out
    BY <1>1, <1>2, <1>4, <1>5, DefaultsTyped, OutUpdate DEF Cmds, Ctx
  <2>2. QED
    BY <1>3, <2>1, DefaultsTyped DEF IInv, TypeOK, Pcs
<1>7. SeedsStored'
  BY <1>3 DEF IInv, TypeOK, SeedsStored
<1>8. QueryResultHasSeeds'
  <2>1. ctx[p].seeds \subseteq StoredIds(g)
    BY DEF QueryActivate, IInv, SeedsStored
  <2>2. QED
    BY <1>1, <1>2, <1>4, <2>1, CliAssumption DEF QueryResultHasSeeds, NoOut, Ctx
<1>9. FiniteEdges'
  BY <1>3 DEF IInv, FiniteEdges
<1>10. QED
  BY <1>6, <1>7, <1>8, <1>9 DEF IInv

LEMMA NodeStartIInv ==
    ASSUME IInv, NEW p \in Procs, NEW ws \in WsArgs, NEW global \in BOOLEAN,
           NEW id \in Ids, NEW limit \in 0..MaxLimit,
           NodeStart(p, ws, global, id, limit)
    PROVE  IInv'
<1>1. CASE ~ScopeOk(ws, global)
  BY <1>1, FailKeeps DEF NodeStart, ScopeRejected, Cmds
<1>2. CASE ScopeOk(ws, global) /\ ~Stored(store[ResolveScope(ws, global)], id)
  BY <1>2, FailKeeps DEF NodeStart, ScopeRejected, Cmds
<1>3. CASE ScopeOk(ws, global) /\ Stored(store[ResolveScope(ws, global)], id)
  <2> DEFINE sc == ResolveScope(ws, global)
  <2>1. sc \in Scopes
    BY <1>3, ResolveInScopes
  <2>2. /\ pc' = [pc EXCEPT ![p] = "n_neighbors"]
        /\ ctx' = [ctx EXCEPT ![p] = [IdleCtx EXCEPT !.scope = sc, !.id = id,
                                                     !.limit = limit]]
        /\ UNCHANGED <<store, written, last, files, puts>>
    BY <1>3 DEF NodeStart, ScopeRejected
  <2>3. TypeOK'
    <3>1. [IdleCtx EXCEPT !.scope = sc, !.id = id, !.limit = limit] \in Ctx
      BY <2>1, DefaultsTyped DEF Ctx
    <3>2. QED
      BY <2>2, <3>1 DEF IInv, TypeOK, Pcs
  <2>4. QED
    BY <2>2, <2>3 DEF IInv, TypeOK, FiniteEdges, SeedsStored, QueryResultHasSeeds
<1>4. QED
  BY <1>1, <1>2, <1>3

LEMMA NodeNeighborsIInv ==
    ASSUME IInv, NEW p \in Procs, NodeNeighbors(p)
    PROVE  IInv'
<1> DEFINE g  == store[ctx[p].scope]
           id == ctx[p].id
           lim == ctx[p].limit
<1>1. g \in Graph /\ ctx[p] \in Ctx
  BY DEF IInv, TypeOK, Ctx
<1>2. PICK t \in Traversals(g, id, 1, DefaultFilters) :
        last' = [NoOut EXCEPT !.cmd = "node", !.limit = lim,
                   !.outE = SortTruncate({e \in t.edges : e.src = id}, lim),
                   !.inE  = SortTruncate({e \in t.edges : e.src # id /\ e.dst = id}, lim),
                   !.incident = {e \in g.edges : e.src = id \/ e.dst = id}]
  BY DEF NodeNeighbors
<1>3. /\ pc' = [pc EXCEPT ![p] = "idle"]
      /\ ctx' = [ctx EXCEPT ![p] = IdleCtx]
      /\ UNCHANGED <<store, written, files, puts>>
  BY DEF NodeNeighbors
<1>4. t.edges \subseteq g.edges /\ g.edges \subseteq EdgeRec
  BY <1>1, TraversalInStore DEF Ctx, Graph
<1>5. /\ SortTruncate({e \in t.edges : e.src = id}, lim) \in SUBSET EdgeRec
      /\ SortTruncate({e \in t.edges : e.src # id /\ e.dst = id}, lim) \in SUBSET EdgeRec
      /\ {e \in g.edges : e.src = id \/ e.dst = id} \in SUBSET EdgeRec
  BY <1>4 DEF SortTruncate
<1>6. last' \in Out
  BY <1>1, <1>2, <1>5, DefaultsTyped, OutUpdate DEF Cmds, Ctx
<1>7. TypeOK'
  BY <1>3, <1>6, DefaultsTyped DEF IInv, TypeOK, Pcs
<1>8. QED
  BY <1>2, <1>3, <1>7 DEF IInv, TypeOK, FiniteEdges, SeedsStored, QueryResultHasSeeds, NoOut

LEMMA ExportStartIInv ==
    ASSUME IInv, NEW p \in Procs, NEW ws \in WsArgs, NEW global \in BOOLEAN,
           NEW fmt \in FormatArgs, NEW path \in Paths,
           ExportStart(p, ws, global, fmt, path)
    PROVE  IInv'
<1>1. CASE ~ScopeOk(ws, global)
  BY <1>1, FailKeeps DEF ExportStart, ScopeRejected, Cmds
<1>2. CASE ScopeOk(ws, global) /\ fmt \notin {"dot", "jsonl"}
  BY <1>2, FailKeeps DEF ExportStart, ScopeRejected, Cmds
<1>3. CASE ScopeOk(ws, global) /\ fmt \in {"dot", "jsonl"}
  <2> DEFINE sc   == ResolveScope(ws, global)
             size == ArtifactSize(fmt, store[sc])
  <2>1. sc \in Scopes
    BY <1>3, ResolveInScopes
  <2>2. /\ files' = [files EXCEPT ![path] = size]
        /\ ctx' = [ctx EXCEPT ![p] = [IdleCtx EXCEPT !.scope = sc, !.path = path,
                                                     !.size = size]]
        /\ pc' = [pc EXCEPT ![p] = "e_meta"]
        /\ UNCHANGED <<store, written, last, puts>>
    BY <1>3 DEF ExportStart, ScopeRejected
  <2>3. size \in Nat
    BY <2>1, CountsNat DEF IInv, TypeOK, FiniteEdges
  <2>4. TypeOK'
    <3>1. [IdleCtx EXCEPT !.scope = sc, !.path = path, !.size = size] \in Ctx
      BY <2>1, <2>3, DefaultsTyped DEF Ctx
    <3>2. QED
      BY <2>2, <2>3, <3>1 DEF IInv, TypeOK, Pcs
  <2>5. QED
    BY <2>2, <2>4 DEF IInv, TypeOK, FiniteEdges, SeedsStored, QueryResultHasSeeds
<1>4. QED
  BY <1>1, <1>2, <1>3

LEMMA ExportMetaIInv ==
    ASSUME IInv, NEW p \in Procs, ExportMeta(p)
    PROVE  IInv'
<1>1. ctx[p].size \in Nat /\ files[ctx[p].path] \in Nat
  BY DEF IInv, TypeOK, Ctx
<1>2. last' \in Out
  BY <1>1, DefaultsTyped, OutUpdate DEF ExportMeta, Cmds
<1>3. TypeOK'
  BY <1>2, DefaultsTyped DEF ExportMeta, IInv, TypeOK, Pcs
<1>4. QED
  BY <1>3 DEF ExportMeta, IInv, TypeOK, FiniteEdges, SeedsStored, QueryResultHasSeeds, NoOut

LEMMA CallFailsIInv ==
    ASSUME IInv, NEW p \in Procs, CallFails(p)
    PROVE  IInv'
<1>1. PICK cmd \in Cmds : last' = Failed(cmd)
  BY DEF CallFails, IInv, TypeOK, Pcs, Cmds
<1>2. TypeOK'
  BY <1>1, DefaultsTyped DEF CallFails, IInv, TypeOK, Pcs
<1>3. QED
  BY <1>1, <1>2 DEF CallFails, IInv, TypeOK, FiniteEdges, SeedsStored, QueryResultHasSeeds,
                    Failed, NoOut

LEMMA NextIInv == IInv /\ [Next]_vars => IInv'
<1> SUFFICES ASSUME IInv, [Next]_vars PROVE IInv'
  OBVIOUS
<1>1. ASSUME NEW p \in Procs, NEW ws \in WsArgs, NEW global \in BOOLEAN,
             \/ \E id \in Ids, kind \in Kinds, metaOk \in BOOLEAN :
                   AddNode(p, ws, global, id, kind, metaOk)
             \/ \E src, dst \in Ids, rel \in Rels : AddEdge(p, ws, global, src, dst, rel)
             \/ \E text \in Ids, k \in 0..MaxK : QueryStart(p, ws, global, text, k)
             \/ \E id \in Ids, limit \in 0..MaxLimit : NodeStart(p, ws, global, id, limit)
             \/ \E fmt \in FormatArgs, path \in Paths : ExportStart(p, ws, global, fmt, path)
      PROVE  IInv'
  BY <1>1, AddNodeIInv, AddEdgeIInv, QueryStartIInv, NodeStartIInv, ExportStartIInv
<1>2. ASSUME NEW p \in Procs,
             \/ QueryExpand(p) \/ QueryFallback(p) \/ QueryActivate(p)
             \/ NodeNeighbors(p) \/ ExportMeta(p) \/ CallFails(p)
      PROVE  IInv'
  BY <1>2, QueryExpandIInv, QueryFallbackIInv, QueryActivateIInv, NodeNeighborsIInv,
     ExportMetaIInv, CallFailsIInv
<1>3. CASE UNCHANGED vars
  BY <1>3 DEF vars, IInv, TypeOK, FiniteEdges, SeedsStored, QueryResultHasSeeds
<1>4. QED
  BY <1>1, <1>2, <1>3 DEF Next

-----------------------------------------------------------------------------
(* Every variable of the graph commands keeps its type in every behaviour: *)
(* in particular every scope holds a well-formed store, the counts stats  *)
(* and export print are natural numbers, and what a command reports only  *)
(* names ids and edges of the model.                                      *)
THEOREM TypeCorrect == Spec => []TypeOK
BY InitIInv, NextIInv, PTL DEF Spec, IInv

(* query (graph.rs:79-120) prints every seed it handed to activate when   *)
(* --k >= 1, for any number of processes writing to the scope between its *)
(* three backend calls: seeds are stored nodes when chosen, put_node never *)
(* un-stores a node, and activate with top_n = 2k > 0 keeps stored seeds. *)
THEOREM SeedsPrinted == Spec => []QueryResultHasSeeds
BY InitIInv, NextIInv, PTL DEF Spec, IInv
=============================================================================
