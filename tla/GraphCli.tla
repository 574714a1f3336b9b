------------------------------ MODULE GraphCli ------------------------------
(***************************************************************************)
(* The graph commands of the command-line front end                       *)
(* (mind/src/interface/commands/graph.rs) run by concurrent CLI processes *)
(* against the per-scope store of GraphStore.                             *)
(*                                                                         *)
(* Each backend call is one atomic step (spec 5: a write to a scope is    *)
(* atomic with respect to reads and writes of that scope). A command that *)
(* makes one backend call is one action; a command that makes several is  *)
(* one action per call, and other processes' commands interleave between  *)
(* them. pc[p] says which call process p makes next, ctx[p] holds what it *)
(* has computed so far, last is what its latest command reported.      *)
(***************************************************************************)
EXTENDS GraphStore

CONSTANTS
    Procs,      \* concurrently running CLI invocations
    DefaultWs,  \* cfg.ws_default
    None,       \* an absent --ws argument
    Paths,      \* export destinations
    FormatArgs, \* --format strings a user may pass
    MaxK,       \* largest --k passed to query
    MaxLimit,   \* largest --limit passed to node
    MaxPuts     \* bound on successful writes in a behaviour

ASSUME CliAssumption ==
    /\ Ids # {} /\ IsFiniteSet(Ids)
    /\ Paths # {}
    /\ DefaultWs \in WsIds
    /\ None \notin WsIds
    /\ MaxK \in Nat
    /\ MaxLimit \in Nat
    /\ MaxPuts \in Nat

VARIABLES
    store,    \* scope -> Graph
    written,  \* scope -> the (rel, src, dst) triples put_edge was given there
    pc,       \* process -> next backend call
    ctx,      \* process -> locals of the running command
    last,     \* outcome of the latest command that ended, in any process
    files,    \* path -> size of the artifact there (0: no file)
    puts      \* successful writes so far

vars == <<store, written, pc, ctx, last, files, puts>>

WsArgs == WsIds \cup {None}

Triple == [rel : Rels, src : Ids, dst : Ids]

Pcs == {"idle", "q_expand", "q_fallback", "q_activate", "n_neighbors", "e_meta"}

Cmds == {"none", "add_node", "add_edge", "query", "node", "export"}

Ctx == [scope : Scopes, id : Ids, k : 0..MaxK, limit : 0..MaxLimit,
        path : Paths, seeds : SUBSET Ids, size : Nat]

Out == [cmd : Cmds, ok : BOOLEAN, k : 0..MaxK, seeds : SUBSET Ids,
        nodes : SUBSET Ids, scopeNodes : Nat, limit : 0..MaxLimit,
        inE : SUBSET EdgeRec, outE : SUBSET EdgeRec, incident : SUBSET EdgeRec,
        size : Nat, reported : Nat]

AnyId == CHOOSE i \in Ids : TRUE

AnyPath == CHOOSE q \in Paths : TRUE

IdleCtx == [scope |-> DefaultWs, id |-> AnyId, k |-> 0, limit |-> 0,
            path |-> AnyPath, seeds |-> {}, size |-> 0]

NoOut == [cmd |-> "none", ok |-> TRUE, k |-> 0, seeds |-> {}, nodes |-> {},
          scopeNodes |-> 0, limit |-> 0, inE |-> {}, outE |-> {}, incident |-> {},
          size |-> 0, reported |-> 0]

(* A command ends with an error (anyhow::bail! or a ? on an Err).         *)
Failed(cmd) == [NoOut EXCEPT !.cmd = cmd, !.ok = FALSE]

-----------------------------------------------------------------------------
(* resolve_scope: --global together with --ws is an error; --global alone *)
(* is Global; otherwise the given workspace or cfg.ws_default.            *)
ScopeOk(ws, global) == ~(global /\ ws # None)

ResolveScope(ws, global) ==
    IF global THEN Global ELSE IF ws = None THEN DefaultWs ELSE ws

(* The error every command reports when resolve_scope fails.              *)
ScopeRejected(p, ws, global, cmd) ==
    /\ ~ScopeOk(ws, global)
    /\ last' = Failed(cmd)
    /\ UNCHANGED <<store, written, pc, ctx, files, puts>>

-----------------------------------------------------------------------------
(* add_node: resolve, parse --meta as JSON (an error writes nothing),     *)
(* stamp last_seen, put_node.                                             *)
AddNode(p, ws, global, id, kind, metaOk) ==
    /\ pc[p] = "idle"
    /\ \/ ScopeRejected(p, ws, global, "add_node")
       \/ /\ ScopeOk(ws, global)
          /\ ~metaOk
          /\ last' = Failed("add_node")
          /\ UNCHANGED <<store, written, pc, ctx, files, puts>>
       \/ /\ ScopeOk(ws, global)
          /\ metaOk
          /\ puts < MaxPuts
          /\ LET s == ResolveScope(ws, global) IN
             store' = [store EXCEPT ![s] = PutNode(@, id, kind)]
          /\ puts' = puts + 1
          /\ last' = [NoOut EXCEPT !.cmd = "add_node"]
          /\ UNCHANGED <<written, pc, ctx, files>>

(* add_edge: resolve, format the edge id, put_edge (meta Null).           *)
AddEdge(p, ws, global, src, dst, rel) ==
    /\ pc[p] = "idle"
    /\ \/ ScopeRejected(p, ws, global, "add_edge")
       \/ /\ ScopeOk(ws, global)
          /\ puts < MaxPuts
          /\ LET s == ResolveScope(ws, global)
                 e == [id |-> EdgeId(rel, src, dst), src |-> src, dst |-> dst, rel |-> rel]
             IN  /\ store' = [store EXCEPT ![s] = PutEdge(@, e)]
                 /\ written' = [written EXCEPT ![s] = @ \cup {[rel |-> rel, src |-> src, dst |-> dst]}]
          /\ puts' = puts + 1
          /\ last' = [NoOut EXCEPT !.cmd = "add_edge"]
          /\ UNCHANGED <<pc, ctx, files>>

-----------------------------------------------------------------------------
(* query, first call: neighbors(text, 0). A match makes text the only     *)
(* seed; otherwise the command goes on to the depth-1 expansion.          *)
MatchSeedsInverted(sub0, text) == IF sub0 = {} THEN {text} ELSE {}

MatchSeeds(sub0, text) == IF sub0 # {} THEN {text} ELSE {}

QueryStart(p, ws, global, text, k) ==
    /\ pc[p] = "idle"
    /\ \/ ScopeRejected(p, ws, global, "query")
       \/ /\ ScopeOk(ws, global)
          /\ LET s == ResolveScope(ws, global) IN
             \E t \in Traversals(store[s], text, 0, DefaultFilters) :
                LET seeds == MatchSeeds(t.nodes, text) IN
                /\ pc' = [pc EXCEPT ![p] = IF seeds # {} THEN "q_activate" ELSE "q_expand"]
                /\ ctx' = [ctx EXCEPT ![p] = [IdleCtx EXCEPT !.scope = s, !.id = text,
                                                             !.k = k, !.seeds = seeds]]
          /\ UNCHANGED <<store, written, last, files, puts>>

(* The loop over the depth-1 nodes: push, then stop once len >= k. It     *)
(* walks the traversal's own order, which the spec leaves to the          *)
(* implementation, so any max(k,1) of them (all, if fewer) may be taken.  *)
FirstK(nodes, k) ==
    LET want == IF k = 0 THEN 1 ELSE k
        n    == IF want < Cardinality(nodes) THEN want ELSE Cardinality(nodes)
    IN  {S \in SUBSET nodes : Cardinality(S) = n}

(* query, second call: neighbors(text, 1).                                *)
QueryExpand(p) ==
    /\ pc[p] = "q_expand"
    /\ \E t \in Traversals(store[ctx[p].scope], ctx[p].id, 1, DefaultFilters) :
         \E S \in FirstK(t.nodes, ctx[p].k) :
            /\ pc' = [pc EXCEPT ![p] = IF S = {} THEN "q_fallback" ELSE "q_activate"]
            /\ ctx' = [ctx EXCEPT ![p].seeds = S]
    /\ UNCHANGED <<store, written, last, files, puts>>

(* query with no seed: one stats call, then "nodes: 0 edges: 0".          *)
QueryFallback(p) ==
    /\ pc[p] = "q_fallback"
    /\ pc' = [pc EXCEPT ![p] = "idle"]
    /\ last' = [NoOut EXCEPT !.cmd = "query", !.k = ctx[p].k,
                              !.scopeNodes = NodeCount(store[ctx[p].scope])]
    /\ ctx' = [ctx EXCEPT ![p] = IdleCtx]
    /\ UNCHANGED <<store, written, files, puts>>

(* query, last call: activate(seeds, top_n = k * 2).                      *)
QueryActivate(p) ==
    /\ pc[p] = "q_activate"
    /\ LET g == store[ctx[p].scope] IN
       \E R \in Activations(g, ctx[p].seeds, 2 * ctx[p].k) :
          last' = [NoOut EXCEPT !.cmd = "query", !.k = ctx[p].k, !.seeds = ctx[p].seeds,
                                !.nodes = R, !.scopeNodes = NodeCount(g)]
    /\ pc' = [pc EXCEPT ![p] = "idle"]
    /\ ctx' = [ctx EXCEPT ![p] = IdleCtx]
    /\ UNCHANGED <<store, written, files, puts>>

-----------------------------------------------------------------------------
(* node, first call: get_node; an absent node is "node not found".        *)
NodeStart(p, ws, global, id, limit) ==
    /\ pc[p] = "idle"
    /\ \/ ScopeRejected(p, ws, global, "node")
       \/ /\ ScopeOk(ws, global)
          /\ LET s == ResolveScope(ws, global) IN
             IF Stored(store[s], id)
             THEN /\ pc' = [pc EXCEPT ![p] = "n_neighbors"]
                  /\ ctx' = [ctx EXCEPT ![p] = [IdleCtx EXCEPT !.scope = s, !.id = id,
                                                               !.limit = limit]]
                  /\ UNCHANGED last
             ELSE /\ last' = Failed("node")
                  /\ UNCHANGED <<pc, ctx>>
          /\ UNCHANGED <<store, written, files, puts>>

(* sort_by id, then truncate(limit): the limit smallest ids.              *)
SortTruncate(E, limit) ==
    {e \in E : Cardinality({f \in E : StrLess(f.id, e.id)}) < limit}

(* node, second call: neighbors(id, 1); edges with src = id are out-edges,*)
(* else those with dst = id in-edges; each list sorted and truncated.     *)
NodeNeighbors(p) ==
    /\ pc[p] = "n_neighbors"
    /\ LET g  == store[ctx[p].scope]
           id == ctx[p].id
       IN  \E t \in Traversals(g, id, 1, DefaultFilters) :
             last' = [NoOut EXCEPT !.cmd = "node", !.limit = ctx[p].limit,
                        !.outE = SortTruncate({e \in t.edges : e.src = id}, ctx[p].limit),
                        !.inE  = SortTruncate({e \in t.edges : e.src # id /\ e.dst = id},
                                              ctx[p].limit),
                        !.incident = {e \in g.edges : e.src = id \/ e.dst = id}]
    /\ pc' = [pc EXCEPT ![p] = "idle"]
    /\ ctx' = [ctx EXCEPT ![p] = IdleCtx]
    /\ UNCHANGED <<store, written, files, puts>>

-----------------------------------------------------------------------------
(* export, first call: parse --format ("dot" | "jsonl", else an error     *)
(* before any backend call), then the backend writes the whole scope.     *)
ExportStart(p, ws, global, fmt, path) ==
    /\ pc[p] = "idle"
    /\ \/ ScopeRejected(p, ws, global, "export")
       \/ /\ ScopeOk(ws, global)
          /\ fmt \notin {"dot", "jsonl"}
          /\ last' = Failed("export")
          /\ UNCHANGED <<store, written, pc, ctx, files, puts>>
       \/ /\ ScopeOk(ws, global)
          /\ fmt \in {"dot", "jsonl"}
          /\ LET s    == ResolveScope(ws, global)
                 size == ArtifactSize(fmt, store[s])
             IN  /\ files' = [files EXCEPT ![path] = size]
                 /\ ctx' = [ctx EXCEPT ![p] = [IdleCtx EXCEPT !.scope = s, !.path = path,
                                                              !.size = size]]
          /\ pc' = [pc EXCEPT ![p] = "e_meta"]
          /\ UNCHANGED <<store, written, last, puts>>

(* export, second call: fs::metadata(out).len() is reported.              *)
ExportMeta(p) ==
    /\ pc[p] = "e_meta"
    /\ last' = [NoOut EXCEPT !.cmd = "export", !.size = ctx[p].size,
                              !.reported = files[ctx[p].path]]
    /\ pc' = [pc EXCEPT ![p] = "idle"]
    /\ ctx' = [ctx EXCEPT ![p] = IdleCtx]
    /\ UNCHANGED <<store, written, files, puts>>

(* A backend call of a running command fails (BackendUnavailable, I/O):   *)
(* the ? propagates it and the command ends with an error.                *)
CallFails(p) ==
    /\ pc[p] # "idle"
    /\ LET cmd == CASE pc[p] \in {"q_expand", "q_fallback", "q_activate"} -> "query"
                    [] pc[p] = "n_neighbors" -> "node"
                    [] pc[p] = "e_meta" -> "export"
       IN  last' = Failed(cmd)
    /\ pc' = [pc EXCEPT ![p] = "idle"]
    /\ ctx' = [ctx EXCEPT ![p] = IdleCtx]
    /\ UNCHANGED <<store, written, files, puts>>

-----------------------------------------------------------------------------
Init ==
    /\ store = [s \in Scopes |-> EmptyGraph]
    /\ written = [s \in Scopes |-> {}]
    /\ pc = [p \in Procs |-> "idle"]
    /\ ctx = [p \in Procs |-> IdleCtx]
    /\ last = NoOut
    /\ files = [q \in Paths |-> 0]
    /\ puts = 0

Next ==
    \E p \in Procs :
        \/ \E ws \in WsArgs, global \in BOOLEAN :
              \/ \E id \in Ids, kind \in Kinds, metaOk \in BOOLEAN :
                    AddNode(p, ws, global, id, kind, metaOk)
              \/ \E src, dst \in Ids, rel \in Rels : AddEdge(p, ws, global, src, dst, rel)
              \/ \E text \in Ids, k \in 0..MaxK : QueryStart(p, ws, global, text, k)
              \/ \E id \in Ids, limit \in 0..MaxLimit : NodeStart(p, ws, global, id, limit)
              \/ \E fmt \in FormatArgs, path \in Paths : ExportStart(p, ws, global, fmt, path)
        \/ QueryExpand(p)
        \/ QueryFallback(p)
        \/ QueryActivate(p)
        \/ NodeNeighbors(p)
        \/ ExportMeta(p)
        \/ CallFails(p)

(* A CLI process runs its command to the end: each backend call returns  *)
(* (the local backend is synchronous, a remote one is bounded by the      *)
(* transport's timeout, spec 5), so the step that continues a running     *)
(* command is weakly fair. Failures are allowed, never required; starting *)
(* a command is the user's choice and is not fair.                        *)
Fairness ==
    \A p \in Procs :
        /\ WF_vars(QueryExpand(p)) /\ WF_vars(QueryFallback(p))
        /\ WF_vars(QueryActivate(p)) /\ WF_vars(NodeNeighbors(p))
        /\ WF_vars(ExportMeta(p))

Spec == Init /\ [][Next]_vars /\ Fairness

-----------------------------------------------------------------------------
TypeOK ==
    /\ store \in [Scopes -> Graph]
    /\ written \in [Scopes -> SUBSET Triple]
    /\ pc \in [Procs -> Pcs]
    /\ ctx \in [Procs -> Ctx]
    /\ last \in Out
    /\ files \in [Paths -> Nat]
    /\ puts \in 0..MaxPuts

(* Edge identity (graph.rs add_edge, spec 3): every (rel, src, dst) that  *)
(* add_edge was given in a scope is still an edge of that scope, however  *)
(* many later add_edge calls, by any process, upserted over edge ids.     *)
NoEdgeLost ==
    \A s \in Scopes : \A t \in written[s] :
        \E e \in store[s].edges : e.rel = t.rel /\ e.src = t.src /\ e.dst = t.dst

(* What the edge-id format of add_edge costs (graph.rs:63, spec 3): an    *)
(* edge given to add_edge in a scope leaves it only to a collision. The  *)
(* id it was formatted to is still stored there, under a triple that was *)
(* also given to add_edge in that scope and that formats to the same id. *)
(* With ':' in ids this is the whole of the loss edge_id_collision shows; *)
(* an upsert on any other key, or a write to another scope, breaks it.   *)
EdgeLostOnlyToCollision ==
    \A s \in Scopes : \A t \in written[s] :
        \E e \in store[s].edges :
            /\ e.id = EdgeId(t.rel, t.src, t.dst)
            /\ EdgeId(e.rel, e.src, e.dst) = e.id
            /\ [rel |-> e.rel, src |-> e.src, dst |-> e.dst] \in written[s]

(* query seeding (graph.rs query, spec 4.3 and 4.5): when --k >= 1, every *)
(* seed query handed to activate is in the printed node set, although the *)
(* seeds were chosen one or two backend calls before activate ran while   *)
(* other processes kept writing.                                          *)
QueryResultHasSeeds ==
    last.cmd = "query" /\ last.k >= 1 => last.seeds \subseteq last.nodes

(* Seed discovery (spec 4.3): when the text is not a stored node, query  *)
(* takes "up to k" of its depth-1 neighbours as seeds. The loop of        *)
(* graph.rs pushes a seed before it compares the count with k, so --k 0   *)
(* is where it can go wrong.                                              *)
SeedsAtMostK ==
    \A p \in Procs :
        pc[p] = "q_activate" /\ ctx[p].id \notin ctx[p].seeds
            => Cardinality(ctx[p].seeds) <= ctx[p].k

(* The comment at graph.rs:94 says a query with no seed match falls back  *)
(* to the first nodes in lexicographic order: so with --k >= 1 it prints  *)
(* zero nodes only when the scope holds no node.                          *)
QueryFallbackShowsNodes ==
    last.cmd = "query" /\ last.ok /\ last.k >= 1 /\ last.nodes = {}
    => last.scopeNodes = 0

(* node lists a node's edges (graph.rs node): when --limit covers them,   *)
(* in_edges and out_edges together are all the edges stored at that node. *)
NodeShowsIncidentEdges ==
    last.cmd = "node" /\ last.ok /\ Cardinality(last.incident) <= last.limit
    => last.inE \cup last.outE = last.incident

(* export reports "exported N bytes" (graph.rs export, spec 4.6): N is    *)
(* the size of the artifact this command wrote.                           *)
ExportReportsOwnSize ==
    last.cmd = "export" /\ last.ok => last.reported = last.size


=============================================================================
