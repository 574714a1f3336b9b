---------------------------- MODULE GraphCliEdges ----------------------------
(***************************************************************************)
(* Proof that add_edge loses an edge only to an edge-id collision         *)
(* (EdgeLostOnlyToCollision), for every set of ids, relation labels,       *)
(* scopes and processes, with no hypothesis on the ids: the collision the  *)
(* run edge_id_collision exhibits is the only way an edge goes.            *)
(***************************************************************************)
EXTENDS GraphCliProofs

NewEdge(rel, src, dst) == [id |-> EdgeId(rel, src, dst), src |-> src, dst |-> dst, rel |-> rel]

NewTriple(rel, src, dst) == [rel |-> rel, src |-> src, dst |-> dst]

(* The triple of a stored edge.                                          *)
TripleOf(e) == [rel |-> e.rel, src |-> e.src, dst |-> e.dst]

(* EdgeLostOnlyToCollision for one scope, with the witness's conditions  *)
(* named.                                                                 *)
Holds(e, t, W) ==
    /\ e.id = EdgeId(t.rel, t.src, t.dst)
    /\ EdgeId(e.rel, e.src, e.dst) = e.id
    /\ TripleOf(e) \in W

ScopeOK(E, W) == \A t \in W : \E e \in E : Holds(e, t, W)

LEMMA CollisionByScope ==
    EdgeLostOnlyToCollision <=> \A s \in Scopes : ScopeOK(store[s].edges, written[s])
BY DEF EdgeLostOnlyToCollision, ScopeOK, Holds, TripleOf

(* The same after a step.                                                *)
LEMMA CollisionByScopePrimed ==
    (\A s \in Scopes : ScopeOK(store'[s].edges, written'[s])) => EdgeLostOnlyToCollision'
BY DEF EdgeLostOnlyToCollision, ScopeOK, Holds, TripleOf

EInv == IInv /\ EdgeLostOnlyToCollision

-----------------------------------------------------------------------------
(* What a step of the commands does to the store: nothing, one put_node   *)
(* or one put_edge (with the triple recorded as written).                 *)
LEMMA StoreSteps ==
    ASSUME [Next]_vars
    PROVE  \/ UNCHANGED <<store, written>>
           \/ \E s \in Scopes, id \in Ids, kind \in Kinds :
                 /\ store' = [store EXCEPT ![s] = PutNode(store[s], id, kind)]
                 /\ UNCHANGED written
           \/ \E s \in Scopes, rel \in Rels, src \in Ids, dst \in Ids :
                 /\ store' = [store EXCEPT ![s] = PutEdge(store[s], NewEdge(rel, src, dst))]
                 /\ written' = [written EXCEPT ![s] = @ \cup {NewTriple(rel, src, dst)}]
<1>1. ASSUME NEW p \in Procs, NEW ws \in WsArgs, NEW global \in BOOLEAN,
             NEW id \in Ids, NEW kind \in Kinds, NEW metaOk \in BOOLEAN,
             AddNode(p, ws, global, id, kind, metaOk)
      PROVE  \/ UNCHANGED <<store, written>>
             \/ \E s \in Scopes, i \in Ids, k \in Kinds :
                   /\ store' = [store EXCEPT ![s] = PutNode(store[s], i, k)]
                   /\ UNCHANGED written
  <2>1. CASE ScopeOk(ws, global) /\ metaOk
    <3>1. ResolveScope(ws, global) \in Scopes
      BY <2>1, ResolveInScopes
    <3>2. QED
      BY <1>1, <2>1, <3>1 DEF AddNode, ScopeRejected
  <2>2. QED
    BY <1>1, <2>1 DEF AddNode, ScopeRejected
<1>2. ASSUME NEW p \in Procs, NEW ws \in WsArgs, NEW global \in BOOLEAN,
             NEW src \in Ids, NEW dst \in Ids, NEW rel \in Rels,
             AddEdge(p, ws, global, src, dst, rel)
      PROVE  \/ UNCHANGED <<store, written>>
             \/ \E s \in Scopes, r \in Rels, a \in Ids, b \in Ids :
                   /\ store' = [store EXCEPT ![s] = PutEdge(store[s], NewEdge(r, a, b))]
                   /\ written' = [written EXCEPT ![s] = @ \cup {NewTriple(r, a, b)}]
  <2>1. CASE ScopeOk(ws, global)
    <3>1. ResolveScope(ws, global) \in Scopes
      BY <2>1, ResolveInScopes
    <3>2. QED
      BY <1>2, <2>1, <3>1 DEF AddEdge, ScopeRejected, NewEdge, NewTriple
  <2>2. QED
    BY <1>2, <2>1 DEF AddEdge, ScopeRejected
<1>3. ASSUME NEW p \in Procs,
             \/ \E ws \in WsArgs, global \in BOOLEAN :
                   \/ \E text \in Ids, k \in 0..MaxK : QueryStart(p, ws, global, text, k)
                   \/ \E id \in Ids, limit \in 0..MaxLimit : NodeStart(p, ws, global, id, limit)
                   \/ \E fmt \in FormatArgs, path \in Paths : ExportStart(p, ws, global, fmt, path)
             \/ QueryExpand(p) \/ QueryFallback(p) \/ QueryActivate(p)
             \/ NodeNeighbors(p) \/ ExportMeta(p) \/ CallFails(p)
      PROVE  UNCHANGED <<store, written>>
  <2>1. ASSUME NEW ws \in WsArgs, NEW global \in BOOLEAN, NEW text \in Ids, NEW k \in 0..MaxK,
               QueryStart(p, ws, global, text, k)
        PROVE  UNCHANGED <<store, written>>
    BY <2>1 DEF QueryStart, ScopeRejected
  <2>2. ASSUME NEW ws \in WsArgs, NEW global \in BOOLEAN, NEW id \in Ids,
               NEW limit \in 0..MaxLimit, NodeStart(p, ws, global, id, limit)
        PROVE  UNCHANGED <<store, written>>
    BY <2>2 DEF NodeStart, ScopeRejected
  <2>3. ASSUME NEW ws \in WsArgs, NEW global \in BOOLEAN, NEW fmt \in FormatArgs,
               NEW path \in Paths, ExportStart(p, ws, global, fmt, path)
        PROVE  UNCHANGED <<store, written>>
    BY <2>3 DEF ExportStart, ScopeRejected
  <2>4. QueryExpand(p) \/ QueryFallback(p) \/ QueryActivate(p) => UNCHANGED <<store, written>>
    BY DEF QueryExpand, QueryFallback, QueryActivate
  <2>5. NodeNeighbors(p) \/ ExportMeta(p) \/ CallFails(p) => UNCHANGED <<store, written>>
    BY DEF NodeNeighbors, ExportMeta, CallFails
  <2>6. QED
    BY <1>3, <2>1, <2>2, <2>3, <2>4, <2>5
<1>4. CASE UNCHANGED vars
  BY <1>4 DEF vars
<1>5. QED
  BY <1>1, <1>2, <1>3, <1>4 DEF Next


(* put_edge's replace-by-id keeps every collision explained: an edge it   *)
(* drops has the id of the new edge, and the new edge now holds that id   *)
(* under the triple just written.                                        *)
LEMMA PutEdgeScope ==
    ASSUME NEW E \in SUBSET EdgeRec, NEW W \in SUBSET Triple, ScopeOK(E, W),
           NEW rel \in Rels, NEW src \in Ids, NEW dst \in Ids
    PROVE  ScopeOK({f \in E : f.id # NewEdge(rel, src, dst).id} \cup {NewEdge(rel, src, dst)},
                   W \cup {NewTriple(rel, src, dst)})
<1> DEFINE e == NewEdge(rel, src, dst)
           W2 == W \cup {NewTriple(rel, src, dst)}
           E2 == {f \in E : f.id # e.id} \cup {e}
<1> SUFFICES ASSUME NEW t \in W2 PROVE \E f \in E2 : Holds(f, t, W2)
  BY DEF ScopeOK
<1>1. CASE EdgeId(t.rel, t.src, t.dst) = e.id
  <2>1. Holds(e, t, W2)
    BY <1>1 DEF Holds, NewEdge, NewTriple, TripleOf
  <2>2. QED
    BY <2>1
<1>2. CASE EdgeId(t.rel, t.src, t.dst) # e.id
  <2>1. t \in W
    BY <1>2 DEF NewEdge, NewTriple
  <2>2. PICK f \in E : Holds(f, t, W)
    BY <2>1 DEF ScopeOK
  <2>3. f \in E2 /\ Holds(f, t, W2)
    BY <1>2, <2>2 DEF Holds
  <2>4. QED
    BY <2>3
<1>3. QED
  BY <1>1, <1>2

LEMMA InitEInv == Init => EInv
<1> SUFFICES ASSUME Init PROVE EInv
  OBVIOUS
<1>1. IInv
  BY InitIInv
<1>2. EdgeLostOnlyToCollision
  BY DEF Init, EdgeLostOnlyToCollision
<1>3. QED
  BY <1>1, <1>2 DEF EInv

LEMMA NextEInv == EInv /\ [Next]_vars => EInv'
<1> SUFFICES ASSUME EInv, [Next]_vars PROVE EInv'
  OBVIOUS
<1>1. IInv' /\ TypeOK /\ TypeOK'
  BY NextIInv DEF EInv, IInv
<1>2. \A s \in Scopes : ScopeOK(store[s].edges, written[s])
  BY CollisionByScope DEF EInv
<1>3. CASE UNCHANGED <<store, written>>
  BY <1>1, <1>3 DEF EInv, EdgeLostOnlyToCollision
<1>4. CASE \E s \in Scopes, id \in Ids, kind \in Kinds :
              /\ store' = [store EXCEPT ![s] = PutNode(store[s], id, kind)]
              /\ UNCHANGED written
  <2>1. PICK s \in Scopes, id \in Ids, kind \in Kinds :
              /\ store' = [store EXCEPT ![s] = PutNode(store[s], id, kind)]
              /\ UNCHANGED written
    BY <1>4
  <2>2. \A x \in Scopes : store'[x].edges = store[x].edges /\ written'[x] = written[x]
    BY <1>1, <2>1 DEF TypeOK, PutNode, Graph
  <2>3. \A x \in Scopes : ScopeOK(store'[x].edges, written'[x])
    BY <1>2, <2>2
  <2>4. EdgeLostOnlyToCollision'
    BY <2>3, CollisionByScopePrimed
  <2>5. QED
    BY <1>1, <2>4 DEF EInv
<1>5. CASE \E s \in Scopes, rel \in Rels, src \in Ids, dst \in Ids :
              /\ store' = [store EXCEPT ![s] = PutEdge(store[s], NewEdge(rel, src, dst))]
              /\ written' = [written EXCEPT ![s] = @ \cup {NewTriple(rel, src, dst)}]
  <2>1. PICK s \in Scopes, rel \in Rels, src \in Ids, dst \in Ids :
              /\ store' = [store EXCEPT ![s] = PutEdge(store[s], NewEdge(rel, src, dst))]
              /\ written' = [written EXCEPT ![s] = @ \cup {NewTriple(rel, src, dst)}]
    BY <1>5
  <2>2. /\ store'[s].edges = {f \in store[s].edges : f.id # NewEdge(rel, src, dst).id}
                               \cup {NewEdge(rel, src, dst)}
        /\ written'[s] = written[s] \cup {NewTriple(rel, src, dst)}
    BY <1>1, <2>1 DEF TypeOK, PutEdge, Graph
  <2>3. \A x \in Scopes \ {s} : store'[x] = store[x] /\ written'[x] = written[x]
    BY <1>1, <2>1 DEF TypeOK
  <2>4. store[s].edges \in SUBSET EdgeRec /\ written[s] \in SUBSET Triple
    BY <1>1 DEF TypeOK, Graph
  <2>5. ScopeOK(store'[s].edges, written'[s])
    BY <1>2, <2>2, <2>4, PutEdgeScope
  <2>6. \A x \in Scopes : ScopeOK(store'[x].edges, written'[x])
    BY <1>2, <2>3, <2>5
  <2>7. QED
    BY <1>1, <2>6, CollisionByScopePrimed DEF EInv
<1>6. QED
  BY <1>3, <1>4, <1>5, StoreSteps

(* add_edge (graph.rs:63-74) loses an edge only to an edge-id collision,  *)
(* in every instance and with no restriction on ids or labels: an edge   *)
(* given to add_edge whose triple is no longer stored in its scope was   *)
(* replaced there by another triple given to add_edge that formats to    *)
(* the same "edge:{rel}:{src}:{dst}" id.                                  *)
THEOREM EdgeLossOnlyByCollision == Spec => []EdgeLostOnlyToCollision
<1>1. EInv => EdgeLostOnlyToCollision
  BY DEF EInv
<1>2. QED
  BY InitEInv, NextEInv, <1>1, PTL DEF Spec
=============================================================================
