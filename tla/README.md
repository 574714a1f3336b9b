# TLA+ models of the yai graph commands and control-plane RPC channel

This directory holds TLA+ models of two parts of the repository:

- the graph commands of the `mind` command-line front end, with the graph store they drive;
- the Unix-domain-socket RPC channel between the `mind` server and its one-shot clients.

Each part has TLC configurations that model-check it on small instances, and TLAPS proofs of its central safety properties for every instance. For the edge-id format, which loses edges when ids contain `:`, the project proves exactly how far the loss goes.

## 1. The system and its parts

| Part | Source | State | Operations | Interacts with |
|---|---|---|---|---|
| Graph CLI commands | `src/mind/src/interface/commands/graph.rs` | none of its own; locals across its backend calls | `add_node`, `add_edge`, `query`, `stats`, `node`, `neighbors`, `export`, `awareness` | the graph facade, one backend call at a time; other CLI processes through the shared store and the file system |
| Graph store / backend | `GraphFacade`, backend (not under `src/`; spec 3, 4.2–4.6) | per scope: node table `id -> (kind, meta, last_seen)`, edges keyed by edge id | `put_node`, `put_edge` (upserts), `get_node`, `neighbors`, `activate`, `stats`, `export` | every CLI process |
| Neighbor traversal | spec 4.4 | pure | breadth-first walk with rel/kind filters, depth cap | used by `query` and `node` |
| Spreading activation | spec 4.5 | pure | src→dst propagation, at most a hop limit, top_n truncation | used by `query` |
| RPC server | `src/mind/src/transport/rpc/uds_server.rs` | socket file; listener; one task per connection | `serve` (stale-socket removal, bind, accept/spawn), `handle_stream`, `read_request` (strict, loose, legacy), `parse_version`, `parse_request_compat`, `write_response` | RPC clients; other server processes through the socket path |
| RPC client | `src/kernel/_ref/rust_control_plane/transport/transport/rpc/uds_client.rs` | one connection per call | `send_envelope` (connect, write a line, read a line, parse); `send_status` and `send_ping` wrap it | the server |
| status command | `src/tools/_ref/.../commands/status.rs` | none | one `send_status`; prints "kernel down" on any Err | the client |
| executor, up, paths, TUI, system agent, runtime core, module roots | see PROJECT.json | none to speak of | delegate to code not under `src/`, or only build paths and strings | — |

The behaviours that make these parts hard to get right:

- Graph CLI:
  - `query` makes up to three backend calls, `node` two and `export` two (the backend's write, then `fs::metadata`). Several CLI processes run at once, so other processes' writes and exports interleave between those calls.
  - Edge ids come from string formatting (`edge:{rel}:{src}:{dst}`), and ids may contain `:`.
  - `node` sorts edge ids by byte order and truncates the lists.
  - The `query` seed loop pushes a seed before it checks `len >= k`.
- RPC channel:
  - `serve` checks, removes and binds the socket path in three separate steps.
  - A server process can die and leave its socket file behind.
  - The decoder tries the strict envelope, then the loose one, then the legacy form. The loose path turns an unparseable version into 0.
  - On any decode or handler error the task closes the connection without writing a response.
  - The client blocks in `read_line` until it gets a line or EOF.

What each part must guarantee (the properties below state these):

- Graph CLI:
  - every edge `add_edge` was given stays in the store; where the id format makes that false, an edge is lost only to a colliding one;
  - `query` prints the seeds it activated;
  - `node` lists the edges stored at the node;
  - `export` reports the size of what it wrote.
- RPC channel:
  - only requests with the protocol version reach the handler;
  - every request gets a response line or a structured error;
  - a running server stays reachable at its socket path;
  - a client's result is explained by what the server did, and no response is written after the client returned;
  - every client call returns.

## 2. Modules

| Module | Models | Kind |
|---|---|---|
| `GraphStore` | the per-scope store, Neighbor Traversal, Spreading Activation, the edge-id format, byte-order string comparison | operators; spec-modelled except `EdgeId`, `EdgeIds`, `StrLess`, `CharRank` |
| `GraphCli` | the graph commands run by concurrent CLI processes | state machine over `GraphStore` |
| `MCGraphCli` | small constants for TLC | MC module |
| `GraphCliProofs` | TLAPS proofs for `GraphCli` | theorems |
| `GraphCliEdges` | TLAPS proof that an edge is lost only to an edge-id collision | theorems |
| `RpcChannel` | `serve`/`handle_stream`/`read_request` and `send_envelope` | state machine |
| `MCRpcChannel` | the request lines clients send | MC module |
| `RpcChannelProofs` | TLAPS proofs for `RpcChannel` | theorems |

### GraphStore

The facade and backend source is not in this repository, so the store is written from spec sections 3 and 4.2–4.6.

- A store is a record:
  - `nodes : [Ids -> Kinds \cup {NoNode}]`;
  - `edges`, a set of `[id, src, dst, rel]` records.
- `PutNode` replaces the kind at an id.
- `PutEdge` drops the edge with the same id and adds the new one. This is the upsert by edge id.
- Ids and relation labels are sequences of one-character strings. This lets `EdgeId` be the real concatenation of `graph.rs:63`, and `StrLess` the byte-wise order `sort_by(|a, b| a.id.cmp(&b.id))` uses.
- `Traversals(g, root, depth, f)` is the set of results spec 4.4 allows:
  - the nodes found within `min(depth, MaxDepth)` hops, through usable edges, to stored nodes whose kind passes the filter;
  - with them any set of explored edges that covers the walked tree. The spec does not fix which other edges are reported.
- `Activations(g, seeds, topN)` is the set of results spec 4.5 allows:
  - `topN = 0` gives nothing;
  - otherwise the stored seeds, plus as many reached non-seeds as room allows. Their ranking by score is abstracted to a choice.
- Recursion (`Layers`, `ActivationReach`) is written as recursive functions in a LET, not RECURSIVE operators, so that the proof modules can extend this module.

### GraphCli

State:

- `store`: scope -> Graph;
- `written`: the triples `add_edge` was given, a history variable for `NoEdgeLost`;
- `pc` and `ctx`: each process's next backend call and its locals;
- `last`: what the latest finished command reported;
- `files`: path -> artifact size;
- `puts`: a bound on writes.

Each backend call is one atomic step. Spec 5 makes a write atomic with respect to reads and writes of the same scope.

| Action | Code |
|---|---|
| `AddNode` | `add_node` 26–51: scope error, `--meta` parse error, or `put_node` |
| `AddEdge` | `add_edge` 53–77 |
| `QueryStart` | `query` 79–85: depth-0 neighbors, a seed if the text is a stored node |
| `QueryExpand` | 86–92: depth-1 neighbors; `FirstK` takes `max(k,1)` of them (push before check) |
| `QueryFallback` | 93–101: `stats`, prints 0 nodes |
| `QueryActivate` | 102–119: `activate` with `top_n = 2k` |
| `NodeStart` | `node` 135–140: `get_node`, "node not found" |
| `NodeNeighbors` | 141–165: depth-1 neighbors, split into out/in, sort, truncate |
| `ExportStart` | `export` 202–216: format check before any backend call, then the backend writes the file |
| `ExportMeta` | 217–219: `fs::metadata(out).len()` |
| `CallFails` | a `?` on any of those backend calls returning Err |

Two more points about the model:

- `resolve_scope` (13–24) is `ScopeOk`/`ResolveScope`. Its error is the first disjunct of every command.
- `stats` and `neighbors` only read and print, so they are not actions.

Fairness (`Fairness` in `GraphCli`) is weak fairness, per process, on each backend call that continues a started command: `QueryExpand`, `QueryFallback`, `QueryActivate`, `NodeNeighbors` and `ExportMeta`. The code justifies it this way:

- each of these is the next synchronous call of the same function once the previous one returned, so a process that keeps running makes it;
- nothing is assumed of `CallFails`: a call that errs ends the command too;
- starting a command is not fair, because a user may never type one.

No graph property depends on this fairness. That every started command ends follows from it alone, because each continuing step is always enabled and the code runs straight back to idle, so it is not checked as a property.

### RpcChannel

A request line is abstracted to what the decoder looks at:

- blank or not;
- the version key (`v`, its alias `version`, or none) and its JSON value (number, string, other; and a natural);
- the shape of the `request` member (canonical, a string naming a unit variant, another string, externally tagged, tagged with `type`/`op`/`kind`/`cmd`/`name`, garbage, absent);
- whether the whole line parses as a bare `Request`.

`ReadRequest` tries the decoders in the code's order:

1. blank → error;
2. the strict `RpcRequestEnvelope` → accept if `v` equals the server's version, otherwise a mismatch error;
3. the loose envelope → `parse_version(..).unwrap_or(0)` must equal the version, then `parse_request_compat` must yield a request;
4. a bare `Request` (legacy) → accept;
5. otherwise error.

State per server is where `serve` is (`init/remove/bind/listening/failed/dead`). Other state:

- `sockFile`: the socket path, holding no file, a stale file, or a server's socket;
- per client:
  - `cpc`, `cline`: its program counter and the line it sent;
  - `peer`: the server whose listener took the connection;
  - `tpc`: the state of the server task for its connection;
  - `unread`: the line is still in the socket;
  - `replies`: response lines written and not yet read;
  - `cres`: what `send_envelope` returned;
  - `handled`: a history variable, set when the request reached the handler.

| Action | Code |
|---|---|
| `ServeCheck` / `ServeRemove` / `ServeBind` | `serve` 38–44: metadata, `remove_file`, `bind` (EADDRINUSE when a file is there) |
| `Accept` | 46–55: accept and spawn `handle_stream` |
| `ServerRead` | `handle_stream` 63–79 with `read_request`: a line goes to the handler or ends the task (`ReadErrorNext`); EOF after the client is done ends it |
| `ServerHandle` | 65–71: handler Ok → `write_response`, back to reading; Err → task ends |
| `ServerCrash` | the process dies: its connections reset, its socket file stays (environment step) |
| `ClientSend` | `send_envelope` 17–33: connect (refused unless a live listener owns the path), write the line |
| `ClientRead` | 35–43: `read_line`, then parse; no line and a closed connection → Err |

Fairness is weak fairness on:

- the `serve` start-up steps, `Accept`, `ServerRead` and `ServerHandle`: tokio keeps driving the accept loop and every spawned task;
- `ClientRead`: a blocked `read_line` returns once data or EOF arrives.

Crashes and new client calls are not required to happen. The RPC runs set `CHECK_DEADLOCK FALSE` because every client is one-shot, so a run legitimately stops once all clients are done.

`src/mind/src/transport/mod.rs` declares no `rpc` module, so `uds_server.rs` may not be compiled into the current build. The `kernel/_ref` copy of the server is a stub that must not be started. The model takes `uds_server.rs` as the channel that spec 6 describes.

## 3. Runs

| Run | cfg | Expect | Checks | What it shows |
|---|---|---|---|---|
| `graph_cli` | `MCGraphCli.cfg` | pass | `NoEdgeLost`, `QueryResultHasSeeds` | every command of two interleaving processes: no edge lost when ids have no `:`; a query prints every seed it activated (762,668 states) |
| `edge_id_collision` | `MCEdgeIdCollision.cfg` | violation | `NoEdgeLost` | ids `a` and `a:a`: `(r,a,a:a)` and `(r,a:a,a)` share `edge:r:a:a:a` and the second overwrites the first |
| `edge_collision_extent` | `MCEdgeCollisionExtent.cfg` | pass | `EdgeLostOnlyToCollision` | ids `a` and `a:a`, up to three writes: an edge leaves its scope only when another written triple with the same formatted id took its place, so the collision is the whole of the loss (262,975 states) |
| `node_edges` | `MCNodeEdges.cfg` | violation | `NodeShowsIncidentEdges` | `node` omits stored incident edges the traversal did not report |
| `query_fallback` | `MCQueryFallback.cfg` | violation | `QueryFallbackShowsNodes` | add a node, query a missing text: "nodes: 0", against the comment at `graph.rs:94` |
| `export_race` | `MCExportRace.cfg` | violation | `ExportReportsOwnSize` | two exports to one path: one reports the size of the other's file |
| `rpc_channel` | `MCRpcChannel.cfg` | pass | `EnvelopeVersionExact`, `ClientResultExplained`, `ClientCompletes`, `NoWriteAfterReturn` | two servers (start, remove, bind, crash) and two clients sending every kind of line. Enveloped requests reach the handler only with the exact version. A client's Ok means its request was handled; an Err from a live server means the line was rejected or the handler ran. No response is written to a client that has returned. Every client call returns (210,032 states) |
| `legacy_version` | `MCLegacyVersion.cfg` | violation | `EveryRequestVersioned` | a bare `Request`, or a `v:2` line whose top level parses as a Request, is handled without a version check |
| `unanswered` | `MCUnanswered.cfg` | violation | `EveryReadRequestAnswered` | a mismatch or decode error closes the connection with no response; the client gets Err from a live server |
| `stale_socket` | `MCStaleSocket.cfg` | violation | `ListenerReachable` | s1 binds; s2's "remove stale socket" unlinks s1's live socket and binds its own |
| `seeds_at_most_k` | `MCSeedsAtMostK.cfg` | violation | `SeedsAtMostK` | `query --k 0` on a missing text takes one depth-1 neighbour as a seed, where spec 4.3 says "up to k" |

Each violation run is a finding in PROJECT.json. Each property of a passing run has a mutant: a plausible bug in the code it is about, under which TLC finds the property violated.

| Property | Mutant | Plausible bug |
|---|---|---|
| `NoEdgeLost` | `EdgeIdNoDst` | the destination is left out of the id |
| `QueryResultHasSeeds` | `MatchSeedsInverted` | the seed test is inverted |
| `EnvelopeVersionExact` | `ParseVersionWrap` | a version is wrapped into u8 instead of rejected |
| `ClientCompletes` | `ReadErrorNextLoop` | the task keeps reading after a decode error instead of closing |
| `EdgeLostOnlyToCollision` | `PutEdgeBySrc` | the upsert is keyed on the source node instead of the edge id |
| `ClientResultExplained` | `ClientReadEarly` | the client treats a missing line as an error before the server task has closed |
| `NoWriteAfterReturn` | `ServerReadKeep` | the task handles a request without taking it off the socket, so it answers twice |

### Bounds and why they are enough

`MCGraphCli`:

| Constant | Value | Why |
|---|---|---|
| processes | 2 | enough for every two-process interleaving between a command's backend calls |
| ids | `a`, `b` | a seed that exists and one that does not; edges between distinct nodes, self-loops, dangling edges |
| relation label | 1 | |
| workspace | 1, plus Global | |
| `MaxPuts` | 2 | a node and an edge, or two edges, before and between other commands' calls |
| `MaxK` | 1 | covers both k = 0 (the push-before-check case) and k ≥ 1 |
| `MaxLimit` | 1 | covers both 0 and 1 |
| traversal depth cap / activation hops | 3 / 2 | |
| export formats | `jsonl` and the unsupported `png` | |
| symmetry | processes | processes are interchangeable |

The collision run swaps the ids for `a` and `a:a`, the shortest pair that collides. `edge_collision_extent` uses the same ids with one process and `MaxPuts = 3`. Writes are single backend calls, so a second process adds no interleaving of the store, and three writes are enough for a collision followed by a rewrite of the triple that was lost.

`MCRpcChannel`:

- 2 servers: enough for a stale file, a live socket removed by a second start, and a crash then restart;
- 2 clients;
- 9 request lines, one for each branch of `read_request`:
  - strict v1;
  - loose `"version":"1"` with an externally tagged request;
  - a v2 mismatch;
  - v257, outside u8;
  - a bare legacy Request;
  - a Request member with no version;
  - a `v:2` line whose top level is a Request;
  - an undecodable request;
  - a blank line.

## 4. Proofs

The invariant theorems of the proof modules (`THEOREM ... == Spec => []P`) are proved from an inductive invariant `IInv` by three facts: `Init => IInv` and `IInv /\ [Next]_vars => IInv'` (lemmas), and `IInv => P`. TLC checked each `IInv` as an invariant of the pass run before it was proved. `tlapm` checks every leaf.

**GraphCliProofs**

- `TypeCorrect`: `Spec => []TypeOK`.
- `SeedsPrinted`: `Spec => []QueryResultHasSeeds`.

`IInv` is the conjunction of:

- `TypeOK`;
- `FiniteEdges`: every scope's edge set is finite, so that the counts `stats` and `export` print are naturals;
- `SeedsStored`: a process waiting to call `activate` holds seeds that are stored nodes of its scope;
- `QueryResultHasSeeds` itself.

`QueryResultHasSeeds` alone is not inductive. It says nothing about queries still in flight, and a step of another process could, as far as it knows, remove a seed between the seed choice and `activate`. The argument runs as follows:

- `QueryStart` chooses a seed only if the depth-0 traversal returned it, and that traversal returns the root only if it is stored (`TraversalDepth0`).
- `QueryExpand` chooses seeds among the nodes of a traversal, which are all stored (`TraversalInStore`).
- No action un-stores a node: `PutNode` writes a kind, never `NoNode` (`PutNodeGrows`), and `PutEdge` leaves the node table alone (`PutEdgeKeeps`).
- `activate` with `top_n = 2k > 0` keeps every stored seed (`ActivationKeepsSeeds`).

None of this needs facts about the recursive functions `Layers` and `ActivationReach`: both results are intersected with the stored ids in their definitions.

The assumptions (`StoreAssumption`, `CliAssumption`) are the ones the code needs:

- `Global` is not a workspace id and `NoNode` is not a kind;
- the set of ids is finite and non-empty, and there is at least one path;
- the default workspace is a workspace;
- the bounds are naturals.

**RpcChannelProofs**

- `TypeCorrect`: `Spec => []TypeOK`.
- `VersionChecked`: `Spec => []EnvelopeVersionExact`.
- `ResultExplained`: `Spec => []ClientResultExplained`.
- `NoLateWrite`: `Spec => NoWriteAfterReturn`, an action property.

`IInv` is `TypeOK` plus a per-connection invariant `ConnInv`:

- before a client connects, it has no task, no peer, no reply and no handled request;
- a line still unread, or a request being handled, has no reply yet. Hence at most one reply is ever written, which gives `replies \in 0..1`;
- a request being handled was taken off the socket;
- a request that is being or was handled is one that `read_request` accepts. This holds because `cline` never changes after the send;
- a task that is pending, reading an unread line or handling belongs to a client still in `sent`. So `ServerHandle` never writes to a client that has returned, which is `NoLateWrite`;
- a pending task has an unread line, and a reading task with no unread line has handled it;
- a reply, or a client Ok, implies the request was handled;
- a closed task, or a client Err, with a live peer is explained: the line was rejected or the request was handled. `ClientRead` returns Err only after the task closed, so the first of these carries over to the second;
- a client in `sent` has a peer server.

`ClientResultExplained` is not inductive alone: it speaks only of returned clients, and the facts about tasks in flight are what carry it across `ServerRead` and `ClientRead`. `ConnInvFrame` shows that a step leaves `ConnInv(d)` alone for every client `d` whose variables it leaves alone. Each action's step then proves `ConnInv` only for the client it touches. `ServerCrash` is the one step that touches several clients; it only makes peers dead, which weakens the `LivePeer` hypotheses.

The decoder lemma `AcceptedEnvelopeExact` shows that an accepted line with a version key and a `request` member has exactly the server's version. It needs `ChannelAssumption`'s `ServerVersion \in 1..255`. With version 0, the `unwrap_or(0)` of `read_request` (line 294) would accept any junk version. The code's `RPC_PROTOCOL_VERSION` is 1.

**GraphCliEdges**

- `EdgeLossOnlyByCollision`: `Spec => []EdgeLostOnlyToCollision`, with no hypothesis on ids or labels.

This is the most that holds for the code as written. `NoEdgeLost` is false once an id or label contains `:` (run `edge_id_collision`), and `graph.rs` does not forbid that. The theorem says what happens instead: every triple given to `add_edge` in a scope still has its formatted id stored there, held by an edge whose triple formats to that id and was itself given to `add_edge` in the scope. So a lost edge was replaced by a colliding one, and nothing else loses an edge.

The property is inductive together with `IInv` (`EInv`); it carries its own witnesses, so no further strengthening is needed. The steps:

- `StoreSteps` reduces every `GraphCli` step to one of three store effects: none, one `PutNode`, or one `PutEdge` of the triple recorded as written;
- `PutNode` leaves every edge set alone;
- `PutEdgeScope` covers `PutEdge`. An edge it drops has the new edge's id. So a written triple whose id that is gets the new edge as its witness, and every other triple keeps its old witness.

What stays with TLC only:

- `QueryFallbackShowsNodes`, `NodeShowsIncidentEdges`, `ExportReportsOwnSize`, `EveryRequestVersioned`, `EveryReadRequestAnswered`, `ListenerReachable` and `SeedsAtMostK`, the properties of the violation runs: they are false;
- liveness (`ClientCompletes`), because it needs fairness and ENABLED, which the provers do not reach;
- every fact about what the recursive traversal and activation functions compute for every input. That needs induction over data with an operator parameter, which the installed provers cannot instantiate.

## 5. Not modelled, and why

- Facade/backend internals beyond the spec: weights, meta, timestamps, the score ranking, the byte content of exported files. No property tells them apart.
- `stats`, `neighbors` and `awareness`:
  - `stats` and `neighbors` only read and print;
  - `awareness` delegates to the lifecycle module, which is not under `src/`.
- The kernel's `serve` stub: it returns at once.
- `up`, `executor`, `paths`, the TUI and the system agent: they delegate to code outside `src/` or only build strings and paths. The executor's 2 s timeout is listed as an unmodelled hazard.
- Overflow of `k * 2` (`graph.rs:106`): it needs a `k` near `usize::MAX`, which is out of TLC's reach. It is listed as a hazard.

## 6. Plan for later work

1. Model the `node` listing order with `StrLess` and check that the truncation keeps the `limit` smallest ids; compare `SortTruncate` with a reference sort over bounded inputs.
2. For `RpcChannel`, prove `ListenerReachable` under the assumption that a single server is started. The code's check-then-remove makes it false otherwise, as `stale_socket` shows.
