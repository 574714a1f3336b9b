----------------------------- MODULE RpcChannel -----------------------------
(***************************************************************************)
(* The control-plane RPC channel over a Unix-domain socket: the server of  *)
(* mind/src/transport/rpc/uds_server.rs (serve, handle_stream,            *)
(* read_request with its strict / loose / legacy decoding, write_response) *)
(* and the one-shot client of rust_control_plane/.../uds_client.rs        *)
(* (send_envelope) as the status command (status.rs) calls it.            *)
(*                                                                         *)
(* Servers start serve() on one socket path. Each client connects, writes *)
(* one line and reads one line. The server spawns one task per accepted   *)
(* connection; a task loops read_request -> handler -> write_response and *)
(* ends at EOF or at the first error, closing the connection.             *)
(*                                                                         *)
(* A request line is abstracted to the features the decoder looks at:     *)
(* blank or not, the version key ("v", its alias "version", or none) and  *)
(* its JSON value, the shape of the "request" member, and whether the     *)
(* whole line is itself a Request (the legacy form).                      *)
(***************************************************************************)
EXTENDS Naturals

CONSTANTS
    Servers,        \* processes that call serve() on the socket path
    Clients,        \* send_envelope calls (one request each)
    Lines,          \* request lines a client may send
    ServerVersion,  \* RPC_PROTOCOL_VERSION
    NoFile,         \* no file at the socket path
    Stale           \* a socket file left by a process that is gone

(* The shape of an abstract request line.                                *)
LineType ==
    [blank : BOOLEAN, vkey : {"v", "version", "none"},
     vval : [t : {"num", "str", "other"}, n : Nat],
     req : {"canonical", "str_variant", "str_other", "ext_tagged", "alt_tag", "garbage", "absent"},
     top : BOOLEAN]

(* RPC_PROTOCOL_VERSION is a u8 and is not 0: read_request maps an        *)
(* unparseable version to 0, so version 0 would accept any junk value.    *)
ASSUME ChannelAssumption ==
    /\ ServerVersion \in 1..255
    /\ Lines \subseteq LineType
    /\ Lines # {}
    /\ NoFile \notin Servers
    /\ Stale \notin Servers \cup {NoFile}

VARIABLES
    srv,        \* server -> where serve() is
    sockFile,   \* the socket path: NoFile, Stale or the server that bound it
    cpc,        \* client -> "idle" | "sent" | "done"
    cline,      \* client -> the line it sent
    peer,       \* client -> the server whose listener took the connection
    tpc,        \* client -> the server task of its connection
    unread,     \* client -> its line is in the socket, not yet read
    replies,    \* client -> response lines written and not yet read
    cres,       \* client -> "none" | "ok" | "err" (what send_envelope returned)
    handled     \* client -> its request reached the handler

vars == <<srv, sockFile, cpc, cline, peer, tpc, unread, replies, cres, handled>>

NoServer == NoFile

AnyLine == CHOOSE l \in Lines : TRUE

SrvStates == {"init", "remove", "bind", "listening", "failed", "dead"}

TaskStates == {"none", "pending", "read", "handle", "closed"}

-----------------------------------------------------------------------------
(* parse_version: a JSON number through as_u64 and u8::try_from, a string *)
(* through parse::<u8>; anything else, or out of u8 range, is None, and   *)
(* read_request turns None into 0.                                        *)
ParseVersionWrap(v) == IF v.t \in {"num", "str"} /\ v.n >= 0 THEN v.n % 256 ELSE 0

ParseVersion(v) == IF v.t \in {"num", "str"} /\ v.n \in 0..255 THEN v.n ELSE 0

(* parse_request_compat: the canonical form; a JSON string (which either  *)
(* names a unit variant or fails at once); a one-key externally tagged    *)
(* object, tried through its tag and payload candidates; an object with   *)
(* an explicit type/op/kind/cmd/name tag; else "unsupported request       *)
(* shape". Which Request a candidate yields is not modelled, only whether *)
(* one is yielded.                                                         *)
CompatDecodes(req) == req \in {"canonical", "str_variant", "ext_tagged", "alt_tag"}

(* RpcRequestEnvelope: key "v" (no alias), a number, a canonical request. *)
StrictParses(l) == l.vkey = "v" /\ l.vval.t = "num" /\ l.vval.n \in 0..255 /\ l.req = "canonical"

(* RpcRequestEnvelopeLoose: "v" or "version" with any value, and a        *)
(* "request" member of any shape.                                          *)
LooseParses(l) == l.vkey \in {"v", "version"} /\ l.req # "absent"

(* read_request on one non-EOF line, its decoders tried in order:        *)
(* "accept" hands a request to the handler,                               *)
(* handler, "reject" is an error (blank line, protocol mismatch, no       *)
(* compatible encoding, unparseable legacy line).                         *)
ReadRequest(l) ==
    IF l.blank THEN "reject"
    ELSE IF StrictParses(l)
         THEN IF l.vval.n = ServerVersion THEN "accept" ELSE "reject"
    ELSE IF LooseParses(l)
         THEN IF ParseVersion(l.vval) = ServerVersion /\ CompatDecodes(l.req)
              THEN "accept" ELSE "reject"
    ELSE IF l.top THEN "accept"
    ELSE "reject"

(* handle_stream on an error from read_request: return Err (is_eof only   *)
(* picks the log line), which ends the task and closes the connection.    *)
ReadErrorNextLoop == "read"

ReadErrorNext == "closed"

-----------------------------------------------------------------------------
(* serve: if metadata(sock) is Ok, remove_file(sock) ("remove stale       *)
(* socket"), then bind.                                                   *)
ServeCheck(s) ==
    /\ srv[s] = "init"
    /\ srv' = [srv EXCEPT ![s] = IF sockFile # NoFile THEN "remove" ELSE "bind"]
    /\ UNCHANGED <<sockFile, cpc, cline, peer, tpc, unread, replies, cres, handled>>

ServeRemove(s) ==
    /\ srv[s] = "remove"
    /\ sockFile' = NoFile
    /\ srv' = [srv EXCEPT ![s] = "bind"]
    /\ UNCHANGED <<cpc, cline, peer, tpc, unread, replies, cres, handled>>

(* UnixListener::bind fails when the path exists (EADDRINUSE).            *)
ServeBind(s) ==
    /\ srv[s] = "bind"
    /\ IF sockFile = NoFile
       THEN /\ sockFile' = s
            /\ srv' = [srv EXCEPT ![s] = "listening"]
       ELSE /\ srv' = [srv EXCEPT ![s] = "failed"]
            /\ UNCHANGED sockFile
    /\ UNCHANGED <<cpc, cline, peer, tpc, unread, replies, cres, handled>>

(* A server process exits or crashes: its listener and tasks are gone,    *)
(* their connections are reset, its socket file stays behind.             *)
ServerCrash(s) ==
    /\ srv[s] \in {"listening", "remove", "bind"}
    /\ srv' = [srv EXCEPT ![s] = "dead"]
    /\ sockFile' = IF sockFile = s THEN Stale ELSE sockFile
    /\ tpc' = [c \in Clients |-> IF peer[c] = s THEN "closed" ELSE tpc[c]]
    /\ UNCHANGED <<cpc, cline, peer, unread, replies, cres, handled>>

(* listener.accept and tokio::spawn(handle_stream).                       *)
Accept(s, c) ==
    /\ srv[s] = "listening"
    /\ peer[c] = s
    /\ tpc[c] = "pending"
    /\ tpc' = [tpc EXCEPT ![c] = "read"]
    /\ UNCHANGED <<srv, sockFile, cpc, cline, peer, unread, replies, cres, handled>>

(* Mutant: the line is decoded but not consumed from the reader's buffer. *)
ServerReadKeep(c) ==
    /\ tpc[c] = "read"
    /\ \/ /\ unread[c]
          /\ tpc' = [tpc EXCEPT ![c] =
                       IF ReadRequest(cline[c]) = "accept" THEN "handle" ELSE ReadErrorNext]
       \/ /\ ~unread[c]
          /\ cpc[c] = "done"
          /\ tpc' = [tpc EXCEPT ![c] = "closed"]
    /\ UNCHANGED <<srv, sockFile, cpc, cline, peer, unread, replies, cres, handled>>

(* handle_stream: read_request. A line is decoded; with no line left and  *)
(* the client gone the read returns 0 bytes ("rpc eof"): the task ends.   *)
ServerRead(c) ==
    /\ tpc[c] = "read"
    /\ \/ /\ unread[c]
          /\ unread' = [unread EXCEPT ![c] = FALSE]
          /\ tpc' = [tpc EXCEPT ![c] =
                       IF ReadRequest(cline[c]) = "accept" THEN "handle" ELSE ReadErrorNext]
       \/ /\ ~unread[c]
          /\ cpc[c] = "done"
          /\ tpc' = [tpc EXCEPT ![c] = "closed"]
          /\ UNCHANGED unread
    /\ UNCHANGED <<srv, sockFile, cpc, cline, peer, replies, cres, handled>>

(* handler.handle(inbound): Ok -> write_response and read the next line;  *)
(* Err ("rpc handler failed") -> the task ends with no response.          *)
ServerHandle(c) ==
    /\ tpc[c] = "handle"
    /\ handled' = [handled EXCEPT ![c] = TRUE]
    /\ \/ /\ replies' = [replies EXCEPT ![c] = @ + 1]
          /\ tpc' = [tpc EXCEPT ![c] = "read"]
       \/ /\ tpc' = [tpc EXCEPT ![c] = "closed"]
          /\ UNCHANGED replies
    /\ UNCHANGED <<srv, sockFile, cpc, cline, peer, unread, cres>>

-----------------------------------------------------------------------------
(* send_envelope: UnixStream::connect (refused with no socket file or no  *)
(* live listener behind it), then write the line and "\n".                *)
ClientSend(c, l) ==
    /\ cpc[c] = "idle"
    /\ cline' = [cline EXCEPT ![c] = l]
    /\ IF sockFile \in Servers /\ srv[sockFile] = "listening"
       THEN /\ cpc' = [cpc EXCEPT ![c] = "sent"]
            /\ peer' = [peer EXCEPT ![c] = sockFile]
            /\ tpc' = [tpc EXCEPT ![c] = "pending"]
            /\ unread' = [unread EXCEPT ![c] = TRUE]
            /\ UNCHANGED cres
       ELSE /\ cpc' = [cpc EXCEPT ![c] = "done"]
            /\ cres' = [cres EXCEPT ![c] = "err"]
            /\ UNCHANGED <<peer, tpc, unread>>
    /\ UNCHANGED <<srv, sockFile, replies, handled>>

(* Mutant: the client stops waiting (a read timeout) and reports Err     *)
(* while the server task may still answer.                                *)
ClientReadEarly(c) ==
    /\ cpc[c] = "sent"
    /\ \/ /\ replies[c] > 0
          /\ replies' = [replies EXCEPT ![c] = @ - 1]
          /\ cres' = [cres EXCEPT ![c] = "ok"]
       \/ /\ replies[c] = 0
          /\ cres' = [cres EXCEPT ![c] = "err"]
          /\ UNCHANGED replies
    /\ cpc' = [cpc EXCEPT ![c] = "done"]
    /\ UNCHANGED <<srv, sockFile, cline, peer, tpc, unread, handled>>

(* send_envelope: read_line, then serde_json::from_str. A response line   *)
(* parses; a closed or reset connection gives "" or an error: Err. The    *)
(* stream is dropped when send_envelope returns.                          *)
ClientRead(c) ==
    /\ cpc[c] = "sent"
    /\ \/ /\ replies[c] > 0
          /\ replies' = [replies EXCEPT ![c] = @ - 1]
          /\ cres' = [cres EXCEPT ![c] = "ok"]
       \/ /\ replies[c] = 0
          /\ tpc[c] = "closed"
          /\ cres' = [cres EXCEPT ![c] = "err"]
          /\ UNCHANGED replies
    /\ cpc' = [cpc EXCEPT ![c] = "done"]
    /\ UNCHANGED <<srv, sockFile, cline, peer, tpc, unread, handled>>

-----------------------------------------------------------------------------
Init ==
    /\ srv = [s \in Servers |-> "init"]
    /\ sockFile \in {NoFile, Stale}
    /\ cpc = [c \in Clients |-> "idle"]
    /\ cline = [c \in Clients |-> AnyLine]
    /\ peer = [c \in Clients |-> NoServer]
    /\ tpc = [c \in Clients |-> "none"]
    /\ unread = [c \in Clients |-> FALSE]
    /\ replies = [c \in Clients |-> 0]
    /\ cres = [c \in Clients |-> "none"]
    /\ handled = [c \in Clients |-> FALSE]

ServerStep ==
    \/ \E s \in Servers :
          \/ ServeCheck(s) \/ ServeRemove(s) \/ ServeBind(s) \/ ServerCrash(s)
          \/ \E c \in Clients : Accept(s, c)
    \/ \E c \in Clients : ServerRead(c) \/ ServerHandle(c)

ClientStep ==
    \E c \in Clients : \/ \E l \in Lines : ClientSend(c, l)
                       \/ ClientRead(c)

Next == ServerStep \/ ClientStep

(* The tokio runtime keeps running the accept loop and every spawned      *)
(* task, and a blocked client read returns once data or EOF arrives: each *)
(* of those steps is weakly fair. Crashes and the start of a client call  *)
(* are not required to happen.                                            *)
Fairness ==
    /\ \A s \in Servers : /\ WF_vars(ServeCheck(s)) /\ WF_vars(ServeRemove(s))
                          /\ WF_vars(ServeBind(s))
                          /\ \A c \in Clients : WF_vars(Accept(s, c))
    /\ \A c \in Clients : WF_vars(ServerRead(c)) /\ WF_vars(ServerHandle(c))
                          /\ WF_vars(ClientRead(c))

Spec == Init /\ [][Next]_vars /\ Fairness

-----------------------------------------------------------------------------
TypeOK ==
    /\ srv \in [Servers -> SrvStates]
    /\ sockFile \in Servers \cup {NoFile, Stale}
    /\ cpc \in [Clients -> {"idle", "sent", "done"}]
    /\ cline \in [Clients -> Lines]
    /\ peer \in [Clients -> Servers \cup {NoServer}]
    /\ tpc \in [Clients -> TaskStates]
    /\ unread \in [Clients -> BOOLEAN]
    /\ replies \in [Clients -> 0..1]
    /\ cres \in [Clients -> {"none", "ok", "err"}]
    /\ handled \in [Clients -> BOOLEAN]

(* Version check (read_request strict and loose paths, parse_version): a  *)
(* request that came inside an envelope (a version key and a "request"    *)
(* member) reaches the handler only if its version is exactly             *)
(* RPC_PROTOCOL_VERSION, whatever form it took (number, numeric string,   *)
(* a value beyond u8, junk), and however the tasks of other connections   *)
(* and server restarts interleave with it.                                *)
EnvelopeVersionExact ==
    \A c \in Clients :
        handled[c] /\ cline[c].vkey # "none" /\ cline[c].req # "absent"
            => cline[c].vval.n = ServerVersion

(* spec 6: the protocol version field must match exactly between client  *)
(* and server: every request the handler receives carried a version key  *)
(* equal to RPC_PROTOCOL_VERSION.                                         *)
EveryRequestVersioned ==
    \A c \in Clients :
        handled[c] => cline[c].vkey # "none" /\ cline[c].vval.n = ServerVersion

(* spec 6: a response carries a structured result or a structured error: *)
(* a client connected to a server gets a response line, never a closed   *)
(* connection, unless that server process died.                          *)
EveryReadRequestAnswered ==
    \A c \in Clients :
        cres[c] = "err" /\ peer[c] \in Servers => srv[peer[c]] = "dead"

(* serve "removes the stale socket": a live listener is never cut off    *)
(* from its socket path by another server's start.                       *)
ListenerReachable ==
    \A s \in Servers : srv[s] = "listening" => sockFile = s

(* What send_envelope returned is explained by what the server did with  *)
(* the request (handle_stream, read_request, write_response): Ok only     *)
(* after the handler ran on it (so read_request accepted the line), and   *)
(* Err from a server that is still alive only when read_request rejected  *)
(* the line or the handler ran and failed -- never while the request is   *)
(* still waiting in the socket or being handled.                          *)
ClientResultExplained ==
    \A c \in Clients :
        /\ cres[c] = "ok" => handled[c]
        /\ cres[c] = "err" /\ peer[c] \in Servers /\ srv[peer[c]] # "dead"
             => ReadRequest(cline[c]) = "reject" \/ handled[c]

(* write_response never writes into a connection whose client has already *)
(* returned from send_envelope: each connection carries one request line, *)
(* so the task answers it at most once, and before the client reads.      *)
NoWriteAfterReturn ==
    [][\A c \in Clients : cpc[c] = "done" => replies'[c] <= replies[c]]_vars

(* send_envelope always returns: a client that wrote its request gets a  *)
(* response or an error, never waits forever on read_line.               *)
ClientCompletes ==
    \A c \in Clients : cpc[c] = "sent" ~> cpc[c] = "done"

=============================================================================
