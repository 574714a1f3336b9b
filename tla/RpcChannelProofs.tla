-------------------------- MODULE RpcChannelProofs --------------------------
(***************************************************************************)
(* Proofs about the RPC channel for every set of servers, clients and     *)
(* request lines: the type invariant and the version check of             *)
(* read_request. Both rest on the inductive invariant IInv below.         *)
(***************************************************************************)
EXTENDS RpcChannel, TLAPS

(* What one client's connection can be in, beyond its type:               *)
(*  - before send_envelope connects, no task, peer, reply, result or      *)
(*    handling exists for it (so the line it is about to write is free);  *)
(*  - a line still unread, or a request being handled, has no response   *)
(*    written for it yet (so at most one response is ever written);       *)
(*  - a request being handled was taken off the socket;                   *)
(*  - a request being or having been handled is one read_request accepted *)
(*    (cline is not overwritten after the send);                          *)
(*  - while its line waits in the socket or is being handled, the client  *)
(*    is still blocked in read_line (it can only return on a response or  *)
(*    on a closed connection, and neither exists yet);                    *)
(*  - a task not yet accepted has the line waiting; a task back at        *)
(*    read_request with the line consumed has handled it;                 *)
(*  - a response written, or an Ok read, means the handler ran;           *)
(*  - a connection closed by a server that is still alive, and an Err the *)
(*    client read from it, come from a rejected line or a handler that    *)
(*    ran;                                                                *)
(*  - a client in send_envelope past connect has the server whose         *)
(*    listener took its connection as peer.                               *)
Explained(c) == ReadRequest(cline[c]) = "reject" \/ handled[c]

LivePeer(c) == peer[c] \in Servers /\ srv[peer[c]] # "dead"

ConnInv(c) ==
    /\ cpc[c] = "idle" => /\ tpc[c] = "none" /\ peer[c] = NoServer
                          /\ ~handled[c] /\ replies[c] = 0 /\ cres[c] = "none"
    /\ unread[c] \/ tpc[c] = "handle" => replies[c] = 0
    /\ tpc[c] = "handle" => ~unread[c]
    /\ tpc[c] = "handle" \/ handled[c] => ReadRequest(cline[c]) = "accept"
    /\ tpc[c] \in {"pending", "read", "handle"} /\ (unread[c] \/ tpc[c] = "handle")
         => cpc[c] = "sent"
    /\ tpc[c] = "pending" => unread[c]
    /\ tpc[c] = "read" /\ ~unread[c] => handled[c]
    /\ replies[c] > 0 => handled[c]
    /\ cres[c] = "ok" => handled[c]
    /\ tpc[c] = "closed" /\ LivePeer(c) => Explained(c)
    /\ cres[c] = "err" /\ LivePeer(c) => Explained(c)
    /\ cpc[c] = "sent" => peer[c] \in Servers

IInv == TypeOK /\ \A c \in Clients : ConnInv(c)

(* The decoder's guarantee: a line read_request accepts that carries a    *)
(* version key and a "request" member has exactly the server's version.  *)
(* This is where the u8 range check of parse_version and the exclusion of *)
(* version 0 (the value unwrap_or gives junk) are needed.                 *)
LEMMA AcceptedEnvelopeExact ==
    ASSUME NEW l \in LineType,
           ReadRequest(l) = "accept",
           l.vkey # "none", l.req # "absent"
    PROVE  l.vval.n = ServerVersion
<1>1. ~l.blank
  BY DEF ReadRequest
<1>2. LooseParses(l)
  BY DEF LineType, LooseParses
<1>3. CASE StrictParses(l)
  BY <1>1, <1>3 DEF ReadRequest
<1>4. CASE ~StrictParses(l)
  <2>1. ParseVersion(l.vval) = ServerVersion
    BY <1>1, <1>2, <1>4 DEF ReadRequest
  <2>2. QED
    BY <2>1, ChannelAssumption DEF ParseVersion
<1>5. QED
  BY <1>3, <1>4

LEMMA InitIInv == Init => IInv
<1> SUFFICES ASSUME Init PROVE IInv
  OBVIOUS
<1>1. AnyLine \in Lines
  BY ChannelAssumption DEF AnyLine
<1>2. TypeOK
  BY <1>1 DEF Init, TypeOK, SrvStates, TaskStates
<1>3. \A c \in Clients : ConnInv(c)
  BY DEF Init, ConnInv
<1>4. QED
  BY <1>2, <1>3 DEF IInv

(* A step that leaves one connection's variables alone, and brings no     *)
(* dead server back, keeps that connection's invariant.                   *)
LEMMA ConnInvFrame ==
    ASSUME NEW d \in Clients, ConnInv(d),
           cpc'[d] = cpc[d], cline'[d] = cline[d], peer'[d] = peer[d],
           tpc'[d] = tpc[d], unread'[d] = unread[d], replies'[d] = replies[d],
           cres'[d] = cres[d], handled'[d] = handled[d],
           LivePeer(d)' => LivePeer(d)
    PROVE  ConnInv(d)'
BY DEF ConnInv, Explained

(* The serve start-up steps move a server between init, remove, bind,    *)
(* listening and failed: none of them touches a connection or a dead one. *)
LEMMA StartupKeeps ==
    ASSUME IInv, NEW s \in Servers, ServeCheck(s) \/ ServeRemove(s) \/ ServeBind(s)
    PROVE  IInv'
<1>1. TypeOK'
  BY DEF IInv, TypeOK, ServeCheck, ServeRemove, ServeBind, SrvStates
<1>2. /\ UNCHANGED <<cpc, cline, peer, tpc, unread, replies, cres, handled>>
      /\ \A x \in Servers : srv'[x] # "dead" => srv[x] # "dead"
  BY DEF IInv, TypeOK, ServeCheck, ServeRemove, ServeBind
<1>3. ASSUME NEW d \in Clients PROVE ConnInv(d)'
  <2>1. LivePeer(d)' => LivePeer(d)
    BY <1>2 DEF LivePeer
  <2>2. QED
    BY <1>2, <2>1, ConnInvFrame DEF IInv
<1>4. QED
  BY <1>1, <1>3 DEF IInv

LEMMA NextIInv == IInv /\ [Next]_vars => IInv'
<1> SUFFICES ASSUME IInv, [Next]_vars PROVE IInv'
  OBVIOUS
<1> USE DEF IInv, TypeOK
<1>1. ASSUME NEW s \in Servers, ServeCheck(s) \/ ServeRemove(s) \/ ServeBind(s)
      PROVE  IInv'
  BY <1>1, StartupKeeps
<1>4. ASSUME NEW s \in Servers, ServerCrash(s) PROVE IInv'
  <2>1. TypeOK'
    BY <1>4 DEF ServerCrash, SrvStates, TaskStates
  <2>2. ASSUME NEW d \in Clients PROVE ConnInv(d)'
    <3>1. cpc[d] = "idle" => peer[d] # s
      BY ChannelAssumption DEF ConnInv, NoServer
    <3>2. CASE peer[d] = s
      <4>1. /\ tpc'[d] = "closed" /\ ~LivePeer(d)'
            /\ cpc'[d] = cpc[d] /\ cline'[d] = cline[d] /\ peer'[d] = peer[d]
            /\ unread'[d] = unread[d] /\ replies'[d] = replies[d]
            /\ cres'[d] = cres[d] /\ handled'[d] = handled[d]
        BY <1>4, <3>2 DEF ServerCrash, LivePeer
      <4>2. QED
        BY <4>1, <3>1, <3>2 DEF ConnInv
    <3>3. CASE peer[d] # s
      <4>1. /\ tpc'[d] = tpc[d] /\ LivePeer(d)' = LivePeer(d)
            /\ cpc'[d] = cpc[d] /\ cline'[d] = cline[d] /\ peer'[d] = peer[d]
            /\ unread'[d] = unread[d] /\ replies'[d] = replies[d]
            /\ cres'[d] = cres[d] /\ handled'[d] = handled[d]
        BY <1>4, <3>3 DEF ServerCrash, LivePeer
      <4>2. QED
        BY <4>1, ConnInvFrame
    <3>4. QED
      BY <3>2, <3>3
  <2>3. QED
    BY <2>1, <2>2
<1>5. ASSUME NEW s \in Servers, NEW c \in Clients, Accept(s, c) PROVE IInv'
  <2>1. TypeOK'
    BY <1>5 DEF Accept, TaskStates
  <2>2. ConnInv(c)'
    BY <1>5 DEF Accept, ConnInv, Explained, LivePeer
  <2>3. ASSUME NEW d \in Clients, d # c PROVE ConnInv(d)'
    BY <1>5, <2>3, ConnInvFrame DEF Accept, LivePeer
  <2>4. QED
    BY <2>1, <2>2, <2>3
<1>6. ASSUME NEW c \in Clients, ServerRead(c) PROVE IInv'
  <2>1. TypeOK'
    BY <1>6 DEF ServerRead, TaskStates, ReadErrorNext
  <2>2. CASE unread[c]
    <3>1. /\ tpc'[c] = IF ReadRequest(cline[c]) = "accept" THEN "handle" ELSE "closed"
          /\ ~unread'[c] /\ cpc' = cpc /\ cline' = cline /\ peer' = peer /\ srv' = srv
          /\ replies' = replies /\ handled' = handled /\ cres' = cres
      BY <1>6, <2>2 DEF ServerRead, ReadErrorNext
    <3>2. tpc[c] = "read" /\ cpc[c] = "sent" /\ replies[c] = 0
      BY <1>6, <2>2 DEF ServerRead, ConnInv
    <3>3. ConnInv(c)'
      <4>1. CASE ReadRequest(cline[c]) = "accept"
        <5>1. tpc'[c] = "handle"
          BY <3>1, <4>1
        <5>2. QED
          BY <3>1, <3>2, <4>1, <5>1 DEF ConnInv, Explained, LivePeer
      <4>2. CASE ReadRequest(cline[c]) # "accept"
        <5>1. tpc'[c] = "closed" /\ ReadRequest(cline[c]) = "reject"
          BY <3>1, <4>2 DEF ReadRequest
        <5>2. QED
          BY <3>1, <3>2, <5>1 DEF ConnInv, Explained, LivePeer
      <4>3. QED
        BY <4>1, <4>2
    <3>4. \A d \in Clients : d # c => tpc'[d] = tpc[d] /\ unread'[d] = unread[d]
      BY <1>6 DEF ServerRead
    <3>5. ASSUME NEW d \in Clients PROVE ConnInv(d)'
      <4>1. CASE d = c
        BY <3>3, <4>1
      <4>2. CASE d # c
        BY <3>1, <3>4, <4>2, ConnInvFrame DEF LivePeer
      <4>3. QED
        BY <4>1, <4>2
    <3>6. QED
      BY <2>1, <3>5
  <2>3. CASE ~unread[c]
    <3>1. /\ tpc'[c] = "closed" /\ tpc[c] = "read" /\ ~unread'[c]
          /\ cpc' = cpc /\ cline' = cline /\ peer' = peer /\ srv' = srv
          /\ replies' = replies /\ handled' = handled /\ cres' = cres
      BY <1>6, <2>3 DEF ServerRead
    <3>2. handled[c]
      BY <2>3, <3>1 DEF ConnInv
    <3>3. ConnInv(c)'
      BY <3>1, <3>2, <2>3 DEF ConnInv, Explained, LivePeer
    <3>4. \A d \in Clients : d # c => tpc'[d] = tpc[d] /\ unread'[d] = unread[d]
      BY <1>6 DEF ServerRead
    <3>5. ASSUME NEW d \in Clients PROVE ConnInv(d)'
      <4>1. CASE d = c
        BY <3>3, <4>1
      <4>2. CASE d # c
        BY <3>1, <3>4, <4>2, ConnInvFrame DEF LivePeer
      <4>3. QED
        BY <4>1, <4>2
    <3>6. QED
      BY <2>1, <3>5
  <2>4. QED
    BY <2>2, <2>3
<1>7. ASSUME NEW c \in Clients, ServerHandle(c) PROVE IInv'
  <2>1. TypeOK'
    BY <1>7 DEF ServerHandle, TaskStates, ConnInv
  <2>2. ConnInv(c)'
    BY <1>7 DEF ServerHandle, ConnInv, Explained, LivePeer
  <2>3. ASSUME NEW d \in Clients, d # c PROVE ConnInv(d)'
    BY <1>7, <2>3, ConnInvFrame DEF ServerHandle, LivePeer
  <2>4. QED
    BY <2>1, <2>2, <2>3
<1>8. ASSUME NEW c \in Clients, NEW l \in Lines, ClientSend(c, l) PROVE IInv'
  <2>1. TypeOK'
    BY <1>8 DEF ClientSend, TaskStates
  <2>2. ConnInv(c)'
    <3>1. tpc[c] = "none" /\ peer[c] = NoServer /\ ~handled[c] /\ replies[c] = 0
      BY <1>8 DEF ClientSend, ConnInv
    <3>2. NoServer \notin Servers
      BY ChannelAssumption DEF NoServer
    <3>3. CASE sockFile \in Servers /\ srv[sockFile] = "listening"
      <4>1. /\ cpc'[c] = "sent" /\ tpc'[c] = "pending" /\ unread'[c]
            /\ peer'[c] \in Servers /\ srv' = srv
            /\ cres' = cres /\ replies' = replies /\ handled' = handled
        BY <1>8, <3>3 DEF ClientSend
      <4>2. cres[c] = "none"
        BY <1>8, <3>1 DEF ClientSend, ConnInv
      <4>3. QED
        BY <3>1, <4>1, <4>2 DEF ConnInv, Explained, LivePeer
    <3>4. CASE ~(sockFile \in Servers /\ srv[sockFile] = "listening")
      <4>1. /\ cpc'[c] = "done" /\ tpc'[c] = "none" /\ peer'[c] = NoServer
            /\ cres'[c] = "err" /\ replies' = replies /\ handled' = handled
        BY <1>8, <3>1, <3>4 DEF ClientSend
      <4>2. QED
        BY <3>1, <3>2, <4>1 DEF ConnInv, Explained, LivePeer
    <3>5. QED
      BY <3>3, <3>4
  <2>3. ASSUME NEW d \in Clients, d # c PROVE ConnInv(d)'
    BY <1>8, <2>3, ConnInvFrame DEF ClientSend, LivePeer
  <2>4. QED
    BY <2>1, <2>2, <2>3
<1>9. ASSUME NEW c \in Clients, ClientRead(c) PROVE IInv'
  <2>1. TypeOK'
    BY <1>9 DEF ClientRead, TaskStates
  <2>2. ConnInv(c)'
    BY <1>9 DEF ClientRead, ConnInv, Explained, LivePeer
  <2>3. ASSUME NEW d \in Clients, d # c PROVE ConnInv(d)'
    BY <1>9, <2>3, ConnInvFrame DEF ClientRead, LivePeer
  <2>4. QED
    BY <2>1, <2>2, <2>3
<1>10. CASE UNCHANGED vars
  BY <1>10, ConnInvFrame DEF vars, LivePeer
<1>11. QED
  BY <1>1, <1>4, <1>5, <1>6, <1>7, <1>8, <1>9, <1>10
     DEF Next, ServerStep, ClientStep

(* The channel's variables always have their types; in particular a      *)
(* connection never carries more than one unread response line, because  *)
(* handle_stream handles the single line the one-shot client writes once. *)
THEOREM TypeCorrect == Spec => []TypeOK
BY InitIInv, NextIInv, PTL DEF Spec, IInv

(* The version check of read_request: in every behaviour, whatever the    *)
(* interleaving of server starts, crashes, connection tasks and clients,  *)
(* no request sent inside an envelope with a version other than          *)
(* RPC_PROTOCOL_VERSION reaches the handler.                              *)
THEOREM VersionChecked == Spec => []EnvelopeVersionExact
<1>1. IInv => EnvelopeVersionExact
  <2> SUFFICES ASSUME IInv, NEW c \in Clients,
                      handled[c], cline[c].vkey # "none", cline[c].req # "absent"
               PROVE  cline[c].vval.n = ServerVersion
    BY DEF EnvelopeVersionExact
  <2>1. ReadRequest(cline[c]) = "accept"
    BY DEF IInv, ConnInv
  <2>2. cline[c] \in LineType
    BY ChannelAssumption DEF IInv, TypeOK
  <2>3. QED
    BY <2>1, <2>2, AcceptedEnvelopeExact
<1>2. QED
  BY <1>1, InitIInv, NextIInv, PTL DEF Spec

(* The client's result is explained by the server (send_envelope against *)
(* handle_stream): Ok only after the handler ran on the request, and Err *)
(* from a live server only for a rejected line or a handler that ran,    *)
(* whatever the interleaving of servers, crashes and other clients.      *)
THEOREM ResultExplained == Spec => []ClientResultExplained
<1>1. IInv => ClientResultExplained
  BY DEF IInv, ConnInv, ClientResultExplained, Explained, LivePeer
<1>2. QED
  BY <1>1, InitIInv, NextIInv, PTL DEF Spec

(* No response is written into a connection after its client returned   *)
(* from send_envelope: only ServerHandle writes, and a task handling a   *)
(* request has a client still blocked in read_line.                     *)
THEOREM NoLateWrite == Spec => NoWriteAfterReturn
<1>1. IInv /\ [Next]_vars => \A c \in Clients : cpc[c] = "done" => replies'[c] <= replies[c]
  <2> SUFFICES ASSUME IInv, [Next]_vars, NEW c \in Clients, cpc[c] = "done"
               PROVE  replies'[c] <= replies[c]
    OBVIOUS
  <2>1. replies[c] \in Nat
    BY DEF IInv, TypeOK
  <2>2. tpc[c] # "handle"
    BY DEF IInv, ConnInv
  <2>3. replies'[c] = replies[c] \/ replies'[c] = replies[c] - 1
    <3>1. ASSUME NEW d \in Clients, ServerHandle(d) PROVE replies'[c] = replies[c]
      BY <2>2, <3>1 DEF ServerHandle, IInv, TypeOK
    <3>2. ASSUME NEW d \in Clients, ClientRead(d)
          PROVE  replies'[c] = replies[c] \/ replies'[c] = replies[c] - 1
      BY <3>2 DEF ClientRead, IInv, TypeOK
    <3>3. QED
      BY <3>1, <3>2 DEF Next, ServerStep, ClientStep, vars, ServeCheck, ServeRemove,
         ServeBind, ServerCrash, Accept, ServerRead, ClientSend
  <2>4. QED
    BY <2>1, <2>3
<1>2. QED
  BY <1>1, InitIInv, NextIInv, PTL DEF Spec, NoWriteAfterReturn
=============================================================================
