--------------------------- MODULE MasterSessions ---------------------------
(***************************************************************************)
(* The sessions of the masters of one cluster with the orchestrator, over  *)
(* time: the reconnect loop of a master (ConnectToOrchestrator and         *)
(* connectLoop, src/master/orchestrator_client.go), the handlers of its    *)
(* connections on the orchestrator and their table masterConns             *)
(* (src/orchestrator/tcp/server.go), what the store keeps of each master   *)
(* (src/orchestrator/registry), and the pages that look for the master of  *)
(* a node (SendClusterCommandWait).                                        *)
(*                                                                         *)
(* What goes on inside one session is OrchSession's; here its connectLoop  *)
(* sends an update, takes the answer, and ends on an error.  A session may *)
(* end on the master long before its handler on the orchestrator notices:  *)
(* after the hello the handler has no deadline.                            *)
(***************************************************************************)
EXTENDS Naturals, Sequences

CONSTANTS
    Masters,
    Nodes,      \* ids of slaves
    Conns,      \* TCP connections, used again once nobody holds them
    Pages,      \* requests of the web server
    None,
    MaxFaults   \* bound: cuts, restarts, rejected updates, moves of slaves

ASSUME NoneAssumption == None \notin Masters \cup Conns
ASSUME FaultsAssumption == MaxFaults \in Nat

VARIABLES
    client,    \* each master: "backoff", "challenge" or "verdict" (it waits
               \* for that packet), "await" (an answer), "idle"
    mcon,      \* its open connection
    handler,   \* handleConn of each connection: "closed", "challenged",
               \* "authed", "open", "leaving"
    peer,      \* the master that dialled it, whose id auth.hello carries
    conns,     \* masterConns: the connection of each master
    allowed,   \* the masters whose proof verifies and that the whitelist of
               \* this run of the orchestrator has
    entry,     \* the store: the nodes each master has reported, None when
               \* there is no entry or it is older than the ttl
    attached,  \* the master each slave has its session with
    toOrch,    \* packets on their way
    toMaster,
    cut,       \* the network has dropped the connection
    overlap,   \* the master dialled while an earlier handler of it still
               \* ran; for the properties only
    page,      \* each request: "idle", "routed" or "refused"
    target,    \* the master it was routed to
    sole,      \* the one master that listed the node when it was routed, if
               \* there was just one; for the properties only
    faults

clientVars == <<client, mcon>>
pageVars == <<page, target, sole>>
vars == <<client, mcon, handler, peer, conns, allowed, entry, attached, toOrch, toMaster,
          cut, overlap, page, target, sole, faults>>

Auth == [type |-> "auth"]
Update(nodes) == [type |-> "update", nodes |-> nodes]
FromMaster == {Auth} \cup {Update(nodes) : nodes \in SUBSET Nodes}
ToMaster == {"challenge", "ok", "error"}

\* The master's end is closed, or nothing reaches it any more.
Gone(c) == cut[c] \/ \A m \in Masters : mcon[m] # c

\* The same of the orchestrator's end.
Unheard(c) == cut[c] \/ handler[c] = "closed"

SendToMaster(c, p) ==
    toMaster' = IF Gone(c) THEN toMaster ELSE [toMaster EXCEPT ![c] = Append(@, p)]

SendToOrch(c, p) ==
    toOrch' = IF Unheard(c) THEN toOrch ELSE [toOrch EXCEPT ![c] = Append(@, p)]

\* buildMasterInfo: what listConnectedNodeIDs says now.
NodesOf(m) == {n \in Nodes : attached[n] = m}

Fault == faults < MaxFaults /\ faults' = faults + 1

Init ==
    /\ client = [m \in Masters |-> "backoff"]
    /\ mcon = [m \in Masters |-> None]
    /\ handler = [c \in Conns |-> "closed"]
    /\ peer = [c \in Conns |-> None]
    /\ conns = [m \in Masters |-> None]
    /\ allowed = Masters
    /\ entry = [m \in Masters |-> None]
    /\ attached = [n \in Nodes |-> None]
    /\ toOrch = [c \in Conns |-> <<>>]
    /\ toMaster = [c \in Conns |-> <<>>]
    /\ cut = [c \in Conns |-> FALSE]
    /\ overlap = [c \in Conns |-> FALSE]
    /\ page = [r \in Pages |-> "idle"]
    /\ target = [r \in Pages |-> None]
    /\ sole = [r \in Pages |-> None]
    /\ faults = 0

-----------------------------------------------------------------------------
(* ConnectToOrchestrator, connectLoop *)

Free(c) == handler[c] = "closed" /\ \A m \in Masters : mcon[m] # c

\* The backoff is over: dial and hello; the orchestrator accepts and answers
\* with the challenge.
Dial(m) ==
    LET c == CHOOSE d \in Conns : Free(d) IN
    /\ client[m] = "backoff" /\ \E d \in Conns : Free(d)
    /\ client' = [client EXCEPT ![m] = "challenge"]
    /\ mcon' = [mcon EXCEPT ![m] = c]
    /\ handler' = [handler EXCEPT ![c] = "challenged"]
    /\ peer' = [peer EXCEPT ![c] = m]
    /\ toMaster' = [toMaster EXCEPT ![c] = <<"challenge">>]
    /\ overlap' = [overlap EXCEPT ![c] = \E d \in Conns : peer[d] = m]
    /\ UNCHANGED <<conns, allowed, entry, attached, toOrch, cut, pageVars, faults>>

\* connectLoop returns and closes its connection.
Leave(m) ==
    /\ client' = [client EXCEPT ![m] = "backoff"]
    /\ mcon' = [mcon EXCEPT ![m] = None]
    /\ toMaster' = [toMaster EXCEPT ![mcon[m]] = <<>>]

Become(m, state) == client' = [client EXCEPT ![m] = state] /\ UNCHANGED mcon

\* The challenge is answered with auth.hello and auth.proof, auth.ok with
\* master.register; anything else ends connectLoop.
MasterReads(m) ==
    LET c == mcon[m]
        Takes(state, p) == client[m] = state /\ Head(toMaster[c]) = p
                             /\ toMaster' = [toMaster EXCEPT ![c] = Tail(@)]
    IN
    /\ c # None /\ toMaster[c] # <<>>
    /\ \/ Takes("challenge", "challenge") /\ Become(m, "verdict") /\ SendToOrch(c, Auth)
       \/ Takes("verdict", "ok") /\ Become(m, "await") /\ SendToOrch(c, Update(NodesOf(m)))
       \/ Takes("await", "ok") /\ Become(m, "idle") /\ UNCHANGED toOrch
       \/ Head(toMaster[c]) = "error" /\ Leave(m) /\ UNCHANGED toOrch
    /\ UNCHANGED <<handler, peer, conns, allowed, entry, attached, cut, overlap, pageVars, faults>>

\* A write to a connection nobody reads may succeed or fail.
MasterHeartbeat(m) ==
    /\ client[m] = "idle"
    /\ \/ Become(m, "await") /\ SendToOrch(mcon[m], Update(NodesOf(m))) /\ UNCHANGED toMaster
       \/ Unheard(mcon[m]) /\ Leave(m) /\ UNCHANGED toOrch
    /\ UNCHANGED <<handler, peer, conns, allowed, entry, attached, cut, overlap, pageVars, faults>>

MasterReadError(m) ==
    /\ mcon[m] # None /\ Unheard(mcon[m])
    /\ Leave(m)
    /\ UNCHANGED <<handler, peer, conns, allowed, entry, attached, toOrch, cut, overlap, pageVars, faults>>

-----------------------------------------------------------------------------
(* handleConn *)

SetHandler(c, state) ==
    handler' = [handler EXCEPT ![c] = state] /\ UNCHANGED <<peer, cut, overlap>>

\* conn.Close, the first deferred and so the last call of the handler.
Close(c) ==
    /\ handler' = [handler EXCEPT ![c] = "closed"]
    /\ peer' = [peer EXCEPT ![c] = None]
    /\ cut' = [cut EXCEPT ![c] = FALSE]
    /\ overlap' = [overlap EXCEPT ![c] = FALSE]

HasRead(c, state, type) ==
    handler[c] = state /\ toOrch[c] # <<>> /\ Head(toOrch[c]).type = type

Consume(c) == toOrch' = [toOrch EXCEPT ![c] = Tail(@)]
Discard(c) == toOrch' = [toOrch EXCEPT ![c] = <<>>]

\* VerifyMasterAuth and the whitelist.
ReadAuth(c) ==
    /\ HasRead(c, "challenged", "auth")
    /\ IF peer[c] \in allowed
       THEN SetHandler(c, "authed") /\ SendToMaster(c, "ok") /\ Consume(c)
       ELSE Close(c) /\ SendToMaster(c, "error") /\ Discard(c)
    /\ UNCHANGED <<clientVars, conns, allowed, entry, attached, pageVars, faults>>

\* Mutation of RegisterMasterConn: the entry's key is the remote address.
RegisterByAddress(c) ==
    /\ handler[c] = "authed"
    /\ conns' = [x \in Masters \cup {c} |-> IF x = c THEN c ELSE conns[x]]
    /\ SetHandler(c, "open")
    /\ UNCHANGED <<clientVars, entry, allowed, attached, toOrch, toMaster, pageVars, faults>>

\* registerMasterConn: the master's entry is replaced, whatever it was.
RegisterMasterConn(c) ==
    /\ handler[c] = "authed"
    /\ conns' = [conns EXCEPT ![peer[c]] = c]
    /\ SetHandler(c, "open")
    /\ UNCHANGED <<clientVars, entry, allowed, attached, toOrch, toMaster, pageVars, faults>>

\* Mutation of ReadUpdate: the nodes of a known master are not replaced.
KeepFirstNodes(c) ==
    /\ HasRead(c, "open", "update") /\ Consume(c)
    /\ entry' = [entry EXCEPT ![peer[c]] = IF @ = None THEN Head(toOrch[c]).nodes ELSE @]
    /\ SendToMaster(c, "ok")
    /\ UNCHANGED <<clientVars, handler, peer, conns, allowed, attached, cut, overlap, pageVars, faults>>

\* UpsertMaster and auth.ok.  A fault is an error: the update is rejected, or
\* a late command reply is answered (OrchSession) and taken for the answer.
ReadUpdate(c) ==
    /\ HasRead(c, "open", "update") /\ Consume(c)
    /\ \/ /\ entry' = [entry EXCEPT ![peer[c]] = Head(toOrch[c]).nodes]
          /\ SendToMaster(c, "ok") /\ UNCHANGED faults
       \/ UNCHANGED entry /\ SendToMaster(c, "error") /\ Fault
    /\ UNCHANGED <<clientVars, handler, peer, conns, allowed, attached, cut, overlap, pageVars>>

\* Before the registration the handler just returns, after it its deferred
\* unregisterMasterConn is still to run.
HandlerReadError(c) ==
    /\ handler[c] \in {"challenged", "open"} /\ Gone(c)
    /\ IF handler[c] = "open" THEN SetHandler(c, "leaving") ELSE Close(c)
    /\ Discard(c)
    /\ UNCHANGED <<clientVars, conns, allowed, entry, attached, toMaster, pageVars, faults>>

\* Mutation of UnregisterMasterConn: only conn.Close is deferred.
CloseOnly(c) ==
    /\ handler[c] = "leaving" /\ Close(c)
    /\ UNCHANGED <<clientVars, conns, allowed, entry, attached, toOrch, toMaster, pageVars, faults>>

\* Mutation of UnregisterMasterConn: the whole table is cleared.
UnregisterAll(c) ==
    /\ handler[c] = "leaving" /\ Close(c)
    /\ conns' = [m \in Masters |-> None]
    /\ UNCHANGED <<clientVars, allowed, entry, attached, toOrch, toMaster, pageVars, faults>>

\* The master's entry is deleted, whatever it is, and the connection closed.
UnregisterMasterConn(c) ==
    /\ handler[c] = "leaving" /\ Close(c)
    /\ conns' = [conns EXCEPT ![peer[c]] = None]
    /\ UNCHANGED <<clientVars, entry, allowed, attached, toOrch, toMaster, pageVars, faults>>

-----------------------------------------------------------------------------
(* The store's ttl *)

\* The last update is older than the ttl: no handler of the master is left,
\* or (a fault) a busy master has not sent one.
Expire(m) ==
    /\ entry[m] # None
    /\ \/ UNCHANGED faults /\ \A c \in Conns : peer[c] = m => handler[c] # "open"
       \/ Fault
    /\ entry' = [entry EXCEPT ![m] = None]
    /\ UNCHANGED <<clientVars, handler, peer, conns, allowed, attached, toOrch, toMaster, cut, overlap,
                   pageVars>>

-----------------------------------------------------------------------------
(* SendClusterCommandWait for a command to a node *)

\* Mutation of Listing: MasterHasNode is not asked.
AnyMaster(n) == {m \in Masters : entry[m] # None}

\* MastersForCluster and MasterHasNode.
Listing(n) == {m \in Masters : entry[m] # None /\ n \in entry[m]}

\* The master that lists the node, if exactly one does.
SoleOwner(n) ==
    LET owners == {m \in Masters : entry[m] # None /\ n \in entry[m]} IN
    IF \E m \in Masters : owners = {m} THEN CHOOSE m \in Masters : owners = {m} ELSE None

\* A copy of the store is searched in the order of a Go map: the first master
\* that lists the node is the only one tried.
Route(r, n) ==
    /\ page[r] \in {"idle", "refused"}
    /\ sole' = [sole EXCEPT ![r] = SoleOwner(n)]
    /\ IF Listing(n) = {}
       THEN page' = [page EXCEPT ![r] = "refused"] /\ UNCHANGED target
       ELSE /\ page' = [page EXCEPT ![r] = "routed"]
            /\ \E m \in Listing(n) : target' = [target EXCEPT ![r] = m]
    /\ UNCHANGED <<clientVars, handler, peer, conns, allowed, entry, attached, toOrch, toMaster, cut,
                   overlap, faults>>

\* sendCommandWait: the request goes out on the master's connection (the rest
\* is CommandPath's), or "master not connected".
Lookup(r) ==
    /\ page[r] = "routed"
    /\ page' = [page EXCEPT ![r] = IF conns[target[r]] = None THEN "refused" ELSE "idle"]
    /\ target' = [target EXCEPT ![r] = None]
    /\ sole' = [sole EXCEPT ![r] = None]
    /\ UNCHANGED <<clientVars, handler, peer, conns, allowed, entry, attached, toOrch, toMaster,
                   cut, overlap, faults>>

-----------------------------------------------------------------------------
(* Slaves and faults *)

\* A slave's session with a master begins, ends or moves to another master.
Attach(n, m) ==
    /\ attached[n] # m
    /\ Fault
    /\ attached' = [attached EXCEPT ![n] = m]
    /\ UNCHANGED <<clientVars, handler, peer, conns, allowed, entry, toOrch, toMaster, cut,
                   overlap, pageVars>>

\* The network drops a connection; each end learns of it late and on its own.
Cut(c) ==
    /\ ~cut[c] /\ handler[c] # "closed" /\ ~Gone(c)
    /\ Fault
    /\ cut' = [cut EXCEPT ![c] = TRUE]
    /\ toOrch' = [toOrch EXCEPT ![c] = <<>>]
    /\ toMaster' = [toMaster EXCEPT ![c] = <<>>]
    /\ UNCHANGED <<clientVars, handler, peer, conns, allowed, entry, attached, overlap, pageVars>>

\* systemd restarts the process of a master, which loses its slaves.
MasterRestarts(m) ==
    /\ mcon[m] # None
    /\ Fault
    /\ Leave(m)
    /\ attached' = [n \in Nodes |-> IF attached[n] = m THEN None ELSE attached[n]]
    /\ UNCHANGED <<handler, peer, conns, allowed, entry, toOrch, cut, overlap, pageVars>>

\* The same of the orchestrator: connections, table, store and pages are gone,
\* and the configuration is read again.
OrchRestarts ==
    /\ \E c \in Conns : handler[c] # "closed"
    /\ Fault
    /\ handler' = [c \in Conns |-> "closed"]
    /\ peer' = [c \in Conns |-> None]
    /\ cut' = [c \in Conns |-> FALSE]
    /\ overlap' = [c \in Conns |-> FALSE]
    /\ conns' = [m \in Masters |-> None]
    /\ allowed' \in SUBSET Masters
    /\ entry' = [m \in Masters |-> None]
    /\ toOrch' = [c \in Conns |-> <<>>]
    /\ page' = [r \in Pages |-> "idle"]
    /\ target' = [r \in Pages |-> None]
    /\ sole' = [r \in Pages |-> None]
    /\ UNCHANGED <<clientVars, attached, toMaster>>

Master(m) ==
    \/ Dial(m) \/ MasterReads(m) \/ MasterHeartbeat(m) \/ MasterReadError(m)

Handler(c) ==
    \/ ReadAuth(c) \/ RegisterMasterConn(c) \/ ReadUpdate(c)
    \/ HandlerReadError(c) \/ UnregisterMasterConn(c)

Page(r) == (\E n \in Nodes : Route(r, n)) \/ Lookup(r)

Next ==
    \/ \E m \in Masters : Master(m) \/ Expire(m) \/ MasterRestarts(m)
    \/ \E c \in Conns : Handler(c) \/ Cut(c)
    \/ \E r \in Pages : Page(r)
    \/ \E n \in Nodes, m \in Masters \cup {None} : Attach(n, m)
    \/ OrchRestarts

\* Every goroutine runs on: timers fire, a closed or dropped connection is
\* noticed by both its readers (TCP keepalive), time passes the ttl.  Faults are never fair.
Fairness ==
    /\ \A m \in Masters : WF_vars(Master(m)) /\ WF_vars(Expire(m) /\ UNCHANGED faults)
    /\ \A c \in Conns : WF_vars(Handler(c))

Spec == Init /\ [][Next]_vars /\ Fairness

-----------------------------------------------------------------------------
TypeOK ==
    /\ client \in [Masters -> {"backoff", "challenge", "verdict", "await", "idle"}]
    /\ mcon \in [Masters -> Conns \cup {None}]
    /\ handler \in [Conns -> {"closed", "challenged", "authed", "open", "leaving"}]
    /\ peer \in [Conns -> Masters \cup {None}]
    /\ conns \in [Masters -> Conns \cup {None}]
    /\ allowed \subseteq Masters
    /\ entry \in [Masters -> {None} \cup SUBSET Nodes]
    /\ attached \in [Nodes -> Masters \cup {None}]
    /\ toOrch \in [Conns -> Seq(FromMaster)]
    /\ toMaster \in [Conns -> Seq(ToMaster)]
    /\ cut \in [Conns -> BOOLEAN] /\ overlap \in [Conns -> BOOLEAN]
    /\ page \in [Pages -> {"idle", "routed", "refused"}]
    /\ target \in [Pages -> Masters \cup {None}] /\ sole \in [Pages -> Masters \cup {None}]
    /\ faults \in 0..MaxFaults

(* masterConns never holds a connection whose handler has ended, nor one of *)
(* another master, nor one of a master that was refused.                    *)
TableHoldsOpenSessions ==
    \A m \in Masters : conns[m] # None =>
        /\ handler[conns[m]] \in {"open", "leaving"}
        /\ peer[conns[m]] = m /\ m \in allowed

\* Both ends of the session are open.
Serving(c) == handler[c] = "open" /\ mcon[peer[c]] = c

(* A master in session is in masterConns under that session, unless it      *)
(* dialled before the orchestrator had noticed the end of its previous one: *)
(* then the old handler's unregisterMasterConn may delete the new entry,    *)
(* and the master stays in the store but out of reach.                      *)
ConnectedMasterIsReachable ==
    \A c \in Conns : Serving(c) /\ ~overlap[c] => conns[peer[c]] = c

(* A page whose node only one master lists is not refused while that master *)
(* is in a session that did not overlap an earlier one, whatever other      *)
(* masters the cluster has, connected or not: it goes to that master.       *)
SoleOwnerIsReached ==
    [][\A r \in Pages :
        /\ page[r] = "routed" /\ sole[r] # None
        /\ \E c \in Conns : Serving(c) /\ ~overlap[c] /\ peer[c] = sole[r]
        => page'[r] # "refused"]_vars

(* Once faults stop, every allowed master gets a session and the store      *)
(* lists each slave under the master it is attached to and under no other:  *)
(* no ghost of a slave that moved, of a master that restarted or of an old  *)
(* session's update that was applied after the new session's.               *)
StoreConverges ==
    <>[](\A m \in Masters : entry[m] = IF m \in allowed THEN NodesOf(m) ELSE None)

=============================================================================
