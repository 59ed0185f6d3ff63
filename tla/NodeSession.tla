---------------------------- MODULE NodeSession ----------------------------
(***************************************************************************)
(* The sessions between the slaves and their master: handleConnection and  *)
(* the registry `nodes` of the master (src/master/server.go, nodes.go),    *)
(* slave.Connect (src/slave/slave.go) and the life of the slave's process, *)
(* which main.go never ends and systemd restarts when it exits.            *)
(*                                                                         *)
(* Time is abstracted: a heartbeat may time out whenever it is awaited     *)
(* (HeartbeatTiming says when a healthy slave lets that happen).  Packets  *)
(* of a connection arrive in order until one end closes, a process dies or *)
(* the network drops the connection without telling anyone.                *)
(***************************************************************************)
EXTENDS Sequences

CONSTANTS
    Slaves,        \* the ids of the slaves
    Conns,         \* TCP connections, used again once both ends are closed
    None,
    AllowedNodes,  \* master.allowednodes
    GoodKeys       \* the slaves whose two key files belong together

ASSUME NoneAssumption == None \notin Slaves \cup Conns
ASSUME SubsetAssumption == AllowedNodes \subseteq Slaves /\ GoodKeys \subseteq Slaves
\* In toMaster an id stands for the auth.hello that carries it.
ASSUME PacketAssumption == Slaves \cap {"proof", "reply"} = {}

VARIABLES
    proc,     \* the process of each slave: "down", "hello" (waits for the
              \* challenge), "proof" (waits for the verdict), "running",
              \* "zombie" (Connect has returned, main sleeps on)
    scon,     \* its open connection
    handler,  \* handleConnection of each connection: "closed", "hello",
              \* "challenged", "authed", "due", "waiting", "sleeping",
              \* "leaving", "closing"
    who,      \* the id its peer gave in auth.hello
    nodes,    \* the registry: the connection of each id
    toMaster, \* packets on their way
    toSlave,
    cut,      \* the network has dropped the connection
    overlap   \* the slave dialled while an earlier handler of it still ran;
              \* for the properties only

slaveVars == <<proc, scon>>
vars == <<proc, scon, handler, who, nodes, toMaster, toSlave, cut, overlap>>

IsAllowed(s) == AllowedNodes = {} \/ s \in AllowedNodes

\* Nobody reads the slave's end any more.
Gone(c) == cut[c] \/ \A s \in Slaves : scon[s] # c

\* Nobody reads the master's end any more.
Unheard(c) == cut[c] \/ handler[c] = "closed"

SendToSlave(c, p) == toSlave' = IF Gone(c) THEN toSlave ELSE [toSlave EXCEPT ![c] = Append(@, p)]

Init ==
    /\ proc = [s \in Slaves |-> "down"]
    /\ scon = [s \in Slaves |-> None]
    /\ handler = [c \in Conns |-> "closed"]
    /\ who = [c \in Conns |-> None]
    /\ nodes = [s \in Slaves |-> None]
    /\ toMaster = [c \in Conns |-> <<>>]
    /\ toSlave = [c \in Conns |-> <<>>]
    /\ cut = [c \in Conns |-> FALSE]
    /\ overlap = [c \in Conns |-> FALSE]

-----------------------------------------------------------------------------
(* The slave *)

LiveHandler(c) == handler[c] \in {"authed", "due", "waiting", "sleeping", "leaving"}

\* A handler that serves, or is about to serve, an earlier connection of s.
HandlerOf(c, s) ==
    /\ handler[c] # "closed"
    /\ who[c] = s \/ (toMaster[c] # <<>> /\ Head(toMaster[c]) = s)

\* systemd starts the process: dial, hello line and auth.hello.  The master
\* accepts and starts a handler.
Dial(s, c) ==
    /\ proc[s] = "down"
    /\ handler[c] = "closed" /\ \A x \in Slaves : scon[x] # c
    /\ proc' = [proc EXCEPT ![s] = "hello"]
    /\ scon' = [scon EXCEPT ![s] = c]
    /\ handler' = [handler EXCEPT ![c] = "hello"]
    /\ who' = [who EXCEPT ![c] = None]
    /\ toMaster' = [toMaster EXCEPT ![c] = <<s>>]
    /\ toSlave' = [toSlave EXCEPT ![c] = <<>>]
    /\ cut' = [cut EXCEPT ![c] = FALSE]
    /\ overlap' = [overlap EXCEPT ![c] = \E d \in Conns : HandlerOf(d, s)]
    /\ UNCHANGED nodes

\* The process ends or Connect returns; either closes the connection.
Leave(s, how) ==
    /\ proc' = [proc EXCEPT ![s] = how]
    /\ scon' = [scon EXCEPT ![s] = None]

Answer(s, c, p) ==
    /\ toMaster' = IF Unheard(c) THEN toMaster ELSE [toMaster EXCEPT ![c] = Append(@, p)]
    /\ UNCHANGED scon

\* Any other packet than the challenge: os.Exit.
SlaveReadsChallenge(s, c, p) ==
    /\ proc[s] = "hello"
    /\ IF p = "challenge"
       THEN proc' = [proc EXCEPT ![s] = "proof"] /\ Answer(s, c, "proof")
       ELSE Leave(s, "down") /\ UNCHANGED toMaster

\* Any other packet than auth.ok: Connect returns.
SlaveReadsVerdict(s, c, p) ==
    /\ proc[s] = "proof"
    /\ UNCHANGED toMaster
    /\ IF p = "ok"
       THEN proc' = [proc EXCEPT ![s] = "running"] /\ UNCHANGED scon
       ELSE Leave(s, "zombie")

\* A write to a connection the master has closed may fail, and the handler's
\* error ends Connect.
SlaveHandles(s, c, p) ==
    /\ proc[s] = "running"
    /\ \/ p = "heartbeat" /\ Answer(s, c, "reply") /\ UNCHANGED proc
       \/ p = "heartbeat" /\ Unheard(c) /\ Leave(s, "zombie") /\ UNCHANGED toMaster
       \/ p # "heartbeat" /\ UNCHANGED <<proc, scon, toMaster>>

SlaveReads(s) ==
    LET c == scon[s] IN
    /\ c # None
    /\ toSlave[c] # <<>>
    /\ \/ SlaveReadsChallenge(s, c, Head(toSlave[c]))
       \/ SlaveReadsVerdict(s, c, Head(toSlave[c]))
       \/ SlaveHandles(s, c, Head(toSlave[c]))
    /\ toSlave' = [toSlave EXCEPT ![c] = Tail(@)]
    /\ UNCHANGED <<handler, who, nodes, cut, overlap>>

\* A read error: os.Exit before auth.ok, return after it.
SlaveReadError(s) ==
    /\ scon[s] # None /\ Unheard(scon[s])
    /\ Leave(s, IF proc[s] = "running" THEN "zombie" ELSE "down")
    /\ UNCHANGED <<handler, who, nodes, toMaster, toSlave, cut, overlap>>

\* A panic, a kill or a reboot.
SlaveCrash(s) ==
    /\ proc[s] # "down"
    /\ Leave(s, "down")
    /\ UNCHANGED <<handler, who, nodes, toMaster, toSlave, cut, overlap>>

-----------------------------------------------------------------------------
(* handleConnection *)

SetHandler(c, state) == handler' = [handler EXCEPT ![c] = state]

\* Mutation of ReadAuthHello: the whitelist is not consulted.
ReadAuthHelloUnchecked(c) ==
    /\ handler[c] = "hello" /\ toMaster[c] # <<>>
    /\ toMaster' = [toMaster EXCEPT ![c] = Tail(@)]
    /\ who' = [who EXCEPT ![c] = Head(toMaster[c])]
    /\ SetHandler(c, "challenged") /\ SendToSlave(c, "challenge")
    /\ UNCHANGED <<slaveVars, nodes, cut, overlap>>

ReadAuthHello(c) ==
    /\ handler[c] = "hello" /\ toMaster[c] # <<>>
    /\ toMaster' = [toMaster EXCEPT ![c] = Tail(@)]
    /\ LET s == Head(toMaster[c]) IN
       IF s \in Slaves /\ IsAllowed(s)
       THEN /\ who' = [who EXCEPT ![c] = s]
            /\ SetHandler(c, "challenged") /\ SendToSlave(c, "challenge")
       ELSE /\ UNCHANGED who
            /\ SetHandler(c, "closing") /\ SendToSlave(c, "error")
    /\ UNCHANGED <<slaveVars, nodes, cut, overlap>>

\* Mutation of ReadProof: auth.ok is not written.
ReadProofSilently(c) ==
    /\ handler[c] = "challenged" /\ toMaster[c] # <<>>
    /\ toMaster' = [toMaster EXCEPT ![c] = Tail(@)]
    /\ IF Head(toMaster[c]) = "proof" /\ who[c] \in GoodKeys
       THEN SetHandler(c, "authed") /\ UNCHANGED toSlave
       ELSE SetHandler(c, "closing") /\ SendToSlave(c, "error")
    /\ UNCHANGED <<slaveVars, who, nodes, cut, overlap>>

ReadProof(c) ==
    /\ handler[c] = "challenged" /\ toMaster[c] # <<>>
    /\ toMaster' = [toMaster EXCEPT ![c] = Tail(@)]
    /\ IF Head(toMaster[c]) = "proof" /\ who[c] \in GoodKeys
       THEN SetHandler(c, "authed") /\ SendToSlave(c, "ok")
       ELSE SetHandler(c, "closing") /\ SendToSlave(c, "error")
    /\ UNCHANGED <<slaveVars, who, nodes, cut, overlap>>

HandshakeReadError(c) ==
    /\ handler[c] \in {"hello", "challenged"}
    /\ Gone(c)
    /\ SetHandler(c, "closing")
    /\ UNCHANGED <<slaveVars, who, nodes, toMaster, toSlave, cut, overlap>>

\* Mutation of RegisterNode: the entry's key is the connection's address.
RegisterByAddress(c) ==
    /\ handler[c] = "authed"
    /\ nodes' = [x \in Slaves \cup {c} |-> IF x = c THEN c ELSE nodes[x]]
    /\ SetHandler(c, "due")
    /\ UNCHANGED <<slaveVars, who, toMaster, toSlave, cut, overlap>>

\* registerNode: the id's entry is replaced, whatever it was.
RegisterNode(c) ==
    /\ handler[c] = "authed"
    /\ nodes' = [nodes EXCEPT ![who[c]] = c]
    /\ SetHandler(c, "due")
    /\ UNCHANGED <<slaveVars, who, toMaster, toSlave, cut, overlap>>

SendHeartbeat(c) ==
    /\ handler[c] = "due"
    /\ \/ SetHandler(c, "waiting") /\ SendToSlave(c, "heartbeat")
       \/ Gone(c) /\ SetHandler(c, "leaving") /\ UNCHANGED toSlave
    /\ UNCHANGED <<slaveVars, who, nodes, toMaster, cut, overlap>>

\* readLoop resolves the reply and wakes the handler.
ReadReply(c) ==
    /\ LiveHandler(c) /\ toMaster[c] # <<>>
    /\ toMaster' = [toMaster EXCEPT ![c] = Tail(@)]
    /\ handler' = IF handler[c] = "waiting" /\ Head(toMaster[c]) = "reply"
                  THEN [handler EXCEPT ![c] = "sleeping"] ELSE handler
    /\ UNCHANGED <<slaveVars, who, nodes, toSlave, cut, overlap>>

\* Mutation of HeartbeatTimesOut: the loop goes on after the timeout.
TimeoutGoesOn(c) ==
    /\ handler[c] = "waiting"
    /\ SetHandler(c, "sleeping")
    /\ UNCHANGED <<slaveVars, who, nodes, toMaster, toSlave, cut, overlap>>

\* Mutation of HeartbeatTimesOut: the node is taken off the list and the loop
\* goes on.
TimeoutUnlists(c) ==
    /\ handler[c] = "waiting"
    /\ SetHandler(c, "sleeping")
    /\ nodes' = [nodes EXCEPT ![who[c]] = None]
    /\ UNCHANGED <<slaveVars, who, toMaster, toSlave, cut, overlap>>

HeartbeatTimesOut(c) ==
    /\ handler[c] = "waiting"
    /\ SetHandler(c, "leaving")
    /\ UNCHANGED <<slaveVars, who, nodes, toMaster, toSlave, cut, overlap>>

WakeUp(c) ==
    /\ handler[c] = "sleeping"
    /\ SetHandler(c, "due")
    /\ UNCHANGED <<slaveVars, who, nodes, toMaster, toSlave, cut, overlap>>

\* unregisterNode: the entry of the id is deleted, whatever it is.
UnregisterNode(c) ==
    /\ handler[c] = "leaving"
    /\ nodes' = [nodes EXCEPT ![who[c]] = None]
    /\ SetHandler(c, "closing")
    /\ UNCHANGED <<slaveVars, who, toMaster, toSlave, cut, overlap>>

CloseConn(c) ==
    /\ handler[c] = "closing"
    /\ SetHandler(c, "closed")
    /\ toMaster' = [toMaster EXCEPT ![c] = <<>>]
    /\ who' = [who EXCEPT ![c] = None]
    /\ UNCHANGED <<slaveVars, nodes, toSlave, cut, overlap>>

-----------------------------------------------------------------------------
(* The master's process dies and systemd starts it again. *)
MasterRestart ==
    /\ \E c \in Conns : handler[c] # "closed"
    /\ handler' = [c \in Conns |-> "closed"]
    /\ nodes' = [s \in Slaves |-> None]
    /\ toMaster' = [c \in Conns |-> <<>>]
    /\ who' = [c \in Conns |-> None]
    /\ UNCHANGED <<slaveVars, toSlave, cut, overlap>>

\* The network drops a connection; both ends learn of it late (keepalive, a
\* failing write) and each on its own.
Cut(c) ==
    /\ ~cut[c]
    /\ handler[c] # "closed" /\ ~Gone(c)
    /\ cut' = [cut EXCEPT ![c] = TRUE]
    /\ toMaster' = [toMaster EXCEPT ![c] = <<>>]
    /\ toSlave' = [toSlave EXCEPT ![c] = <<>>]
    /\ UNCHANGED <<slaveVars, handler, who, nodes, overlap>>

-----------------------------------------------------------------------------
Slave(s) ==
    \/ \E c \in Conns : Dial(s, c)
    \/ SlaveReads(s) \/ SlaveReadError(s) \/ SlaveCrash(s)

Handler(c) ==
    \/ ReadAuthHello(c) \/ ReadProof(c) \/ HandshakeReadError(c)
    \/ RegisterNode(c) \/ SendHeartbeat(c) \/ ReadReply(c) \/ HeartbeatTimesOut(c)
    \/ WakeUp(c) \/ UnregisterNode(c) \/ CloseConn(c)

Next ==
    \/ \E s \in Slaves : Slave(s)
    \/ \E c \in Conns : Handler(c) \/ Cut(c)
    \/ MasterRestart

\* Every goroutine runs on, timers fire, a closed or dropped connection is
\* noticed by its readers, and systemd restarts what has exited.  Nobody
\* crashes, or cuts a connection, by fairness.
Fairness ==
    /\ \A s \in Slaves :
        /\ WF_vars(\E c \in Conns : Dial(s, c))
        /\ WF_vars(SlaveReads(s) \/ SlaveReadError(s))
    /\ \A c \in Conns : WF_vars(Handler(c))

Spec == Init /\ [][Next]_vars /\ Fairness

-----------------------------------------------------------------------------
TypeOK ==
    /\ proc \in [Slaves -> {"down", "hello", "proof", "running", "zombie"}]
    /\ scon \in [Slaves -> Conns \cup {None}]
    /\ handler \in [Conns -> {"closed", "hello", "challenged", "authed", "due", "waiting",
                              "sleeping", "leaving", "closing"}]
    /\ who \in [Conns -> Slaves \cup {None}]
    /\ nodes \in [Slaves -> Conns \cup {None}]
    /\ toMaster \in [Conns -> Seq(Slaves \cup {"proof", "reply"})]
    /\ toSlave \in [Conns -> Seq({"challenge", "ok", "error", "heartbeat"})]
    /\ cut \in [Conns -> BOOLEAN]
    /\ overlap \in [Conns -> BOOLEAN]

(* The registry never holds a connection whose handler has ended, nor one   *)
(* of another slave, nor one of a slave that was refused: whatever ends a   *)
(* handler, its entry is gone before the connection is closed.              *)
RegistryHoldsLiveSessions ==
    \A s \in Slaves : nodes[s] # None =>
        /\ LiveHandler(nodes[s])
        /\ who[nodes[s]] = s
        /\ IsAllowed(s) /\ s \in GoodKeys

(* The handshake and the heartbeats stay in step: neither side ever reads a *)
(* packet it does not expect in its state, whatever crashes or is cut.      *)
PacketsInOrder ==
    /\ \A s \in Slaves : scon[s] # None /\ toSlave[scon[s]] # <<>> =>
          CASE proc[s] = "hello" -> Head(toSlave[scon[s]]) \in {"challenge", "error"}
            [] proc[s] = "proof" -> Head(toSlave[scon[s]]) \in {"ok", "error"}
            [] OTHER -> Head(toSlave[scon[s]]) = "heartbeat"
    /\ \A c \in Conns : toMaster[c] # <<>> =>
          CASE handler[c] = "hello" -> Head(toMaster[c]) \in Slaves
            [] handler[c] = "challenged" -> Head(toMaster[c]) = "proof"
            [] LiveHandler(c) -> Head(toMaster[c]) = "reply"
            [] OTHER -> TRUE

Serving(c) ==
    /\ handler[c] \in {"due", "waiting", "sleeping"}
    /\ proc[who[c]] = "running" /\ scon[who[c]] = c

(* A slave that serves a session is in the registry under that session, so  *)
(* that listConnectedNodeIDs lists it and sendCommandToNodeWait reaches it, *)
(* unless it dialled before the handler of its previous session had ended.  *)
ConnectedNodeIsRegistered ==
    \A c \in Conns : Serving(c) /\ ~overlap[c] => nodes[who[c]] = c

(* A handler whose peer is gone ends, and its registry entry with it.       *)
DeadSessionIsForgotten ==
    \A c \in Conns : (handler[c] # "closed" /\ Gone(c)) ~> handler[c] = "closed"

(* A slave that has lost its session gets a new process.                    *)
LostSlaveIsRestarted == \A s \in Slaves : proc[s] = "zombie" ~> proc[s] = "down"

=============================================================================
