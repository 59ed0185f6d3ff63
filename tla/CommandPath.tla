---------------------------- MODULE CommandPath ----------------------------
(***************************************************************************)
(* The way of a command from a page of the web server to a slave and of    *)
(* its reply back, over sessions that come and go: sendCommandWait on the  *)
(* orchestrator (src/orchestrator/tcp/server.go), readOrchestratorLoop on  *)
(* the master (src/master/orchestrator_client.go), sendCommandToNodeWait   *)
(* and readLoop (src/master/nodes.go), the loop of slave.Connect           *)
(* (src/slave/slave.go).                                                   *)
(*                                                                         *)
(* Each link is a row of sessions, numbered in the order in which they     *)
(* begin; how one begins is MasterSessions' and NodeSession's.  A session  *)
(* that is dropped carries nothing any more, but what has arrived at an    *)
(* end may still be read there: a reader of the master may still run       *)
(* commands of its old session while the next session has its own reader.  *)
(***************************************************************************)
EXTENDS Naturals, Sequences

CONSTANTS
    Commands,   \* the requests of the pages, each with its own packet ids
    None,
    MaxUpper,   \* bound: sessions of the master with the orchestrator
    MaxLower    \* bound: sessions of the slave with the master

ASSUME NoneAssumption == None \notin Commands
ASSUME BoundsAssumption == MaxUpper \in Nat /\ MaxLower \in Nat

Upper == 1..MaxUpper
Lower == 1..MaxLower

VARIABLES
    page,      \* each request: "idle", "routed" (it has looked up the
               \* master's connection), "waiting", "replied", "refused",
               \* "unknown"
    via,       \* the upper session it has found, 0 before
    upper,     \* the master's latest session, 0 before the first
    live,      \* the upper sessions that carry packets
    heard,     \* the upper sessions whose handleConn still reads
    conn,      \* the master's entry of masterConns, or 0
    toMaster,  \* commands on their way
    toOrch,    \* replies [cmd, how] on their way
    reader,    \* readOrchestratorLoop of each session: "ended", "read",
               \* "found" (it has looked up the slave's connection), "wait"
    serving,   \* the command it runs
    on,        \* the lower session it has found for it
    lower,     \* the slave's latest session
    alive,     \* the lower sessions that carry packets
    listening, \* the lower sessions whose readLoop and handler still run
    node,      \* the slave's entry of the registry nodes, or 0
    toSlave,
    toNode,
    slave,     \* the session the slave's process reads, or 0
    job,       \* the command in its handler
    sent,      \* the commands that were written, in that order; with done,
    done       \* those the slave has run: for the properties only

pageVars == <<page, via, sent>>
upperVars == <<upper, live, heard, conn>>
readerVars == <<reader, serving, on>>
lowerVars == <<lower, alive, listening, node>>
slaveVars == <<slave, job, done>>
vars == <<page, via, sent, upper, live, heard, conn, toMaster, toOrch, reader, serving, on,
          lower, alive, listening, node, toSlave, toNode, slave, job, done>>

Init ==
    /\ page = [r \in Commands |-> "idle"] /\ via = [r \in Commands |-> 0] /\ sent = <<>>
    /\ upper = 0 /\ live = {} /\ heard = {} /\ conn = 0
    /\ toMaster = [c \in Upper |-> <<>>] /\ toOrch = [c \in Upper |-> <<>>]
    /\ reader = [c \in Upper |-> "ended"]
    /\ serving = [c \in Upper |-> None] /\ on = [c \in Upper |-> 0]
    /\ lower = 0 /\ alive = {} /\ listening = {} /\ node = 0
    /\ toSlave = [d \in Lower |-> <<>>] /\ toNode = [d \in Lower |-> <<>>]
    /\ slave = 0 /\ job = None /\ done = <<>>

-----------------------------------------------------------------------------
(* sendCommandWait *)

SetPage(r, state) == page' = [page EXCEPT ![r] = state]

\* "master not connected"
PageRoutes(r) ==
    /\ page[r] = "idle"
    /\ IF conn = 0 THEN SetPage(r, "refused") ELSE SetPage(r, "routed")
    /\ via' = [via EXCEPT ![r] = conn]
    /\ UNCHANGED <<sent, upperVars, toMaster, toOrch, readerVars, lowerVars, toSlave, toNode,
                   slaveVars>>

\* A write to a session that was dropped is lost or fails.
PageWrites(r) ==
    /\ page[r] = "routed"
    /\ IF via[r] \in live
       THEN /\ SetPage(r, "waiting")
            /\ toMaster' = [toMaster EXCEPT ![via[r]] = Append(@, r)]
            /\ sent' = Append(sent, r)
       ELSE /\ SetPage(r, "waiting") \/ SetPage(r, "refused")
            /\ UNCHANGED <<toMaster, sent>>
    /\ UNCHANGED <<via, upperVars, toOrch, readerVars, lowerVars, toSlave, toNode, slaveVars>>

PageTimesOut(r) ==
    /\ page[r] = "waiting"
    /\ SetPage(r, "unknown")
    /\ UNCHANGED <<via, sent, upperVars, toMaster, toOrch, readerVars, lowerVars, toSlave,
                   toNode, slaveVars>>

\* handleConn and resolveReply; a late reply is answered with an error, which
\* may end the session (OrchSession, DropUpper).
OrchReads(c) ==
    /\ c \in heard /\ toOrch[c] # <<>>
    /\ toOrch' = [toOrch EXCEPT ![c] = Tail(@)]
    /\ LET r == Head(toOrch[c]).cmd IN
       IF page[r] = "waiting" /\ via[r] = c THEN SetPage(r, Head(toOrch[c]).how)
       ELSE UNCHANGED page
    /\ UNCHANGED <<via, sent, upperVars, toMaster, readerVars, lowerVars, toSlave, toNode,
                   slaveVars>>

-----------------------------------------------------------------------------
(* readOrchestratorLoop, sendCommandToNodeWait *)

SetReader(c, state, r, d) ==
    /\ reader' = [reader EXCEPT ![c] = state]
    /\ serving' = [serving EXCEPT ![c] = r]
    /\ on' = [on EXCEPT ![c] = d]

\* Mutation of Return: the reply does not say which command it answers.
ReturnUnnamed(c, r, how) ==
    /\ toOrch' = IF c \in live THEN [toOrch EXCEPT ![c] = Append(@, [cmd |-> None, how |-> how])]
                 ELSE toOrch
    /\ SetReader(c, "read", None, 0)

\* A failing write of the reply is ignored.
Return(c, r, how) ==
    /\ toOrch' = IF c \in live THEN [toOrch EXCEPT ![c] = Append(@, [cmd |-> r, how |-> how])]
                 ELSE toOrch
    /\ SetReader(c, "read", None, 0)

\* Mutation of ReadCommand: each command is run in a goroutine of its own, so
\* that a later one may be taken first.
ReadAnyCommand(c) ==
    /\ reader[c] = "read" /\ node # 0
    /\ \E i \in 1..Len(toMaster[c]) :
        /\ SetReader(c, "found", toMaster[c][i], node)
        /\ toMaster' = [toMaster EXCEPT ![c] =
                          SubSeq(@, 1, i - 1) \o SubSeq(@, i + 1, Len(@))]
    /\ UNCHANGED <<pageVars, upperVars, toOrch, lowerVars, toSlave, toNode, slaveVars>>

\* "node not connected"
ReadCommand(c) ==
    /\ reader[c] = "read" /\ toMaster[c] # <<>>
    /\ toMaster' = [toMaster EXCEPT ![c] = Tail(@)]
    /\ IF node = 0
       THEN Return(c, Head(toMaster[c]), "refused")
       ELSE SetReader(c, "found", Head(toMaster[c]), node) /\ UNCHANGED toOrch
    /\ UNCHANGED <<pageVars, upperVars, lowerVars, toSlave, toNode, slaveVars>>

WriteCommand(c) ==
    /\ reader[c] = "found"
    /\ \/ /\ toSlave' = IF on[c] \in alive THEN [toSlave EXCEPT ![on[c]] = Append(@, serving[c])]
                        ELSE toSlave
          /\ SetReader(c, "wait", serving[c], on[c])
          /\ UNCHANGED toOrch
       \/ /\ on[c] \notin alive
          /\ Return(c, serving[c], "refused")
          /\ UNCHANGED toSlave
    /\ UNCHANGED <<pageVars, upperVars, toMaster, lowerVars, toNode, slaveVars>>

\* Mutation of NodeTimesOut: the command is sent once more.
RetryCommand(c) ==
    /\ reader[c] = "wait"
    /\ SetReader(c, "found", serving[c], on[c])
    /\ UNCHANGED <<pageVars, upperVars, toMaster, toOrch, lowerVars, toSlave, toNode, slaveVars>>

\* The ten seconds of sendCommandToNodeWait are over.
NodeTimesOut(c) ==
    /\ reader[c] = "wait"
    /\ Return(c, serving[c], "unknown")
    /\ UNCHANGED <<pageVars, upperVars, toMaster, lowerVars, toSlave, toNode, slaveVars>>

\* readLoop and resolveReply; the reader passes the reply on.
NodeReplies(d) ==
    /\ d \in listening /\ toNode[d] # <<>>
    /\ toNode' = [toNode EXCEPT ![d] = Tail(@)]
    /\ LET waits(c) == reader[c] = "wait" /\ serving[c] = Head(toNode[d]) /\ on[c] = d IN
       \/ \E c \in Upper : waits(c) /\ Return(c, serving[c], "replied")
       \/ (\A c \in Upper : ~waits(c)) /\ UNCHANGED <<toOrch, readerVars>>
    /\ UNCHANGED <<pageVars, upperVars, toMaster, lowerVars, toSlave, slaveVars>>

\* A read error; what was not read is lost.
ReaderEnds(c) ==
    /\ reader[c] = "read" /\ c \notin live
    /\ SetReader(c, "ended", None, 0)
    /\ toMaster' = [toMaster EXCEPT ![c] = <<>>]
    /\ UNCHANGED <<pageVars, upperVars, toOrch, lowerVars, toSlave, toNode, slaveVars>>

-----------------------------------------------------------------------------
(* slave.Connect *)

SlaveRuns ==
    /\ slave # 0 /\ job = None /\ toSlave[slave] # <<>>
    /\ job' = Head(toSlave[slave])
    /\ done' = Append(done, job')
    /\ toSlave' = [toSlave EXCEPT ![slave] = Tail(@)]
    /\ UNCHANGED <<pageVars, upperVars, toMaster, toOrch, readerVars, lowerVars, toNode, slave>>

SlaveReplies ==
    /\ job # None
    /\ toNode' = IF slave \in alive THEN [toNode EXCEPT ![slave] = Append(@, job)] ELSE toNode
    /\ job' = None
    /\ UNCHANGED <<pageVars, upperVars, toMaster, toOrch, readerVars, lowerVars, toSlave, slave,
                   done>>

\* The process dies, or Connect returns and systemd restarts it some day.
SlaveStops ==
    /\ slave # 0
    /\ alive' = alive \ {slave}
    /\ toSlave' = [toSlave EXCEPT ![slave] = <<>>]
    /\ slave' = 0 /\ job' = None
    /\ UNCHANGED <<pageVars, upperVars, toMaster, toOrch, readerVars, lower, listening, node,
                   toNode, done>>

-----------------------------------------------------------------------------
(* Sessions *)

\* registerMasterConn; the master has noticed the end of its last session.
UpperBegins ==
    /\ upper < MaxUpper /\ upper \notin live
    /\ upper' = upper + 1
    /\ live' = live \cup {upper + 1} /\ heard' = heard \cup {upper + 1}
    /\ conn' = upper + 1
    /\ reader' = [reader EXCEPT ![upper + 1] = "read"]
    /\ UNCHANGED <<pageVars, toMaster, toOrch, serving, on, lowerVars, toSlave, toNode, slaveVars>>

\* Either end closes it or the network drops it.
DropUpper(c) ==
    /\ c \in live
    /\ live' = live \ {c}
    /\ UNCHANGED <<pageVars, upper, heard, conn, toMaster, toOrch, readerVars, lowerVars,
                   toSlave, toNode, slaveVars>>

\* handleConn notices and unregisters the master, whatever its entry is.
UpperEnds(c) ==
    /\ c \in heard \ live
    /\ heard' = heard \ {c} /\ conn' = 0
    /\ toOrch' = [toOrch EXCEPT ![c] = <<>>]
    /\ UNCHANGED <<pageVars, upper, live, toMaster, readerVars, lowerVars, toSlave, toNode,
                   slaveVars>>

\* A new process of the slave; registerNode.
LowerBegins ==
    /\ slave = 0 /\ lower < MaxLower
    /\ lower' = lower + 1 /\ slave' = lower + 1
    /\ alive' = alive \cup {lower + 1} /\ listening' = listening \cup {lower + 1}
    /\ node' = lower + 1
    /\ UNCHANGED <<pageVars, upperVars, toMaster, toOrch, readerVars, toSlave, toNode, job, done>>

DropLower(d) ==
    /\ d \in alive
    /\ alive' = alive \ {d}
    /\ UNCHANGED <<pageVars, upperVars, toMaster, toOrch, readerVars, lower, listening, node,
                   toSlave, toNode, slaveVars>>

\* handleConnection notices and unregisters the slave, whatever its entry is.
LowerEnds(d) ==
    /\ d \in listening \ alive
    /\ listening' = listening \ {d} /\ node' = 0
    /\ toNode' = [toNode EXCEPT ![d] = <<>>]
    /\ UNCHANGED <<pageVars, upperVars, toMaster, toOrch, readerVars, lower, alive, toSlave,
                   slaveVars>>

\* systemd restarts the master's process, or the orchestrator's.
MasterRestarts ==
    /\ live \cup alive # {}
    /\ live' = {} /\ alive' = {} /\ listening' = {} /\ node' = 0
    /\ toMaster' = [c \in Upper |-> <<>>] /\ toNode' = [d \in Lower |-> <<>>]
    /\ reader' = [c \in Upper |-> "ended"]
    /\ serving' = [c \in Upper |-> None] /\ on' = [c \in Upper |-> 0]
    /\ UNCHANGED <<pageVars, upper, heard, conn, toOrch, lower, toSlave, slaveVars>>

OrchRestarts ==
    /\ heard # {}
    /\ live' = {} /\ heard' = {} /\ conn' = 0
    /\ toOrch' = [c \in Upper |-> <<>>]
    /\ page' = [r \in Commands |-> IF page[r] \in {"routed", "waiting"} THEN "unknown" ELSE page[r]]
    /\ UNCHANGED <<via, sent, upper, toMaster, readerVars, lowerVars, toSlave, toNode, slaveVars>>

Page(r) == PageRoutes(r) \/ PageWrites(r) \/ PageTimesOut(r)
Reader(c) ==
    ReadCommand(c) \/ WriteCommand(c) \/ NodeTimesOut(c) \/ ReaderEnds(c)
Slave == SlaveRuns \/ SlaveReplies \/ SlaveStops

Next ==
    \/ \E r \in Commands : Page(r)
    \/ \E c \in Upper : OrchReads(c) \/ Reader(c) \/ DropUpper(c) \/ UpperEnds(c)
    \/ \E d \in Lower : NodeReplies(d) \/ DropLower(d) \/ LowerEnds(d)
    \/ Slave \/ UpperBegins \/ LowerBegins \/ MasterRestarts \/ OrchRestarts

Spec == Init /\ [][Next]_vars

-----------------------------------------------------------------------------
Replies == [cmd : Commands, how : {"replied", "refused", "unknown"}]

TypeOK ==
    /\ page \in [Commands -> {"idle", "routed", "waiting", "replied", "refused", "unknown"}]
    /\ via \in [Commands -> 0..MaxUpper]
    /\ sent \in Seq(Commands) /\ done \in Seq(Commands)
    /\ upper \in 0..MaxUpper /\ conn \in 0..MaxUpper
    /\ live \subseteq Upper /\ heard \subseteq Upper
    /\ toMaster \in [Upper -> Seq(Commands)] /\ toOrch \in [Upper -> Seq(Replies)]
    /\ reader \in [Upper -> {"ended", "read", "found", "wait"}]
    /\ serving \in [Upper -> Commands \cup {None}] /\ on \in [Upper -> 0..MaxLower]
    /\ lower \in 0..MaxLower /\ node \in 0..MaxLower /\ slave \in 0..MaxLower
    /\ alive \subseteq Lower /\ listening \subseteq Lower
    /\ toSlave \in [Lower -> Seq(Commands)] /\ toNode \in [Lower -> Seq(Commands)]
    /\ job \in Commands \cup {None}

Before(s, a, b) == \E i, j \in 1..Len(s) : i < j /\ s[i] = a /\ s[j] = b

(* The slave runs the commands of one session of the master in the order in *)
(* which the pages wrote them, even those that were given up on the way, so *)
(* that a retry never takes effect before what it retries.                  *)
SessionOrder ==
    \A a, b \in Commands :
        Before(sent, a, b) /\ via[a] = via[b] => ~Before(done, b, a)

Pending(state) == IF state \in {"routed", "waiting"} THEN "pending" ELSE state

Promise == INSTANCE CommandPromise WITH
    outcome <- [r \in Commands |-> Pending(page[r])],
    effects <- done

(* Over two links, with both timeouts, every crash and any number of        *)
(* sessions: a command runs at most once, a page that has the slave's reply *)
(* can rely on it, and one that was refused can rely on that for good.      *)
KeepsPromise == Promise!Spec

=============================================================================
