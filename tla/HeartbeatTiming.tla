-------------------------- MODULE HeartbeatTiming --------------------------
(***************************************************************************)
(* The clock of one authenticated master-slave session: the heartbeat loop *)
(* of handleConnection (src/master/server.go), the one goroutine of the    *)
(* master that sends commands and waits for each (readOrchestratorLoop in  *)
(* src/master/orchestrator_client.go), and the slave's loop, which reads   *)
(* and handles one packet at a time (src/slave/slave.go).                  *)
(*                                                                         *)
(* A tick is one second; packets travel in less than one.  A timer that    *)
(* runs out at the moment its reply comes in may win or lose the select.   *)
(***************************************************************************)
EXTENDS Naturals, Sequences, FiniteSets

CONSTANTS
    HeartbeatTimeout,   \* sendRequest(heartbeat), 5 s
    HeartbeatInterval,  \* the sleep between heartbeats, 10 s
    CommandTimeout,     \* sendCommandToNodeWait, 10 s
    SampleTime,         \* cpu.Percent blocks handleHeartbeat this long, 3 s
    MaxCommandTime,     \* bound: the slowest command handler considered
    MaxQueue            \* bound: unread packets on the connection

ASSUME TimesAssumption ==
    /\ HeartbeatTimeout \in Nat \ {0} /\ HeartbeatInterval \in Nat \ {0}
    /\ CommandTimeout \in Nat \ {0} /\ SampleTime \in Nat \ {0}
    /\ MaxCommandTime \in Nat \ {0}
    /\ MaxQueue \in Nat

VARIABLES
    slowest,   \* the time the slowest command of this slave takes; constant
    hb,        \* the heartbeat loop: "due", "waiting", "sleeping" or "failed"
    hbLeft,    \* time left on its timer
    cmd,       \* the command goroutine: "idle" or "waiting"
    cmdLeft,   \* time left on its timer
    expired,   \* a command has been given up on
    queue,     \* packets the slave has not read: "hb", "cmd", or "late", a
               \* command whose caller has given up
    job,       \* the packet in the slave's handler, or "none"
    jobLeft    \* time left in that handler

hbVars == <<hb, hbLeft>>
cmdVars == <<cmd, cmdLeft, expired>>
slaveVars == <<queue, job, jobLeft>>
vars == <<slowest, hb, hbLeft, cmd, cmdLeft, expired, queue, job, jobLeft>>

Packets == {"hb", "cmd", "late"}

Init ==
    /\ slowest \in 1..MaxCommandTime
    /\ hb = "due" /\ hbLeft = 0
    /\ cmd = "idle" /\ cmdLeft = 0 /\ expired = FALSE
    /\ queue = <<>> /\ job = "none" /\ jobLeft = 0

-----------------------------------------------------------------------------
(* The heartbeat loop *)

\* Mutation of SendHeartbeat: the packet is written without a type.
SendUntyped ==
    /\ hb = "due"
    /\ hb' = "waiting" /\ hbLeft' = HeartbeatTimeout
    /\ queue' = Append(queue, "none")
    /\ UNCHANGED <<slowest, cmdVars, job, jobLeft>>

SendHeartbeat ==
    /\ hb = "due"
    /\ hb' = "waiting" /\ hbLeft' = HeartbeatTimeout
    /\ queue' = Append(queue, "hb")
    /\ UNCHANGED <<slowest, cmdVars, job, jobLeft>>

\* The timeout ends handleConnection, which unregisters and closes.
HeartbeatTimesOut ==
    /\ hb = "waiting" /\ hbLeft = 0
    /\ hb' = "failed"
    /\ UNCHANGED <<slowest, hbLeft, cmdVars, slaveVars>>

WakeUp ==
    /\ hb = "sleeping" /\ hbLeft = 0
    /\ hb' = "due"
    /\ UNCHANGED <<slowest, hbLeft, cmdVars, slaveVars>>

-----------------------------------------------------------------------------
(* The goroutine that forwards commands *)

\* Mutation of SendCommand: commands are written without waiting for the
\* previous one, as sendCommandToNode does.
SendWithoutWaiting ==
    /\ hb # "failed"
    /\ Len(queue) < MaxQueue
    /\ cmd' = "waiting" /\ cmdLeft' = CommandTimeout
    /\ queue' = Append(queue, "cmd")
    /\ UNCHANGED <<slowest, hbVars, expired, job, jobLeft>>

\* A command comes from the orchestrator; the goroutine reads no other one
\* until this one is answered or given up.  There is one such goroutine while
\* the master has one session: the reader of an ended session may be a second
\* one until its command is over.
SendCommand ==
    /\ hb # "failed"
    /\ cmd = "idle"
    /\ Len(queue) < MaxQueue
    /\ cmd' = "waiting" /\ cmdLeft' = CommandTimeout
    /\ queue' = Append(queue, "cmd")
    /\ UNCHANGED <<slowest, hbVars, expired, job, jobLeft>>

Abandon(p) == IF p = "cmd" THEN "late" ELSE p

CommandTimesOut ==
    /\ cmd = "waiting" /\ cmdLeft = 0
    /\ cmd' = "idle"
    /\ expired' = TRUE
    /\ queue' = [i \in 1..Len(queue) |-> Abandon(queue[i])]
    /\ job' = Abandon(job)
    /\ UNCHANGED <<slowest, hbVars, cmdLeft, jobLeft>>

-----------------------------------------------------------------------------
(* The slave *)

HandlerTimes(p) == IF p = "hb" THEN {SampleTime} ELSE 1..slowest

ReadPacket ==
    /\ job = "none"
    /\ queue # <<>>
    /\ job' = Head(queue)
    /\ queue' = Tail(queue)
    /\ jobLeft' \in HandlerTimes(Head(queue))
    /\ UNCHANGED <<slowest, hbVars, cmdVars>>

\* Mutation of Reply: the reply to a command has no reply_to.
ReplyWithoutId ==
    /\ job # "none" /\ jobLeft = 0
    /\ job' = "none"
    /\ IF job = "hb" /\ hb = "waiting"
       THEN hb' = "sleeping" /\ hbLeft' = HeartbeatInterval
       ELSE UNCHANGED hbVars
    /\ UNCHANGED <<slowest, cmdVars, queue, jobLeft>>

\* The handler writes its reply and the master's reader resolves it; a reply
\* nobody waits for is dropped.
Reply ==
    /\ job # "none" /\ jobLeft = 0
    /\ job' = "none"
    /\ IF job = "hb" /\ hb = "waiting"
       THEN hb' = "sleeping" /\ hbLeft' = HeartbeatInterval
       ELSE UNCHANGED hbVars
    /\ cmd' = IF job = "cmd" THEN "idle" ELSE cmd
    /\ UNCHANGED <<slowest, cmdLeft, expired, queue, jobLeft>>

-----------------------------------------------------------------------------
(* Time passes only when nothing else must happen first. *)

Running(timer, left) == timer => left > 0

After1(left) == IF left > 0 THEN left - 1 ELSE 0

Tick ==
    /\ hb # "due"
    /\ Running(hb \in {"waiting", "sleeping"}, hbLeft)
    /\ Running(cmd = "waiting", cmdLeft)
    /\ Running(job # "none", jobLeft)
    /\ job = "none" => queue = <<>>
    /\ hbLeft' = After1(hbLeft)
    /\ cmdLeft' = After1(cmdLeft)
    /\ jobLeft' = After1(jobLeft)
    /\ UNCHANGED <<slowest, hb, cmd, expired, queue, job>>

Next ==
    \/ SendHeartbeat \/ HeartbeatTimesOut \/ WakeUp
    \/ SendCommand \/ CommandTimesOut
    \/ ReadPacket \/ Reply
    \/ Tick

Spec == Init /\ [][Next]_vars

-----------------------------------------------------------------------------
TypeOK ==
    /\ slowest \in Nat
    /\ hb \in {"due", "waiting", "sleeping", "failed"}
    /\ hbLeft \in Nat
    /\ cmd \in {"idle", "waiting"}
    /\ cmdLeft \in Nat
    /\ expired \in BOOLEAN
    /\ queue \in Seq(Packets)
    /\ job \in Packets \cup {"none"}
    /\ jobLeft \in Nat

Copies(p) ==
    Cardinality({i \in 1..Len(queue) : queue[i] = p}) + (IF job = p THEN 1 ELSE 0)

(* Whatever the slave's pace, each caller that waits has its request at the *)
(* slave exactly once, and a request at the slave has a caller that waits   *)
(* unless it is one that was given up: sendRequest's timeouts and the       *)
(* slave's one-at-a-time loop never lose or double a request.  Commands     *)
(* come from one goroutine.                                                 *)
CallersMatchPackets ==
    /\ Copies("cmd") = IF cmd = "waiting" THEN 1 ELSE 0
    /\ hb # "failed" => Copies("hb") = IF hb = "waiting" THEN 1 ELSE 0

\* The slowest command leaves the heartbeat behind it its own time.
Fits ==
    /\ SampleTime + slowest < HeartbeatTimeout
    /\ SampleTime + slowest < CommandTimeout

(* A slave that reads its connection, answers every packet and has no       *)
(* command too slow for the timeouts keeps its session: no heartbeat of     *)
(* handleConnection times out, nor a command of sendCommandToNodeWait,      *)
(* however heartbeats and commands queue up.  Commands come from one        *)
(* goroutine, so that one is under way at a time.                           *)
HealthySlaveIsServed == Fits => hb # "failed" /\ ~expired

=============================================================================
