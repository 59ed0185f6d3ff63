---------------------------- MODULE OrchSession ----------------------------
(***************************************************************************)
(* One authenticated session between a master and the orchestrator.        *)
(*                                                                         *)
(* On the master two goroutines share it: connectLoop sends the register   *)
(* packet and then a heartbeat at every tick, and waits for the answer of  *)
(* each; readOrchestratorLoop reads everything, hands auth.ok and error    *)
(* packets to connectLoop over an unbuffered channel, and runs commands    *)
(* one by one (src/master/orchestrator_client.go).  On the orchestrator    *)
(* handleConn reads, resolves replies to pending commands and answers      *)
(* everything else, while callers of sendCommandWait write commands and    *)
(* wait (src/orchestrator/tcp/server.go).                                  *)
(*                                                                         *)
(* auth.ok and error packets carry no reply_to; the field `to` below, what *)
(* they answer, is known to the model only.                                *)
(***************************************************************************)
EXTENDS Naturals, Sequences, FiniteSets

CONSTANTS
    Calls,        \* calls of sendCommandWait to this master
    NoCall,
    MaxTimeouts   \* bound: calls that time out while the session lives

ASSUME NoCallAssumption == NoCall \notin Calls
ASSUME TimeoutsAssumption == MaxTimeouts \in Nat

VARIABLES
    main,      \* connectLoop: "send", "await", "idle", "ended"
    reader,    \* readOrchestratorLoop: "read", "offer", "command", "ended"
    held,      \* the answer the reader offers on respCh
    serving,   \* the call whose command the reader runs
    readErr,   \* readErrCh holds the reader's error
    orch,      \* handleConn: "open" (and in masterConns) or "closed"
    call,      \* each caller: "idle", "waiting", "replied", "failed"
    pend,      \* the table of masterConn
    timeouts,  \* how many calls timed out in the live session
    toOrch,    \* packets on their way: "update", or the call they reply to
    toMaster,  \* answers [kind, to] and commands (the calls)
    broken     \* the network has dropped the connection

masterVars == <<main, reader, held, serving, readErr>>
orchVars == <<orch, call, pend, timeouts>>
vars == <<main, reader, held, serving, readErr, orch, call, pend, timeouts,
          toOrch, toMaster, broken>>

Answers == [kind : {"ok", "error"}, to : {"update", "reply"}]
Answer(kind, to) == [kind |-> kind, to |-> to]
NoAnswer == Answer("ok", "update")

\* The type of a packet tells commands from answers and replies from updates.
ASSUME PacketAssumption == Calls \cap ({"update"} \cup Answers) = {}

Init ==
    /\ main = "send"
    /\ reader = "read" /\ held = NoAnswer /\ serving = NoCall /\ readErr = FALSE
    /\ orch = "open"
    /\ call = [r \in Calls |-> "idle"]
    /\ pend = {} /\ timeouts = 0
    /\ toOrch = <<>> /\ toMaster = <<>>
    /\ broken = FALSE

MasterHears == main # "ended" /\ ~broken
OrchHears == orch = "open" /\ ~broken

WriteToOrch(p) == toOrch' = IF OrchHears THEN Append(toOrch, p) ELSE toOrch
WriteToMaster(p) == toMaster' = IF MasterHears THEN Append(toMaster, p) ELSE toMaster

-----------------------------------------------------------------------------
(* connectLoop *)

\* master.register first, master.heartbeat later.  A write to a connection
\* nobody reads may succeed or fail.
SendUpdate ==
    /\ main = "send"
    /\ \/ main' = "await" /\ WriteToOrch("update")
       \/ ~OrchHears /\ main' = "ended" /\ UNCHANGED toOrch
    /\ UNCHANGED <<reader, held, serving, readErr, orchVars, toMaster, broken>>

\* sendPacketAndExpectAuthOK takes whatever the reader offers.
TakeAnswer ==
    /\ main = "await" /\ reader = "offer"
    /\ main' = IF held.kind = "ok" THEN "idle" ELSE "ended"
    /\ reader' = "read" /\ held' = NoAnswer
    /\ UNCHANGED <<serving, readErr, orchVars, toOrch, toMaster, broken>>

TakeReadError ==
    /\ main \in {"await", "idle"} /\ readErr
    /\ main' = "ended" /\ readErr' = FALSE
    /\ UNCHANGED <<reader, held, serving, orchVars, toOrch, toMaster, broken>>

TickerFires ==
    /\ main = "idle"
    /\ main' = "send"
    /\ UNCHANGED <<reader, held, serving, readErr, orchVars, toOrch, toMaster, broken>>

-----------------------------------------------------------------------------
(* readOrchestratorLoop *)

ReadAnswer ==
    /\ reader = "read" /\ toMaster # <<>> /\ Head(toMaster) \in Answers
    /\ reader' = "offer" /\ held' = Head(toMaster)
    /\ toMaster' = Tail(toMaster)
    /\ UNCHANGED <<main, serving, readErr, orchVars, toOrch, broken>>

ReadCommand ==
    /\ reader = "read" /\ toMaster # <<>> /\ Head(toMaster) \in Calls
    /\ reader' = "command" /\ serving' = Head(toMaster)
    /\ toMaster' = Tail(toMaster)
    /\ UNCHANGED <<main, held, readErr, orchVars, toOrch, broken>>

\* Mutation of ReplyToCommand: the reply has no reply_to.
ReplyWithoutId ==
    /\ reader = "command"
    /\ WriteToOrch(NoCall)
    /\ reader' = "read" /\ serving' = NoCall
    /\ UNCHANGED <<main, held, readErr, orchVars, toMaster, broken>>

\* sendCommandToNodeWait or handleMasterCommand has come back, with a reply
\* or an error: either is written, and a failing write is ignored.
ReplyToCommand ==
    /\ reader = "command"
    /\ WriteToOrch(serving)
    /\ reader' = "read" /\ serving' = NoCall
    /\ UNCHANGED <<main, held, readErr, orchVars, toMaster, broken>>

\* Mutation of ReadError: readErrCh has no buffer, so that the goroutine ends
\* only if connectLoop is there to take the error.
ReadErrorUnbuffered ==
    /\ reader = "read"
    /\ ~MasterHears \/ (orch = "closed" /\ toMaster = <<>>)
    /\ main \in {"await", "idle"}
    /\ reader' = "ended" /\ main' = "ended"
    /\ UNCHANGED <<held, serving, readErr, orchVars, toOrch, toMaster, broken>>

ReadError ==
    /\ reader = "read"
    /\ ~MasterHears \/ (orch = "closed" /\ toMaster = <<>>)
    /\ reader' = "ended" /\ readErr' = TRUE
    /\ UNCHANGED <<main, held, serving, orchVars, toOrch, toMaster, broken>>

-----------------------------------------------------------------------------
(* handleConn and the callers of sendCommandWait *)

\* Mutation of OrchResolves: the caller is woken, and then the reply goes on
\* to the type switch.
ResolvesAndAnswers ==
    /\ orch = "open" /\ toOrch # <<>> /\ Head(toOrch) \in pend
    /\ pend' = pend \ {Head(toOrch)}
    /\ call' = [call EXCEPT ![Head(toOrch)] = "replied"]
    /\ WriteToMaster(Answer("error", "reply"))
    /\ toOrch' = Tail(toOrch)
    /\ UNCHANGED <<masterVars, orch, timeouts, broken>>

\* resolveReply: the caller is woken and nothing is answered.
OrchResolves ==
    /\ orch = "open" /\ toOrch # <<>> /\ Head(toOrch) \in pend
    /\ pend' = pend \ {Head(toOrch)}
    /\ call' = [call EXCEPT ![Head(toOrch)] = "replied"]
    /\ toOrch' = Tail(toOrch)
    /\ UNCHANGED <<masterVars, orch, timeouts, toMaster, broken>>

\* Mutation of OrchAnswersUpdate: a rejected update is only logged.
RejectSilently ==
    /\ orch = "open" /\ toOrch # <<>> /\ Head(toOrch) = "update"
    /\ \/ WriteToMaster(Answer("ok", "update"))
       \/ UNCHANGED toMaster
    /\ toOrch' = Tail(toOrch)
    /\ UNCHANGED <<masterVars, orchVars, broken>>

\* Mutation of OrchAnswersUpdate: an update is acknowledged twice, on receipt
\* and after UpsertMaster.
AnswerTwice ==
    /\ orch = "open" /\ toOrch # <<>> /\ Head(toOrch) = "update"
    /\ toMaster' = IF MasterHears
                   THEN toMaster \o <<Answer("ok", "update"), Answer("ok", "update")>>
                   ELSE toMaster
    /\ toOrch' = Tail(toOrch)
    /\ UNCHANGED <<masterVars, orchVars, broken>>

\* master.register or master.heartbeat: auth.ok, or an error when the packet
\* or UpsertMaster refuses it.
OrchAnswersUpdate ==
    /\ orch = "open" /\ toOrch # <<>> /\ Head(toOrch) = "update"
    /\ \E kind \in {"ok", "error"} : WriteToMaster(Answer(kind, "update"))
    /\ toOrch' = Tail(toOrch)
    /\ UNCHANGED <<masterVars, orchVars, broken>>

\* A reply whose caller has given up falls through to the type switch, where
\* it is an unknown message type.
OrchAnswersLateReply ==
    /\ orch = "open" /\ toOrch # <<>> /\ Head(toOrch) \in Calls \ pend
    /\ WriteToMaster(Answer("error", "reply"))
    /\ toOrch' = Tail(toOrch)
    /\ UNCHANGED <<masterVars, orchVars, broken>>

\* Mutation of OrchReadError: only the network's errors are noticed.
OrchReadErrorBroken ==
    /\ orch = "open" /\ broken
    /\ orch' = "closed"
    /\ UNCHANGED <<masterVars, call, pend, timeouts, toOrch, toMaster, broken>>

\* The deferred calls unregister the master and close the connection.
OrchReadError ==
    /\ orch = "open"
    /\ broken \/ (main = "ended" /\ toOrch = <<>>)
    /\ orch' = "closed"
    /\ UNCHANGED <<masterVars, call, pend, timeouts, toOrch, toMaster, broken>>

\* sendRequest; that its write fails is RequestTable's.
SendCommand(r) ==
    /\ orch = "open" /\ call[r] = "idle"
    /\ call' = [call EXCEPT ![r] = "waiting"]
    /\ pend' = pend \cup {r}
    /\ WriteToMaster(r)
    /\ UNCHANGED <<masterVars, orch, timeouts, toOrch, broken>>

\* In a live session at most MaxTimeouts calls are slower than their timer.
CallTimesOut(r) ==
    /\ call[r] = "waiting"
    /\ \/ orch = "open" /\ timeouts < MaxTimeouts /\ timeouts' = timeouts + 1
       \/ orch = "closed" /\ UNCHANGED timeouts
    /\ call' = [call EXCEPT ![r] = "failed"]
    /\ pend' = pend \ {r}
    /\ UNCHANGED <<masterVars, orch, toOrch, toMaster, broken>>

-----------------------------------------------------------------------------
Break ==
    /\ ~broken
    /\ broken' = TRUE
    /\ toOrch' = <<>> /\ toMaster' = <<>>
    /\ UNCHANGED <<masterVars, orchVars>>

Main == SendUpdate \/ TakeAnswer \/ TakeReadError \/ TickerFires
Reader == ReadAnswer \/ ReadCommand \/ ReplyToCommand \/ ReadError
Orch == OrchResolves \/ OrchAnswersUpdate \/ OrchAnswersLateReply \/ OrchReadError
Caller(r) == SendCommand(r) \/ CallTimesOut(r)

Next == Main \/ Reader \/ Orch \/ (\E r \in Calls : Caller(r)) \/ Break

\* The goroutines run on: a command returns (sendRequest does, RequestTable),
\* a closed or dropped connection is noticed, the ticker fires.
Fairness == WF_vars(Main) /\ WF_vars(Reader) /\ WF_vars(Orch)

Spec == Init /\ [][Next]_vars /\ Fairness

-----------------------------------------------------------------------------
TypeOK ==
    /\ main \in {"send", "await", "idle", "ended"}
    /\ reader \in {"read", "offer", "command", "ended"}
    /\ held \in Answers
    /\ serving \in Calls \cup {NoCall}
    /\ readErr \in BOOLEAN
    /\ orch \in {"open", "closed"}
    /\ call \in [Calls -> {"idle", "waiting", "replied", "failed"}]
    /\ pend \subseteq Calls
    /\ timeouts \in 0..MaxTimeouts
    /\ toOrch \in Seq(Calls \cup {"update"})
    /\ toMaster \in Seq(Calls \cup Answers)
    /\ broken \in BOOLEAN

UpdatesInFlight == Cardinality({i \in 1..Len(toOrch) : toOrch[i] = "update"})
AnswersInFlight ==
    Cardinality({i \in 1..Len(toMaster) : toMaster[i] \in Answers})
        + (IF reader = "offer" THEN 1 ELSE 0)

(* While the session lives and no caller has given up, connectLoop has at   *)
(* most one packet unanswered, and no answer is under way that it does not  *)
(* wait for: the reader is never left blocked on respCh.                    *)
AnswersInStep ==
    main # "ended" /\ timeouts = 0 =>
        UpdatesInFlight + AnswersInFlight <= IF main = "await" THEN 1 ELSE 0

(* connectLoop gives up a session whose connection holds only for an error  *)
(* packet, and that packet refuses its update, unless a caller has given up *)
(* before: no order in which the two goroutines, handleConn and the callers *)
(* run makes one end look to the other as if it had gone.                   *)
SessionEndsForCause ==
    [][main # "ended" /\ main' = "ended" /\ ~broken =>
        /\ reader = "offer" /\ held.kind = "error"
        /\ held.to = "update" \/ timeouts > 0]_vars

(* The reader goroutine ends with its session, unless a caller gave up      *)
(* before and the error for the late reply finds connectLoop gone.          *)
ReaderEndsWithSession ==
    main = "ended" /\ timeouts = 0 ~> reader = "ended" \/ timeouts > 0

(* connectLoop, which has no timeout of its own, is never left waiting: its *)
(* packet is answered or the session ends, whatever the reader is busy with *)
(* and whoever has given up a command.                                      *)
UpdateIsAnswered == main = "await" ~> main # "await"

(* A session that ends on the master ends on the orchestrator, which then   *)
(* forgets the connection.                                                  *)
OrchForgetsSession == main = "ended" ~> orch = "closed"

(* What connectLoop takes for the answer to its heartbeat is the answer to  *)
(* its heartbeat.                                                           *)
AnswerIsItsOwn == main = "await" /\ reader = "offer" => held.to = "update"

=============================================================================
