---------------------------- MODULE RequestTable ----------------------------
(***************************************************************************)
(* The request/reply correlation of one connection: the table `pend` from  *)
(* packet ids to reply channels, the callers of sendRequest and the one    *)
(* goroutine that reads the connection and calls resolveReply.             *)
(*                                                                         *)
(* The code exists twice: nodeConn (src/master/nodes.go, towards a slave)  *)
(* and masterConn (src/orchestrator/tcp/server.go, towards a master).      *)
(* They differ in one step: after a failed write nodeConn removes the      *)
(* caller's entry and masterConn does not (DropOnWriteError).              *)
(*                                                                         *)
(* A packet id is a fresh random 128-bit value (protocol.NewID), so a call *)
(* is identified with its id.  Reply channels have capacity one.           *)
(***************************************************************************)
EXTENDS Naturals, Sequences

CONSTANTS
    Requests,          \* the calls made on this connection
    NoId,              \* the empty reply_to, and an empty channel
    MaxReplies,        \* bound: how often the peer answers one id
    MaxInbox,          \* bound: packets in flight from the peer
    DropOnWriteError   \* TRUE for nodeConn, FALSE for masterConn

ASSUME NoIdAssumption == NoId \notin Requests
ASSUME BoundsAssumption == MaxReplies \in Nat /\ MaxInbox \in Nat
ASSUME VariantAssumption == DropOnWriteError \in BOOLEAN

VARIABLES
    pc,        \* where each call is in sendRequest
    result,    \* what sendRequest returned
    got,       \* the reply_to of the reply it returned
    pend,      \* the ids in the table
    chan,      \* the reply in each call's channel (its reply_to), or NoId
    reader,    \* the reading goroutine
    sending,   \* the call whose channel the reader is about to send to
    inbox,     \* packets from the peer, as their reply_to
    received,  \* the ids that reached the peer
    answers,   \* how often the peer answered each id
    up         \* the connection works

callVars == <<pc, result, got>>
peerVars == <<received, answers>>
vars == <<pc, result, got, pend, chan, reader, sending, inbox, received, answers, up>>

PacketIds == Requests \cup {NoId}

Init ==
    /\ pc = [r \in Requests |-> "idle"]
    /\ result = [r \in Requests |-> "none"]
    /\ got = [r \in Requests |-> NoId]
    /\ pend = {}
    /\ chan = [r \in Requests |-> NoId]
    /\ reader = "reading"
    /\ sending = NoId
    /\ inbox = <<>>
    /\ received = {}
    /\ answers = [r \in Requests |-> 0]
    /\ up = TRUE

-----------------------------------------------------------------------------
(* sendRequest *)

\* Mutation of Register: the packet never got its id, the entry has key "".
RegisterWithoutId(r) ==
    /\ pc[r] = "idle"
    /\ pc' = [pc EXCEPT ![r] = "registered"]
    /\ pend' = pend \cup {NoId}
    /\ UNCHANGED <<result, got, chan, reader, sending, inbox, peerVars, up>>

\* The channel enters the table before the packet is written.
Register(r) ==
    /\ pc[r] = "idle"
    /\ pc' = [pc EXCEPT ![r] = "registered"]
    /\ pend' = pend \cup {r}
    /\ UNCHANGED <<result, got, chan, reader, sending, inbox, peerVars, up>>

\* A write succeeds once the kernel has taken the bytes: on a dead connection
\* it may succeed and reach nobody.
WriteOk(r) ==
    /\ pc[r] = "registered"
    /\ pc' = [pc EXCEPT ![r] = "waiting"]
    /\ received' = IF up THEN received \cup {r} ELSE received
    /\ UNCHANGED <<result, got, pend, chan, reader, sending, inbox, answers, up>>

WriteError(r) ==
    /\ pc[r] = "registered"
    /\ ~up
    /\ pc' = [pc EXCEPT ![r] = "returned"]
    /\ result' = [result EXCEPT ![r] = "failed"]
    /\ pend' = IF DropOnWriteError THEN pend \ {r} ELSE pend
    /\ UNCHANGED <<got, chan, reader, sending, inbox, peerVars, up>>

\* select: the reply is there.
Receive(r) ==
    /\ pc[r] = "waiting"
    /\ chan[r] # NoId
    /\ pc' = [pc EXCEPT ![r] = "returned"]
    /\ result' = [result EXCEPT ![r] = "reply"]
    /\ got' = [got EXCEPT ![r] = chan[r]]
    /\ chan' = [chan EXCEPT ![r] = NoId]
    /\ UNCHANGED <<pend, reader, sending, inbox, peerVars, up>>

\* Mutation of Expire: the timer is ignored once the id has left the table.
ExpireIfPending(r) ==
    /\ pc[r] = "waiting"
    /\ r \in pend
    /\ pc' = [pc EXCEPT ![r] = "expired"]
    /\ UNCHANGED <<result, got, pend, chan, reader, sending, inbox, peerVars, up>>

\* Mutation of Forget: the timeout branch leaves the entry in the table.
ForgetKeepsEntry(r) ==
    /\ pc[r] = "expired"
    /\ pc' = [pc EXCEPT ![r] = "returned"]
    /\ result' = [result EXCEPT ![r] = "timeout"]
    /\ UNCHANGED <<pend, got, chan, reader, sending, inbox, peerVars, up>>

\* Mutation of Forget: the timeout branch returns (Packet{}, nil).
ForgetReturnsEmptyReply(r) ==
    /\ pc[r] = "expired"
    /\ pc' = [pc EXCEPT ![r] = "returned"]
    /\ result' = [result EXCEPT ![r] = "reply"]
    /\ pend' = pend \ {r}
    /\ UNCHANGED <<got, chan, reader, sending, inbox, peerVars, up>>

\* select: the timer fired.  It may win over a reply that is already there,
\* and the reader may still resolve the id before Forget takes the lock.
Expire(r) ==
    /\ pc[r] = "waiting"
    /\ pc' = [pc EXCEPT ![r] = "expired"]
    /\ UNCHANGED <<result, got, pend, chan, reader, sending, inbox, peerVars, up>>

Forget(r) ==
    /\ pc[r] = "expired"
    /\ pc' = [pc EXCEPT ![r] = "returned"]
    /\ result' = [result EXCEPT ![r] = "timeout"]
    /\ pend' = pend \ {r}
    /\ UNCHANGED <<got, chan, reader, sending, inbox, peerVars, up>>

-----------------------------------------------------------------------------
(* The reading goroutine: ReadPacket, then resolveReply *)

\* Mutation of Resolve: the entry stays in the table after the lookup.
ResolveKeepsEntry ==
    /\ reader = "reading"
    /\ inbox # <<>>
    /\ inbox' = Tail(inbox)
    /\ IF Head(inbox) \in pend
       THEN reader' = "sending" /\ sending' = Head(inbox)
       ELSE UNCHANGED <<reader, sending>>
    /\ UNCHANGED <<callVars, pend, chan, peerVars, up>>

\* The lookup and the removal happen under one lock.  A packet that answers
\* nothing in the table (unsolicited, repeated or late) leaves it alone.
Resolve ==
    /\ reader = "reading"
    /\ inbox # <<>>
    /\ inbox' = Tail(inbox)
    /\ IF Head(inbox) \in pend
       THEN /\ pend' = pend \ {Head(inbox)}
            /\ reader' = "sending"
            /\ sending' = Head(inbox)
       ELSE UNCHANGED <<pend, reader, sending>>
    /\ UNCHANGED <<callVars, chan, peerVars, up>>

\* ch <- reply, outside the lock; it would block on a full channel.
Deliver ==
    /\ reader = "sending"
    /\ chan[sending] = NoId
    /\ chan' = [chan EXCEPT ![sending] = sending]
    /\ reader' = "reading"
    /\ sending' = NoId
    /\ UNCHANGED <<callVars, pend, inbox, peerVars, up>>

\* A read error ends the goroutine; nobody tells the waiting callers.
StopReading ==
    /\ reader = "reading"
    /\ ~up
    /\ reader' = "stopped"
    /\ UNCHANGED <<callVars, pend, chan, sending, inbox, peerVars, up>>

-----------------------------------------------------------------------------
(* The peer and the network.  The code never counts on the peer answering   *)
(* an id once: an id may be answered up to MaxReplies times, at any later    *)
(* moment, or never, and the peer may speak unasked.                         *)

PeerAnswers(r) ==
    /\ up
    /\ r \in received
    /\ answers[r] < MaxReplies
    /\ Len(inbox) < MaxInbox
    /\ answers' = [answers EXCEPT ![r] = @ + 1]
    /\ inbox' = Append(inbox, r)
    /\ UNCHANGED <<callVars, pend, chan, reader, sending, received, up>>

PeerSpeaks ==
    /\ up
    /\ Len(inbox) < MaxInbox
    /\ inbox' = Append(inbox, NoId)
    /\ UNCHANGED <<callVars, pend, chan, reader, sending, peerVars, up>>

Break ==
    /\ up
    /\ up' = FALSE
    /\ UNCHANGED <<callVars, pend, chan, reader, sending, inbox, peerVars>>

-----------------------------------------------------------------------------
Caller(r) ==
    \/ Register(r) \/ WriteOk(r) \/ WriteError(r)
    \/ Receive(r) \/ Expire(r) \/ Forget(r)

Reader == Resolve \/ Deliver \/ StopReading

Peer == PeerSpeaks \/ (\E r \in Requests : PeerAnswers(r))

Next == (\E r \in Requests : Caller(r)) \/ Reader \/ Peer \/ Break

\* The kernel accepts or refuses a write, the timer of a select fires, and a
\* woken caller runs on.  Nothing is asked of the reader, the peer or the
\* network.
Fairness ==
    \A r \in Requests :
        /\ WF_vars(WriteOk(r) \/ WriteError(r))
        /\ WF_vars(Receive(r) \/ Expire(r))
        /\ WF_vars(Forget(r))

Spec == Init /\ [][Next]_vars /\ Fairness

-----------------------------------------------------------------------------
TypeOK ==
    /\ pc \in [Requests -> {"idle", "registered", "waiting", "expired", "returned"}]
    /\ result \in [Requests -> {"none", "reply", "timeout", "failed"}]
    /\ got \in [Requests -> PacketIds]
    /\ pend \subseteq Requests
    /\ chan \in [Requests -> PacketIds]
    /\ reader \in {"reading", "sending", "stopped"}
    /\ sending \in PacketIds
    /\ inbox \in Seq(PacketIds)
    /\ received \subseteq Requests
    /\ answers \in [Requests -> Nat]
    /\ up \in BOOLEAN

(* The reader's channel send never blocks: resolveReply took the id out of  *)
(* the table, so it sends at most once to a channel of capacity one, however *)
(* often the peer answers and whether or not the caller still waits.        *)
ReaderNeverBlocks == reader = "sending" => chan[sending] = NoId

(* Every id in the table has a caller that will remove it or be woken.  The *)
(* entry of a failed write stays behind in masterConn only, and for good.   *)
PendingHasWaiter ==
    \A r \in pend :
        \/ pc[r] \in {"registered", "waiting", "expired"}
        \/ ~DropOnWriteError /\ result[r] = "failed"

(* sendRequest always returns, even when the reading goroutine has stopped, *)
(* the peer is silent or the reply is lost.                                 *)
EveryCallReturns ==
    \A r \in Requests : pc[r] = "registered" ~> pc[r] = "returned"

-----------------------------------------------------------------------------
(* The promise made to the callers (refinement). *)

Outcome(r) ==
    IF pc[r] = "idle" THEN "idle"
    ELSE IF pc[r] = "returned" THEN result[r] ELSE "pending"

Promise == INSTANCE RequestReply WITH
    NoReply <- NoId,
    outcome <- [r \in Requests |-> Outcome(r)],
    answered <- {r \in Requests : answers[r] > 0}

(* The table, the channels and the timers implement RequestReply: a call    *)
(* ends once, and with a reply only if the peer answered that call.         *)
ImplementsPromise == Promise!Spec

=============================================================================
