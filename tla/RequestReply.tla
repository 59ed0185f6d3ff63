---------------------------- MODULE RequestReply ----------------------------
(***************************************************************************)
(* What sendRequest promises to its callers, on either link of the system  *)
(* (master -> slave in src/master/nodes.go, orchestrator -> master in      *)
(* src/orchestrator/tcp/server.go): a call ends once, and with a reply     *)
(* only if the peer answered that very call.  No connection, table or      *)
(* channel appears here; RequestTable is shown to implement this module.   *)
(***************************************************************************)

CONSTANTS
    Requests,   \* the calls of sendRequest, each with its own packet id
    NoReply     \* no reply was returned to the caller

VARIABLES
    outcome,    \* how each call ended, "idle" before it starts
    got,        \* the id the reply returned to each call is a reply to
    answered    \* the calls the peer has answered

vars == <<outcome, got, answered>>

Init ==
    /\ outcome = [r \in Requests |-> "idle"]
    /\ got = [r \in Requests |-> NoReply]
    /\ answered = {}

Call(r) ==
    /\ outcome[r] = "idle"
    /\ outcome' = [outcome EXCEPT ![r] = "pending"]
    /\ UNCHANGED <<got, answered>>

Answer(r) ==
    /\ outcome[r] # "idle"
    /\ answered' = answered \cup {r}
    /\ UNCHANGED <<outcome, got>>

ReturnReply(r) ==
    /\ outcome[r] = "pending"
    /\ r \in answered
    /\ outcome' = [outcome EXCEPT ![r] = "reply"]
    /\ got' = [got EXCEPT ![r] = r]
    /\ UNCHANGED answered

ReturnError(r) ==
    /\ outcome[r] = "pending"
    /\ \E how \in {"timeout", "failed"} : outcome' = [outcome EXCEPT ![r] = how]
    /\ UNCHANGED <<got, answered>>

Next == \E r \in Requests : Call(r) \/ Answer(r) \/ ReturnReply(r) \/ ReturnError(r)

Spec == Init /\ [][Next]_vars

=============================================================================
