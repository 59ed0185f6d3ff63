--------------------------- MODULE CommandPromise ---------------------------
(***************************************************************************)
(* What a page that sends a command to a slave may rely on, whatever       *)
(* happens to the sessions, processes and timers between them: the command *)
(* takes effect at most once; a page that gets the slave's reply knows     *)
(* that it did; a page that is refused knows that it did not and never     *)
(* will; a page that gives up knows nothing.  CommandPath is shown to      *)
(* implement this module.                                                  *)
(***************************************************************************)
EXTENDS Sequences

CONSTANTS Commands

VARIABLES
    outcome,   \* of each command: "idle", "pending", "replied", "refused"
               \* or "unknown"
    effects    \* the commands that have taken effect, in that order

vars == <<outcome, effects>>

Effective(r) == \E i \in DOMAIN effects : effects[i] = r

Init ==
    /\ outcome = [r \in Commands |-> "idle"]
    /\ effects = <<>>

Submit(r) ==
    /\ outcome[r] = "idle"
    /\ outcome' = [outcome EXCEPT ![r] = "pending"]
    /\ UNCHANGED effects

\* Even after the page has given up.
TakeEffect(r) ==
    /\ outcome[r] \in {"pending", "unknown"}
    /\ ~Effective(r)
    /\ effects' = Append(effects, r)
    /\ UNCHANGED outcome

Reply(r) ==
    /\ outcome[r] = "pending" /\ Effective(r)
    /\ outcome' = [outcome EXCEPT ![r] = "replied"]
    /\ UNCHANGED effects

\* At once, or after the command has travelled some of its way.
Refuse(r) ==
    /\ outcome[r] \in {"idle", "pending"} /\ ~Effective(r)
    /\ outcome' = [outcome EXCEPT ![r] = "refused"]
    /\ UNCHANGED effects

\* One page, or all of them when the web server's process dies.
GiveUp(pages) ==
    /\ \A r \in pages : outcome[r] = "pending"
    /\ outcome' = [r \in Commands |-> IF r \in pages THEN "unknown" ELSE outcome[r]]
    /\ UNCHANGED effects

Next ==
    \/ \E r \in Commands : Submit(r) \/ TakeEffect(r) \/ Reply(r) \/ Refuse(r)
    \/ \E pages \in SUBSET Commands : GiveUp(pages)

Spec == Init /\ [][Next]_vars

=============================================================================
