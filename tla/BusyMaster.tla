----------------------------- MODULE BusyMaster -----------------------------
(***************************************************************************)
(* The clock of one session of a master with the orchestrator.  The one    *)
(* goroutine that reads the session, readOrchestratorLoop, also runs every *)
(* command in it: a command for a slave waits for that slave, the list of  *)
(* all machines (handleMasterCommand) for one slave after the other        *)
(* (src/master/orchestrator_client.go).  Behind it wait the commands of    *)
(* other pages, whose timers run (src/orchestrator/web/main.go,            *)
(* sendRequest in src/orchestrator/tcp/server.go), and the answer to the   *)
(* master's own heartbeat, without which connectLoop sends no other one    *)
(* and the store's entry grows old (src/orchestrator/registry).            *)
(*                                                                         *)
(* Packets and handlers take no time against the timers of seconds.  A     *)
(* timer that runs out at the moment its reply comes in may win or lose    *)
(* the select.                                                             *)
(***************************************************************************)
EXTENDS Naturals, Sequences, FiniteSets

CONSTANTS
    Pages,         \* browser windows; each has one request under way at most
    Visits,        \* the slaves the command of each page goes to
    Load,          \* the slaves the commands of a set of pages go to, in all
    PageTimeout,   \* how long each page waits
    VisitTimeout,  \* sendCommandToNodeWait, 10 s
    Interval,      \* the ticker of connectLoop, 10 s
    Ttl,           \* statettlseconds, 60 s unless configured
    MaxOpen,       \* bound: pages in use at a time
    MaxQueue       \* bound: packets the master has not read

ASSUME TimesAssumption ==
    /\ Visits \in [Pages -> Nat \ {0}] /\ PageTimeout \in [Pages -> Nat \ {0}]
    /\ VisitTimeout \in Nat \ {0} /\ Interval \in Nat \ {0}
    /\ Ttl \in Nat \ {0} /\ MaxOpen \in Nat /\ MaxQueue \in Nat

\* Load sums up Visits.
ASSUME LoadAssumption ==
    /\ Load \in [SUBSET Pages -> Nat]
    /\ \A p \in Pages : Load[{p}] = Visits[p]
    /\ \A s, t \in SUBSET Pages : s \cap t = {} => Load[s \cup t] = Load[s] + Load[t]

VARIABLES
    slowest,  \* the longest a slave takes for its part; constant, like
    opened,   \* the pages that are in use
    page,     \* each page: "idle" or "waiting"
    left,     \* time left on its timer
    gaveUp,   \* some page's timer has run out
    queue,    \* packets the master has not read: commands [page, wanted],
              \* wanted until the page gives up, and answers
    job,      \* what the reader has read, or Nothing
    visits,   \* the slaves it has still to ask for this command
    visit,    \* time left until the slave it asks now answers
    loop,     \* connectLoop: "idle", "await" or "ended"
    ticker,   \* time left until its ticker fires
    tick,     \* the tick in the ticker's channel
    age       \* of the store's entry, up to Ttl + 1

pageVars == <<page, left, gaveUp>>
readerVars == <<job, visits, visit>>
loopVars == <<loop, ticker, tick, age>>
clockVars ==
    <<slowest, opened, page, left, gaveUp, queue, job, visits, visit, loop, ticker, tick, age>>

Command(p, wanted) == [kind |-> "command", page |-> p, wanted |-> wanted]
Result(kind) == [kind |-> kind]
Nothing == Result("nothing")
Commands == {Command(p, w) : p \in Pages, w \in BOOLEAN}
Results == {Result("ok"), Result("error")}

ClockInit ==
    /\ slowest \in 0..VisitTimeout
    /\ opened \in {s \in SUBSET Pages : Cardinality(s) <= MaxOpen}
    /\ page = [p \in Pages |-> "idle"] /\ left = [p \in Pages |-> 0] /\ gaveUp = FALSE
    /\ queue = <<>>
    /\ job = Nothing /\ visits = 0 /\ visit = 0
    /\ loop = "idle" /\ ticker = Interval /\ tick = FALSE /\ age = 0

-----------------------------------------------------------------------------
(* The pages: sendRequest *)

Submit(p) ==
    /\ p \in opened /\ page[p] = "idle" /\ loop # "ended" /\ Len(queue) < MaxQueue
    /\ page' = [page EXCEPT ![p] = "waiting"]
    /\ left' = [left EXCEPT ![p] = PageTimeout[p]]
    /\ queue' = Append(queue, Command(p, TRUE))
    /\ UNCHANGED <<slowest, opened, gaveUp, readerVars, loopVars>>

Abandon(x, p) == IF x = Command(p, TRUE) THEN Command(p, FALSE) ELSE x

\* The command stays where it is and is run all the same.
PageTimesOut(p) ==
    /\ page[p] = "waiting" /\ left[p] = 0
    /\ page' = [page EXCEPT ![p] = "idle"]
    /\ gaveUp' = TRUE
    /\ queue' = [i \in 1..Len(queue) |-> Abandon(queue[i], p)]
    /\ job' = Abandon(job, p)
    /\ UNCHANGED <<slowest, opened, left, visits, visit, loopVars>>

-----------------------------------------------------------------------------
(* readOrchestratorLoop, handleMasterCommand *)

\* A slave that has no session with the master is not waited for.
ReadPacket ==
    /\ job = Nothing /\ queue # <<>>
    /\ job' = Head(queue) /\ queue' = Tail(queue)
    /\ IF Head(queue) \in Commands THEN visits' \in 0..Visits[Head(queue).page]
       ELSE UNCHANGED visits
    /\ UNCHANGED <<slowest, opened, pageVars, visit, loopVars>>

\* Mutation of AskSlave: a slave that takes its time is asked once more.
AskAgain ==
    /\ job \in Commands /\ visits > 0 /\ visit = 0
    /\ visit' \in 0..slowest
    /\ visits' = IF visit' = 0 THEN visits - 1 ELSE visits + 1
    /\ UNCHANGED <<slowest, opened, pageVars, queue, job, loopVars>>

\* sendCommandToNodeWait; the wait is over when the time left is.
AskSlave ==
    /\ job \in Commands /\ visits > 0 /\ visit = 0
    /\ visit' \in 0..slowest
    /\ visits' = IF visit' = 0 THEN visits - 1 ELSE visits
    /\ UNCHANGED <<slowest, opened, pageVars, queue, job, loopVars>>

\* Mutation of Return: the reply to a command is dropped.
ReturnNothing ==
    /\ job \in Commands /\ visits = 0
    /\ job' = Nothing
    /\ UNCHANGED <<slowest, opened, pageVars, queue, visits, visit, loopVars>>

\* The reply wakes its page.  If the page has given up, the orchestrator does
\* not know the reply and answers it with an error.
Return ==
    /\ job \in Commands /\ visits = 0
    /\ job' = Nothing
    /\ IF job.wanted
       THEN page' = [page EXCEPT ![job.page] = "idle"] /\ UNCHANGED queue
       ELSE UNCHANGED page /\ queue' = Append(queue, Result("error"))
    /\ UNCHANGED <<slowest, opened, left, gaveUp, visits, visit, loopVars>>

-----------------------------------------------------------------------------
(* connectLoop *)

\* Mutation of SendHeartbeat: a heartbeat does not renew the store's entry.
HeartbeatIsNoUpdate ==
    /\ loop = "idle" /\ tick
    /\ loop' = "await" /\ tick' = FALSE
    /\ queue' = Append(queue, Result("ok"))
    /\ UNCHANGED <<slowest, opened, pageVars, readerVars, ticker, age>>

\* The orchestrator updates the store and answers at once.
SendHeartbeat ==
    /\ loop = "idle" /\ tick
    /\ loop' = "await" /\ tick' = FALSE /\ age' = 0
    /\ queue' = Append(queue, Result("ok"))
    /\ UNCHANGED <<slowest, opened, pageVars, readerVars, ticker>>

\* respCh has no buffer: the reader waits until connectLoop takes the answer.
TakeResult ==
    /\ loop = "await" /\ job \in Results
    /\ loop' = IF job = Result("ok") THEN "idle" ELSE "ended"
    /\ job' = Nothing
    /\ UNCHANGED <<slowest, opened, pageVars, queue, visits, visit, ticker, tick, age>>

-----------------------------------------------------------------------------
(* Time passes only when nothing else must happen first. *)

ReaderIsBusy ==
    \/ job = Nothing /\ queue = <<>>
    \/ job \in Commands /\ visit > 0
    \/ job \in Results /\ loop # "await"

\* The ticker's channel holds one tick; the others are dropped.
FireTicker ==
    IF ticker = 1 THEN ticker' = Interval /\ tick' = TRUE
    ELSE ticker' = ticker - 1 /\ UNCHANGED tick

Tick ==
    /\ loop # "ended"
    /\ ReaderIsBusy
    /\ ~(loop = "idle" /\ tick)
    /\ \A p \in Pages : page[p] = "waiting" => left[p] > 0
    /\ left' = [p \in Pages |-> IF page[p] = "waiting" THEN left[p] - 1 ELSE left[p]]
    /\ visit' = IF visit > 0 THEN visit - 1 ELSE 0
    /\ visits' = IF visit = 1 THEN visits - 1 ELSE visits
    /\ FireTicker
    /\ age' = IF age > Ttl THEN age ELSE age + 1
    /\ UNCHANGED <<slowest, opened, page, gaveUp, queue, job, loop>>

ClockNext ==
    \/ \E p \in Pages : Submit(p) \/ PageTimesOut(p)
    \/ ReadPacket \/ AskSlave \/ Return
    \/ SendHeartbeat \/ TakeResult
    \/ Tick

ClockSpec == ClockInit /\ [][ClockNext]_clockVars

-----------------------------------------------------------------------------
\* The time the commands of all open pages take, one after the other.
Work == slowest * Load[opened]

Fits == \A p \in opened : Work < PageTimeout[p]

(* If the slaves are fast enough for all open pages at once, no page gives  *)
(* up a command that is still being run, in whatever order the commands     *)
(* queue up behind each other and behind the heartbeat's answers.  Nor does *)
(* the session end: the error that answers a late reply would end it.       *)
PagesAnsweredInTime == Fits => ~gaveUp /\ loop # "ended"

(* Nor does the master vanish from its cluster while it is connected, as    *)
(* long as the ttl is no shorter than the ticker's interval and the work    *)
(* that may lie ahead of the heartbeat's answer.                            *)
BusyMasterStaysOnline == Fits /\ Interval <= Ttl /\ Work <= Ttl => age <= Ttl

Copies(x) == Cardinality({i \in 1..Len(queue) : queue[i] = x}) + (IF job = x THEN 1 ELSE 0)

(* However late the pages and the slaves are, a page that waits has exactly *)
(* one command under way that is not given up, one that does not wait none, *)
(* and connectLoop awaits an answer only if one is under way.               *)
WaitersMatchPackets ==
    /\ \A p \in Pages : Copies(Command(p, TRUE)) = IF page[p] = "waiting" THEN 1 ELSE 0
    /\ loop # "ended" => Copies(Result("ok")) <= 1
    /\ loop = "await" => Copies(Result("ok")) = 1

=============================================================================
