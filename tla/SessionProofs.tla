--------------------------- MODULE SessionProofs ---------------------------
(***************************************************************************)
(* One session of a master with the orchestrator, for any number of pages, *)
(* slaves and calls.  First with the clock (BusyMaster): the packets under *)
(* way are those somebody waits for; a master whose slaves are fast enough *)
(* answers every page in time and stays in the store.  Then without it     *)
(* (OrchSession): an answer is under way only for the update connectLoop   *)
(* waits for, and connectLoop gives up a session that holds only for cause.*)
(***************************************************************************)
EXTENDS BusyMaster, OrchSession, FiniteSetTheorems, TLAPS

\* The command of a page that waits for its reply.
Wanted(p) == Command(p, TRUE)

\* What the reader holds and what is queued up behind it, in order.
Places == 0..Len(queue)
At(i) == IF i = 0 THEN job ELSE queue[i]

Somewhere(x) == \E i \in Places : At(i) = x
Unique(x) == \A i, j \in Places : At(i) = x /\ At(j) = x => i = j

ClockTypes ==
    /\ slowest \in Nat
    /\ opened \in SUBSET Pages
    /\ page \in [Pages -> {"idle", "waiting"}]
    /\ left \in [Pages -> Nat]
    /\ gaveUp \in BOOLEAN
    /\ queue \in Seq(Commands \cup Results)
    /\ job \in Commands \cup Results \cup {Nothing}
    /\ visits \in Nat /\ visit \in Nat
    /\ loop \in {"idle", "await", "ended"}
    /\ ticker \in 1..Interval /\ tick \in BOOLEAN /\ age \in Nat

\* The reader asks slaves only for a command.
VisitInv ==
    /\ visit > 0 => visits > 0 /\ job \in Commands
    /\ job \notin Commands => visits = 0

\* A page waits for one command, connectLoop for one answer.
MatchInv ==
    /\ \A p \in Pages : Unique(Wanted(p)) /\ (Somewhere(Wanted(p)) <=> page[p] = "waiting")
    /\ loop # "ended" => Unique(Result("ok")) /\ (Somewhere(Result("ok")) <=> loop = "await")

PacketInv == ClockTypes /\ VisitInv /\ MatchInv

\* Time the command in hand still takes at most.
Remaining == IF visit > 0 THEN visit + slowest * (visits - 1) ELSE slowest * visits

\* The pages whose commands are queued up to a place, and the time until the
\* reader is done with them all.
Ahead(i) == {q \in Pages : \E j \in 1..i : queue[j] = Wanted(q)}
Due(i) == Remaining + slowest * Load[Ahead(i)]

\* Nobody has given up: every packet is waited for.
Healthy ==
    /\ ~gaveUp /\ loop # "ended"
    /\ \A i \in Places : At(i) \in {Wanted(p) : p \in opened} \cup {Result("ok"), Nothing}

\* The command in hand asks no more slaves than its page counts for.
JobInTime == \A p \in opened : job = Wanted(p) => Remaining <= slowest * Visits[p]

\* The timer of a page outlasts what lies ahead of its command by what the
\* timeout outlasts the work of all pages.
PagesInTime ==
    \A i \in Places : \A p \in opened :
        At(i) = Wanted(p) => PageTimeout[p] + Due(i) <= Work + left[p]

TimelyInv == Fits => Healthy /\ JobInTime /\ PagesInTime

\* The entry is no older than the ticker's interval, or the work of all pages
\* outlasts its age and what lies ahead of the answer.
EntryInTime ==
    /\ age <= Ttl
    /\ ~tick => age + ticker <= Interval
    /\ \A i \in Places : At(i) = Result("ok") => age + Due(i) <= Work

OnlineInv == Fits /\ Interval <= Ttl /\ Work <= Ttl => EntryInTime

-----------------------------------------------------------------------------
(* Packets *)

(* The kinds of packets differ, and so do the commands of different pages.  *)
LEMMA PacketKinds ==
    /\ \A p \in Pages, w \in BOOLEAN : /\ Command(p, w) \in Commands
                                       /\ Command(p, w).page = p /\ Command(p, w).wanted = w
    /\ \A p, q \in Pages, w \in BOOLEAN : Wanted(p) = Command(q, w) => p = q /\ w = TRUE
    /\ \A x \in Commands : \E p \in Pages, w \in BOOLEAN : x = Command(p, w)
    /\ \A x \in Commands : x.page \in Pages /\ x.wanted \in BOOLEAN /\ x = Command(x.page, x.wanted)
    /\ Commands \cap Results = {} /\ Nothing \notin Commands \cup Results
    /\ Result("ok") # Result("error") /\ Result("ok") \in Results /\ Result("error") \in Results
<1>1. \A x \in Commands : x.kind = "command"
  BY DEF Commands, Command
<1>2. Result("ok").kind = "ok" /\ Result("error").kind = "error" /\ Nothing.kind = "nothing"
  BY DEF Result, Nothing
<1>3. \A p, q \in Pages, w \in BOOLEAN : Wanted(p) = Command(q, w) => p = q /\ w = TRUE
  <2> TAKE p, q \in Pages, w \in BOOLEAN
  <2>1. Wanted(p).page = p /\ Wanted(p).wanted = TRUE
    BY DEF Wanted, Command
  <2>2. Command(q, w).page = q /\ Command(q, w).wanted = w
    BY DEF Command
  <2> QED
    BY <2>1, <2>2
<1>4. \A p \in Pages, w \in BOOLEAN : /\ Command(p, w) \in Commands
                                      /\ Command(p, w).page = p /\ Command(p, w).wanted = w
  BY DEF Commands, Command
<1>5. \A x \in Commands : \E p \in Pages, w \in BOOLEAN : x = Command(p, w)
  BY DEF Commands
<1>6. Commands \cap Results = {} /\ Nothing \notin Commands \cup Results
  BY <1>1, <1>2 DEF Results
<1>7. Result("ok") # Result("error") /\ Result("ok") \in Results /\ Result("error") \in Results
  BY <1>2 DEF Results
<1>8. \A x \in Commands : x.page \in Pages /\ x.wanted \in BOOLEAN /\ x = Command(x.page, x.wanted)
  BY <1>4, <1>5
<1> QED
  BY <1>3, <1>4, <1>5, <1>6, <1>7, <1>8

(* A packet written: it takes the place behind the others.                  *)
LEMMA AppendAt ==
    ASSUME ClockTypes, NEW x \in Commands \cup Results, queue' = Append(queue, x)
    PROVE  /\ queue' \in Seq(Commands \cup Results) /\ Len(queue') = Len(queue) + 1
           /\ \A i \in 1..Len(queue) : queue'[i] = queue[i]
           /\ queue'[Len(queue) + 1] = x
           /\ Len(queue) \in Nat
BY DEF ClockTypes

(* A packet read: every other one moves a place ahead.                      *)
LEMMA TailAt ==
    ASSUME ClockTypes, queue # <<>>
    PROVE  /\ Tail(queue) \in Seq(Commands \cup Results) /\ Len(queue) \in Nat \ {0}
           /\ Len(Tail(queue)) = Len(queue) - 1
           /\ \A i \in 1..Len(queue) - 1 : Tail(queue)[i] = queue[i + 1]
           /\ Head(queue) = queue[1] /\ Head(queue) \in Commands \cup Results
BY DEF ClockTypes

(* A packet written adds itself and changes nothing of the others.          *)
LEMMA WriteKeeps ==
    ASSUME ClockTypes, NEW x \in Commands \cup Results, queue' = Append(queue, x), job' = job, NEW y
    PROVE  /\ y # x => (Unique(y) => Unique(y)') /\ (Somewhere(y)' <=> Somewhere(y))
           /\ y = x /\ ~Somewhere(y) => Unique(y)' /\ Somewhere(y)'
<1>1. /\ Len(queue) \in Nat /\ Len(queue') = Len(queue) + 1
      /\ \A i \in 1..Len(queue) : queue'[i] = queue[i]
      /\ queue'[Len(queue) + 1] = x
  BY AppendAt
<1>2. \A i \in Places : i \in Places' /\ At(i)' = At(i)
  BY <1>1 DEF Places, At
<1>3. \A i \in Places' : i \in Places \/ i = Len(queue) + 1
  BY <1>1 DEF Places
<1>4. \E n \in Places' : n = Len(queue) + 1
  BY <1>1 DEF Places
<1>5. \A n \in Places' : n = Len(queue) + 1 => At(n)' = x
  BY <1>1 DEF Places, At
<1>6. ASSUME y # x PROVE \A i \in Places' : At(i)' = y => i \in Places /\ At(i) = y
  BY <1>2, <1>3, <1>5, <1>6
<1>7. ASSUME y # x PROVE (Unique(y) => Unique(y)') /\ (Somewhere(y)' <=> Somewhere(y))
  BY <1>2, <1>6, <1>7 DEF Unique, Somewhere
<1>8. ASSUME y = x, ~Somewhere(y) PROVE \A i \in Places' : At(i)' = y <=> i = Len(queue) + 1
  BY <1>2, <1>3, <1>5, <1>8 DEF Somewhere
<1>9. ASSUME y = x, ~Somewhere(y) PROVE Unique(y)' /\ Somewhere(y)'
  BY <1>4, <1>8, <1>9 DEF Unique, Somewhere
<1> QED
  BY <1>7, <1>9

(* The reader moves on to the next packet.                                  *)
LEMMA ReadKeeps ==
    ASSUME ClockTypes, job = Nothing, queue # <<>>, job' = Head(queue), queue' = Tail(queue),
           NEW y, y # Nothing
    PROVE  (Unique(y) => Unique(y)') /\ (Somewhere(y)' <=> Somewhere(y))
<1>1. /\ Len(queue) \in Nat \ {0} /\ Len(queue') = Len(queue) - 1
      /\ \A i \in 1..Len(queue) - 1 : queue'[i] = queue[i + 1]
      /\ job' = queue[1]
  BY TailAt
<1>2. \A i \in Places' : i + 1 \in Places /\ At(i)' = At(i + 1)
  BY <1>1 DEF Places, At
<1>3. \A i \in Places : i # 0 => i - 1 \in Places' /\ i = (i - 1) + 1
  BY <1>1 DEF Places
<1>4. At(0) # y
  BY DEF At
<1>5. \A i \in Places' : i \in Nat
  BY <1>1 DEF Places
<1>6. Somewhere(y)' <=> Somewhere(y)
  BY <1>2, <1>3, <1>4 DEF Somewhere
<1>7. ASSUME Unique(y), NEW i \in Places', NEW j \in Places', At(i)' = y, At(j)' = y PROVE i = j
  <2>1. i + 1 = j + 1
    BY <1>2, <1>7 DEF Unique
  <2> QED
    BY <2>1, <1>5
<1> QED
  BY <1>6, <1>7 DEF Unique

(* The reader is done with its packet; an error may be written.             *)
LEMMA DoneKeeps ==
    ASSUME ClockTypes, job' = Nothing, NEW y, y # Nothing, y # Result("error"),
           queue' = queue \/ queue' = Append(queue, Result("error"))
    PROVE  /\ Unique(y) => Unique(y)'
           /\ y # job => (Somewhere(y)' <=> Somewhere(y))
           /\ y = job /\ Unique(y) => ~Somewhere(y)'
<1>1. /\ Len(queue) \in Nat /\ Len(queue') \in {Len(queue), Len(queue) + 1}
      /\ \A i \in 1..Len(queue) : queue'[i] = queue[i]
      /\ Len(queue') # Len(queue) => queue'[Len(queue) + 1] = Result("error")
  <2>1. Result("error") \in Commands \cup Results /\ Len(queue) \in Nat
    BY PacketKinds DEF ClockTypes
  <2>2. CASE queue' = queue
    BY <2>1, <2>2
  <2>3. CASE queue' = Append(queue, Result("error"))
    BY <2>1, <2>3, AppendAt
  <2> QED
    BY <2>2, <2>3
<1>2. \A i \in Places : i \in Places' /\ (i # 0 => At(i)' = At(i))
  BY <1>1 DEF Places, At
<1>3. \A i \in Places' : i \in Places \/ At(i)' # y
  BY <1>1 DEF Places, At
<1>4. At(0)' # y /\ At(0) = job /\ 0 \in Places
  BY <1>1 DEF At, Places
<1> QED
  BY <1>2, <1>3, <1>4 DEF Unique, Somewhere

(* A page that gives up takes nothing but its own command out of the        *)
(* wanted ones.                                                             *)
LEMMA AbandonKeeps ==
    ASSUME ClockTypes, NEW p \in Pages, PageTimesOut(p), NEW y, y # Command(p, FALSE)
    PROVE  /\ y # Wanted(p) => (Unique(y) => Unique(y)') /\ (Somewhere(y)' <=> Somewhere(y))
           /\ Unique(Wanted(p))' /\ ~Somewhere(Wanted(p))'
<1>1. /\ queue' = [i \in 1..Len(queue) |-> Abandon(queue[i], p)] /\ job' = Abandon(job, p)
      /\ Len(queue) \in Nat
  BY DEF PageTimesOut, ClockTypes
<1>2. Len(queue') = Len(queue)
  BY <1>1
<1>3. Places' = Places /\ \A i \in Places : At(i)' = Abandon(At(i), p)
  BY <1>1, <1>2 DEF Places, At
<1>4. Command(p, FALSE) # Wanted(p)
  BY PacketKinds
<1>5. \A x : Abandon(x, p) # Wanted(p) /\ (y # Wanted(p) => (Abandon(x, p) = y <=> x = y))
  BY <1>4 DEF Abandon, Wanted
<1> QED
  BY <1>3, <1>5 DEF Unique, Somewhere

-----------------------------------------------------------------------------
(* Types *)

(* Every step keeps the types.                                              *)
LEMMA ClockTypesStep == ClockTypes /\ VisitInv /\ [ClockNext]_clockVars => ClockTypes'
<1> SUFFICES ASSUME ClockTypes, VisitInv, [ClockNext]_clockVars PROVE ClockTypes'
  OBVIOUS
<1>1. ASSUME NEW p \in Pages, Submit(p) PROVE ClockTypes'
  <2>1. Command(p, TRUE) \in Commands \cup Results
    BY PacketKinds
  <2>2. queue' \in Seq(Commands \cup Results)
    BY <1>1, <2>1, AppendAt DEF Submit
  <2>3. page' \in [Pages -> {"idle", "waiting"}] /\ left' \in [Pages -> Nat]
    BY <1>1, TimesAssumption DEF Submit, ClockTypes
  <2> QED
    BY <1>1, <2>2, <2>3 DEF Submit, ClockTypes, readerVars, loopVars
<1>2. ASSUME NEW p \in Pages, PageTimesOut(p) PROVE ClockTypes'
  <2>1. \A x \in Commands \cup Results : Abandon(x, p) \in Commands \cup Results
    BY PacketKinds DEF Abandon
  <2>2. Abandon(Nothing, p) = Nothing
    BY PacketKinds DEF Abandon
  <2>3. queue' \in Seq(Commands \cup Results)
    BY <1>2, <2>1 DEF PageTimesOut, ClockTypes
  <2>4. job' \in Commands \cup Results \cup {Nothing}
    BY <1>2, <2>1, <2>2 DEF PageTimesOut, ClockTypes
  <2>5. page' \in [Pages -> {"idle", "waiting"}]
    BY <1>2 DEF PageTimesOut, ClockTypes
  <2> QED
    BY <1>2, <2>3, <2>4, <2>5 DEF PageTimesOut, ClockTypes, loopVars
<1>3. CASE ReadPacket
  <2>1. Tail(queue) \in Seq(Commands \cup Results) /\ Head(queue) \in Commands \cup Results
    BY <1>3, TailAt DEF ReadPacket
  <2>2. Head(queue) \in Commands => Visits[Head(queue).page] \in Nat
    BY PacketKinds, TimesAssumption
  <2>3. visits' \in Nat
    BY <1>3, <2>2 DEF ReadPacket, ClockTypes
  <2> QED
    BY <1>3, <2>1, <2>3 DEF ReadPacket, ClockTypes, pageVars, loopVars
<1>4. CASE AskSlave
  BY <1>4 DEF AskSlave, ClockTypes, pageVars, loopVars
<1>5. CASE Return
  <2>1. page' \in [Pages -> {"idle", "waiting"}]
    BY <1>5 DEF Return, ClockTypes
  <2>2. queue' \in Seq(Commands \cup Results)
    BY <1>5, PacketKinds, AppendAt DEF Return, ClockTypes
  <2> QED
    BY <1>5, <2>1, <2>2 DEF Return, ClockTypes, loopVars
<1>6. CASE SendHeartbeat
  <2>1. queue' \in Seq(Commands \cup Results)
    BY <1>6, PacketKinds, AppendAt DEF SendHeartbeat
  <2> QED
    BY <1>6, <2>1 DEF SendHeartbeat, ClockTypes, pageVars, readerVars
<1>7. CASE TakeResult
  BY <1>7 DEF TakeResult, ClockTypes, pageVars
<1>8. CASE Tick
  <2>1. left' \in [Pages -> Nat]
    BY <1>8 DEF Tick, ClockTypes
  <2>2. visit' \in Nat /\ visits' \in Nat /\ age' \in Nat
    BY <1>8, TimesAssumption DEF Tick, ClockTypes, VisitInv
  <2>3. ticker' \in 1..Interval
    BY <1>8, TimesAssumption DEF Tick, FireTicker, ClockTypes
  <2>4. tick' \in BOOLEAN
    BY <1>8 DEF Tick, FireTicker, ClockTypes
  <2> QED
    BY <1>8, <2>1, <2>2, <2>3, <2>4 DEF Tick, ClockTypes
<1>9. CASE UNCHANGED clockVars
  BY <1>9 DEF clockVars, ClockTypes
<1> QED
  BY <1>1, <1>2, <1>3, <1>4, <1>5, <1>6, <1>7, <1>8, <1>9 DEF ClockNext

(* Every step keeps the slaves to ask those of the command in hand.         *)
LEMMA VisitStep == ClockTypes /\ VisitInv /\ [ClockNext]_clockVars => VisitInv'
<1> SUFFICES ASSUME ClockTypes, VisitInv, [ClockNext]_clockVars PROVE VisitInv'
  OBVIOUS
<1>1. ASSUME NEW p \in Pages, Submit(p) PROVE VisitInv'
  BY <1>1 DEF Submit, VisitInv, readerVars
<1>2. ASSUME NEW p \in Pages, PageTimesOut(p) PROVE VisitInv'
  <2>1. job' \in Commands <=> job \in Commands
    BY <1>2, PacketKinds DEF PageTimesOut, Abandon
  <2> QED
    BY <1>2, <2>1 DEF PageTimesOut, VisitInv
<1>3. CASE ReadPacket
  <2>1. visits = 0 /\ visit = 0
    BY <1>3, PacketKinds DEF ReadPacket, VisitInv, ClockTypes
  <2> QED
    BY <1>3, <2>1 DEF ReadPacket, VisitInv
<1>4. CASE AskSlave
  BY <1>4 DEF AskSlave, VisitInv, ClockTypes
<1>5. CASE Return
  <2>1. visits = 0 /\ visit = 0
    BY <1>5 DEF Return, VisitInv, ClockTypes
  <2> QED
    BY <1>5, <2>1 DEF Return, VisitInv
<1>6. CASE SendHeartbeat
  BY <1>6 DEF SendHeartbeat, VisitInv, readerVars
<1>7. CASE TakeResult
  <2>1. job \notin Commands
    BY <1>7, PacketKinds DEF TakeResult
  <2>2. visits = 0 /\ visit = 0
    BY <2>1 DEF VisitInv, ClockTypes
  <2> QED
    BY <1>7, <2>2 DEF TakeResult, VisitInv
<1>8. CASE Tick
  BY <1>8 DEF Tick, VisitInv, ClockTypes
<1>9. CASE UNCHANGED clockVars
  BY <1>9 DEF clockVars, VisitInv
<1> QED
  BY <1>1, <1>2, <1>3, <1>4, <1>5, <1>6, <1>7, <1>8, <1>9 DEF ClockNext

-----------------------------------------------------------------------------
(* Who waits for what *)

\* What MatchInv says of one page, and of connectLoop.
PageMatches(p) == Unique(Wanted(p)) /\ (Somewhere(Wanted(p)) <=> page[p] = "waiting")
MainMatches ==
    loop # "ended" => Unique(Result("ok")) /\ (Somewhere(Result("ok")) <=> loop = "await")

(* A page's command, an answer and the empty hand of the reader differ.     *)
LEMMA WantedDiffers ==
    ASSUME NEW p \in Pages
    PROVE  /\ Wanted(p) \in Commands /\ Wanted(p) # Nothing
           /\ Wanted(p) # Result("ok") /\ Wanted(p) # Result("error")
           /\ Result("ok") # Nothing
           /\ \A q \in Pages : Wanted(p) # Command(q, FALSE) /\ Result("ok") # Command(q, FALSE)
           /\ \A q \in Pages : q # p => Wanted(q) # Wanted(p)
<1>1. Wanted(p) \in Commands /\ \A q \in Pages : Command(q, FALSE) \in Commands
  BY PacketKinds DEF Wanted
<1>2. Nothing \notin Commands /\ Result("ok") \notin Commands /\ Result("error") \notin Commands
      /\ Result("ok") # Nothing
  BY PacketKinds
<1>3. \A q \in Pages : Wanted(p) # Command(q, FALSE)
  <2> TAKE q \in Pages
  <2>1. Wanted(p).wanted = TRUE /\ Command(q, FALSE).wanted = FALSE
    BY DEF Wanted, Command
  <2> QED
    BY <2>1
<1>4. \A q \in Pages : q # p => Wanted(q) # Wanted(p)
  <2> TAKE q \in Pages
  <2>1. Wanted(p).page = p /\ Wanted(q).page = q
    BY DEF Wanted, Command
  <2> QED
    BY <2>1
<1> QED
  BY <1>1, <1>2, <1>3, <1>4

(* Every step keeps the waiters and the packets in step.                    *)
LEMMA MatchStep == PacketInv /\ [ClockNext]_clockVars => MatchInv'
<1> SUFFICES ASSUME PacketInv, [ClockNext]_clockVars
             PROVE  (\A q \in Pages : PageMatches(q)') /\ MainMatches'
  BY DEF MatchInv, PageMatches, MainMatches
<1>0. ClockTypes /\ VisitInv /\ (\A q \in Pages : PageMatches(q)) /\ MainMatches
  BY DEF PacketInv, MatchInv, PageMatches, MainMatches
<1>1. ASSUME NEW p \in Pages, Submit(p) PROVE (\A q \in Pages : PageMatches(q)') /\ MainMatches'
  <2>1. /\ queue' = Append(queue, Wanted(p)) /\ job' = job /\ loop' = loop
        /\ page[p] = "idle" /\ page' = [page EXCEPT ![p] = "waiting"]
        /\ page \in [Pages -> {"idle", "waiting"}]
    BY <1>0, <1>1 DEF Submit, readerVars, loopVars, ClockTypes, Wanted
  <2>2. ASSUME NEW q \in Pages PROVE PageMatches(q)'
    <3>1. CASE q = p
      BY <1>0, <2>1, <3>1, WriteKeeps, WantedDiffers DEF PageMatches
    <3>2. CASE q # p
      BY <1>0, <2>1, <3>2, WriteKeeps, WantedDiffers DEF PageMatches
    <3> QED
      BY <3>1, <3>2
  <2>3. Wanted(p) \in Commands \cup Results /\ Result("ok") # Wanted(p)
    BY WantedDiffers
  <2>4. MainMatches'
    BY <1>0, <2>1, <2>3, WriteKeeps DEF MainMatches
  <2> QED
    BY <2>2, <2>4
<1>2. ASSUME NEW p \in Pages, PageTimesOut(p)
      PROVE  (\A q \in Pages : PageMatches(q)') /\ MainMatches'
  <2>1. /\ loop' = loop /\ page' = [page EXCEPT ![p] = "idle"]
        /\ page \in [Pages -> {"idle", "waiting"}]
    BY <1>0, <1>2 DEF PageTimesOut, loopVars, ClockTypes
  <2>2. ASSUME NEW q \in Pages PROVE PageMatches(q)'
    <3>1. CASE q = p
      BY <1>0, <1>2, <2>1, <3>1, AbandonKeeps, WantedDiffers DEF PageMatches
    <3>2. CASE q # p
      BY <1>0, <1>2, <2>1, <3>2, AbandonKeeps, WantedDiffers DEF PageMatches
    <3> QED
      BY <3>1, <3>2
  <2>3. MainMatches'
    BY <1>0, <1>2, <2>1, AbandonKeeps, WantedDiffers DEF MainMatches
  <2> QED
    BY <2>2, <2>3
<1>3. ASSUME ReadPacket PROVE (\A q \in Pages : PageMatches(q)') /\ MainMatches'
  <2>1. /\ job = Nothing /\ queue # <<>> /\ job' = Head(queue) /\ queue' = Tail(queue)
        /\ loop' = loop /\ page' = page
    BY <1>3 DEF ReadPacket, pageVars, loopVars
  <2>2. ASSUME NEW q \in Pages PROVE PageMatches(q)'
    BY <1>0, <2>1, ReadKeeps, WantedDiffers DEF PageMatches
  <2>3. Result("ok") # Nothing
    BY PacketKinds
  <2>4. MainMatches'
    BY <1>0, <2>1, <2>3, ReadKeeps DEF MainMatches
  <2> QED
    BY <2>2, <2>4
<1>4. ASSUME UNCHANGED <<queue, job, page, loop>>
      PROVE  (\A q \in Pages : PageMatches(q)') /\ MainMatches'
  BY <1>0, <1>4 DEF PageMatches, MainMatches, Unique, Somewhere, Places, At
<1>5. ASSUME Return PROVE (\A q \in Pages : PageMatches(q)') /\ MainMatches'
  <2>1. /\ job \in Commands /\ job' = Nothing /\ loop' = loop
        /\ queue' = queue \/ queue' = Append(queue, Result("error"))
        /\ page \in [Pages -> {"idle", "waiting"}]
    BY <1>0, <1>5 DEF Return, loopVars, ClockTypes
  <2>2. ASSUME NEW q \in Pages PROVE PageMatches(q)'
    <3>1. CASE job = Wanted(q)
      <4>1. job.wanted /\ job.page = q
        BY <3>1, PacketKinds DEF Wanted
      <4>2. page'[q] = "idle"
        BY <1>5, <2>1, <4>1 DEF Return
      <4> QED
        BY <1>0, <2>1, <3>1, <4>2, DoneKeeps, WantedDiffers DEF PageMatches
    <3>2. CASE job # Wanted(q)
      <4>1. job.wanted => job.page # q
        BY <2>1, <3>2, PacketKinds DEF Wanted
      <4>2. page'[q] = page[q]
        BY <1>5, <2>1, <4>1 DEF Return
      <4> QED
        BY <1>0, <2>1, <3>2, <4>2, DoneKeeps, WantedDiffers DEF PageMatches
    <3> QED
      BY <3>1, <3>2
  <2>3. Result("ok") # Nothing /\ Result("ok") # Result("error") /\ Result("ok") # job
    BY <2>1, PacketKinds
  <2>4. MainMatches'
    BY <1>0, <2>1, <2>3, DoneKeeps DEF MainMatches
  <2> QED
    BY <2>2, <2>4
<1>6. ASSUME SendHeartbeat PROVE (\A q \in Pages : PageMatches(q)') /\ MainMatches'
  <2>1. /\ queue' = Append(queue, Result("ok")) /\ job' = job /\ page' = page
        /\ loop = "idle" /\ loop' = "await"
        /\ Result("ok") \in Commands \cup Results
    BY <1>6, PacketKinds DEF SendHeartbeat, readerVars, pageVars
  <2>2. ASSUME NEW q \in Pages PROVE PageMatches(q)'
    BY <1>0, <2>1, WriteKeeps, WantedDiffers DEF PageMatches
  <2>3. MainMatches'
    BY <1>0, <2>1, WriteKeeps DEF MainMatches
  <2> QED
    BY <2>2, <2>3
<1>7. ASSUME TakeResult PROVE (\A q \in Pages : PageMatches(q)') /\ MainMatches'
  <2>1. /\ job \in Results /\ job' = Nothing /\ queue' = queue /\ page' = page
        /\ loop = "await" /\ loop' = IF job = Result("ok") THEN "idle" ELSE "ended"
    BY <1>7 DEF TakeResult, pageVars
  <2>2. ASSUME NEW q \in Pages PROVE PageMatches(q)'
    <3>1. job # Wanted(q)
      BY <2>1, WantedDiffers DEF Results
    <3> QED
      BY <1>0, <2>1, <3>1, DoneKeeps, WantedDiffers DEF PageMatches
  <2>3. Result("ok") # Nothing /\ Result("ok") # Result("error")
    BY PacketKinds
  <2>4. MainMatches'
    BY <1>0, <2>1, <2>3, DoneKeeps DEF MainMatches
  <2> QED
    BY <2>2, <2>4
<1>8. ASSUME AskSlave \/ Tick \/ UNCHANGED clockVars PROVE UNCHANGED <<queue, job, page, loop>>
  BY <1>8 DEF AskSlave, Tick, clockVars, pageVars, loopVars
<1> QED
  BY <1>1, <1>2, <1>3, <1>4, <1>5, <1>6, <1>7, <1>8 DEF ClockNext

-----------------------------------------------------------------------------
(* Load and time *)

(* Products of times and counts.                                            *)
LEMMA Products ==
    ASSUME NEW a \in Nat, NEW b \in Nat, NEW c \in Nat
    PROVE  /\ a * b \in Nat
           /\ a * (b + c) = a * b + a * c
           /\ a * 0 = 0
           /\ b > 0 => b - 1 \in Nat /\ a * b = a * (b - 1) + a
OBVIOUS

(* The larger count takes the longer time.                                  *)
LEMMA ProductMonotone ==
    ASSUME NEW a \in Nat, NEW b \in Nat, NEW c \in Nat, b <= c
    PROVE  a * b <= a * c
<1>1. c - b \in Nat /\ c = b + (c - b)
  OBVIOUS
<1>2. a * c = a * b + a * (c - b) /\ a * (c - b) \in Nat /\ a * b \in Nat
  BY <1>1, Products
<1> QED
  BY <1>2

(* What Load says of no page, one page more, and more pages.                *)
LEMMA LoadFacts ==
    /\ \A s \in SUBSET Pages : Load[s] \in Nat
    /\ Load[{}] = 0
    /\ \A s \in SUBSET Pages, p \in Pages : p \notin s => Load[s \cup {p}] = Load[s] + Visits[p]
    /\ \A s, t \in SUBSET Pages : s \subseteq t => Load[s] <= Load[t]
<1>1. \A s \in SUBSET Pages : Load[s] \in Nat
  BY LoadAssumption
<1>2. Load[{}] = 0
  <2>1. {} \in SUBSET Pages /\ {} \cap {} = {} /\ {} \cup {} = {}
    OBVIOUS
  <2>2. Load[{} \cup {}] = Load[{}] + Load[{}]
    BY <2>1, LoadAssumption
  <2> QED
    BY <1>1, <2>1, <2>2
<1>3. ASSUME NEW s \in SUBSET Pages, NEW p \in Pages, p \notin s
      PROVE  Load[s \cup {p}] = Load[s] + Visits[p]
  <2>1. {p} \in SUBSET Pages /\ s \cap {p} = {}
    BY <1>3
  <2> QED
    BY <2>1, LoadAssumption
<1>4. ASSUME NEW s \in SUBSET Pages, NEW t \in SUBSET Pages, s \subseteq t
      PROVE  Load[s] <= Load[t]
  <2>1. t \ s \in SUBSET Pages /\ s \cap (t \ s) = {} /\ s \cup (t \ s) = t
    BY <1>4
  <2>2. Load[t] = Load[s] + Load[t \ s]
    BY <2>1, LoadAssumption
  <2> QED
    BY <1>1, <2>1, <2>2
<1> QED
  BY <1>1, <1>2, <1>3, <1>4

(* The time left is a time, and none when no slave is to be asked.          *)
LEMMA RemainingType ==
    ASSUME ClockTypes, VisitInv
    PROVE  Remaining \in Nat /\ (visits = 0 => Remaining = 0)
<1>1. slowest \in Nat /\ visits \in Nat /\ visit \in Nat /\ (visit > 0 => visits > 0)
  BY DEF ClockTypes, VisitInv
<1>2. /\ slowest * visits \in Nat /\ slowest * 0 = 0
      /\ visits > 0 => visits - 1 \in Nat
  BY <1>1, Products
<1>3. visits > 0 => slowest * (visits - 1) \in Nat
  BY <1>1, <1>2, Products
<1> QED
  BY <1>1, <1>2, <1>3 DEF Remaining

(* So is the time until a place in the queue is reached.                    *)
LEMMA DueType ==
    ASSUME ClockTypes, VisitInv, NEW i
    PROVE  Due(i) \in Nat /\ Ahead(i) \in SUBSET Pages /\ slowest * Load[Ahead(i)] \in Nat
<1>1. Ahead(i) \in SUBSET Pages
  BY DEF Ahead
<1>2. slowest \in Nat /\ Load[Ahead(i)] \in Nat
  BY <1>1, LoadFacts DEF ClockTypes
<1>3. slowest * Load[Ahead(i)] \in Nat
  BY <1>2, Products
<1> QED
  BY <1>1, <1>3, RemainingType DEF Due

(* Asking a slave takes no more than was counted for it.                    *)
LEMMA RemainingAsk ==
    ASSUME ClockTypes, VisitInv, AskSlave
    PROVE  Remaining' <= Remaining
<1>1. /\ slowest \in Nat /\ visits \in Nat /\ visits > 0 /\ visit = 0 /\ slowest' = slowest
      /\ visit' \in 0..slowest /\ visits' = IF visit' = 0 THEN visits - 1 ELSE visits
  BY DEF ClockTypes, AskSlave
<1>2. PICK rest \in Nat : rest = slowest * (visits - 1)
  BY <1>1, Products
<1>3. slowest * visits = rest + slowest
  BY <1>1, <1>2, Products
<1>4. Remaining = rest + slowest
  BY <1>1, <1>3 DEF Remaining
<1>5. visit' = 0 => Remaining' = rest
  BY <1>1, <1>2 DEF Remaining
<1>6. visit' # 0 => Remaining' = visit' + rest
  <2>1. visit' # 0 => visit' > 0 /\ visits' = visits
    BY <1>1
  <2> QED
    BY <1>1, <1>2, <2>1 DEF Remaining
<1>7. rest <= rest + slowest /\ \A v \in 0..slowest : v + rest <= rest + slowest
  BY <1>1
<1> QED
  BY <1>1, <1>4, <1>5, <1>6, <1>7

(* The clock brings the end of a command nearer.                            *)
LEMMA RemainingTick ==
    ASSUME ClockTypes, VisitInv, Tick, visit > 0
    PROVE  Remaining' <= Remaining - 1
<1>1. /\ slowest \in Nat /\ visits \in Nat /\ visits > 0 /\ visit \in Nat /\ slowest' = slowest
      /\ visit' = visit - 1 /\ visits' = IF visit = 1 THEN visits - 1 ELSE visits
  BY DEF ClockTypes, VisitInv, Tick
<1> DEFINE rest == slowest * (visits - 1)
<1>2. rest \in Nat
  BY <1>1, Products
<1>3. Remaining = visit + rest
  BY DEF Remaining
<1>4. CASE visit = 1
  <2>1. Remaining' = rest
    BY <1>1, <1>4 DEF Remaining
  <2> HIDE DEF rest
  <2> QED
    BY <1>1, <1>2, <1>3, <1>4, <2>1
<1>5. CASE visit # 1
  <2>1. visit' > 0 /\ visits' = visits
    BY <1>1, <1>5
  <2>2. Remaining' = visit' + rest
    BY <1>1, <2>1 DEF Remaining
  <2> HIDE DEF rest
  <2> QED
    BY <1>1, <1>2, <1>3, <2>2
<1> QED
  BY <1>4, <1>5

(* The pages ahead of a place are open, and none of them is the one whose   *)
(* command is in hand.                                                      *)
LEMMA AheadFacts ==
    ASSUME PacketInv, Healthy, NEW i \in Places, NEW q \in Ahead(i)
    PROVE  q \in opened /\ job # Wanted(q)
<1>1. PICK j \in 1..i : q \in Pages /\ queue[j] = Wanted(q)
  BY DEF Ahead
<1>2. Len(queue) \in Nat /\ i \in Nat /\ i <= Len(queue)
  BY DEF PacketInv, ClockTypes, Places
<1>3. j \in Places /\ 0 \in Places /\ j # 0 /\ At(j) = Wanted(q) /\ At(0) = job
  BY <1>1, <1>2 DEF Places, At
<1>4. job # Wanted(q)
  BY <1>1, <1>3 DEF PacketInv, MatchInv, Unique
<1>5. q \in opened
  <2>1. Wanted(q) \in {Wanted(p) : p \in opened}
    BY <1>1, <1>3, WantedDiffers DEF Healthy
  <2>2. PICK p \in opened : Wanted(q) = Wanted(p)
    BY <2>1
  <2>3. p \in Pages
    BY DEF PacketInv, ClockTypes
  <2> QED
    BY <1>1, <2>2, <2>3, WantedDiffers
<1> QED
  BY <1>4, <1>5

(* The command in hand and those of other open pages take no more than the  *)
(* work of all open pages.                                                  *)
LEMMA WorkAhead ==
    ASSUME PacketInv, Healthy, JobInTime, NEW s \in SUBSET opened, \A q \in s : job # Wanted(q)
    PROVE  Remaining + slowest * Load[s] <= Work
<1>1. slowest \in Nat /\ opened \in SUBSET Pages /\ s \in SUBSET Pages
  BY DEF PacketInv, ClockTypes
<1>2. Load[s] \in Nat /\ Load[opened] \in Nat
  BY <1>1, LoadFacts
<1>3. Remaining \in Nat /\ (visits = 0 => Remaining = 0)
  BY RemainingType DEF PacketInv
<1>4. ASSUME NEW p \in opened, job = Wanted(p) PROVE Remaining + slowest * Load[s] <= Work
  <2>1. p \in Pages /\ p \notin s /\ s \cup {p} \in SUBSET Pages /\ s \cup {p} \subseteq opened
    BY <1>1, <1>4
  <2>2. Visits[p] \in Nat
    BY <2>1, TimesAssumption
  <2>3. Load[s] + Visits[p] <= Load[opened]
    BY <1>1, <2>1, LoadFacts
  <2>4. slowest * (Load[s] + Visits[p]) <= Work
    BY <1>1, <1>2, <2>2, <2>3, ProductMonotone DEF Work
  <2>5. slowest * (Load[s] + Visits[p]) = slowest * Load[s] + slowest * Visits[p]
    BY <1>1, <1>2, <2>2, Products
  <2>6. Remaining <= slowest * Visits[p]
    BY <1>4 DEF JobInTime
  <2>7. slowest * Load[s] \in Nat /\ slowest * Visits[p] \in Nat /\ Work \in Nat
    BY <1>1, <1>2, <2>2, Products DEF Work
  <2> QED
    BY <1>3, <2>4, <2>5, <2>6, <2>7
<1>5. ASSUME \A p \in opened : job # Wanted(p) PROVE Remaining + slowest * Load[s] <= Work
  <2>1. job \notin Commands
    <3>1. job \in {Result("ok"), Nothing}
      BY <1>5 DEF Healthy, Places, At, PacketInv, ClockTypes
    <3>2. Result("ok") \notin Commands /\ Nothing \notin Commands
      BY PacketKinds
    <3> QED
      BY <3>1, <3>2
  <2>2. Remaining = 0
    BY <1>3, <2>1 DEF PacketInv, VisitInv
  <2>3. slowest * Load[s] <= Work
    BY <1>1, <1>2, LoadFacts, ProductMonotone DEF Work
  <2>4. slowest * Load[s] \in Nat
    BY <1>1, <1>2, Products
  <2> QED
    BY <2>2, <2>3, <2>4
<1> QED
  BY <1>4, <1>5

(* What is written goes behind the work of open pages only.                 *)
LEMMA DueWrite ==
    ASSUME PacketInv, Healthy, JobInTime, UNCHANGED <<slowest, job, visits, visit>>,
           NEW x \in {Wanted(p) : p \in opened} \cup {Result("ok")}, ~Somewhere(x),
           queue' = Append(queue, x)
    PROVE  \A i \in Places' :
               \/ i \in Places /\ At(i)' = At(i) /\ Due(i)' = Due(i)
               \/ i = Len(queue) + 1 /\ At(i)' = x /\ Due(i)' <= Work
<1>1. x \in Commands \cup Results
  <2>1. \A p \in opened : Wanted(p) \in Commands
    BY WantedDiffers DEF PacketInv, ClockTypes
  <2> QED
    BY <2>1, PacketKinds
<1>2. /\ Len(queue) \in Nat /\ Len(queue') = Len(queue) + 1
      /\ \A i \in 1..Len(queue) : queue'[i] = queue[i]
      /\ queue'[Len(queue) + 1] = x
  BY <1>1, AppendAt DEF PacketInv
<1>3. Remaining' = Remaining /\ slowest' = slowest
  BY DEF Remaining
<1> SUFFICES ASSUME NEW i \in Places'
             PROVE  \/ i \in Places /\ At(i)' = At(i) /\ Due(i)' = Due(i)
                    \/ i = Len(queue) + 1 /\ At(i)' = x /\ Due(i)' <= Work
  OBVIOUS
<1>4. CASE i \in Places
  <2>1. At(i)' = At(i)
    BY <1>2, <1>4 DEF Places, At
  <2>2. Ahead(i)' = Ahead(i)
    BY <1>2, <1>4 DEF Places, Ahead
  <2>3. Due(i)' = Due(i)
    BY <1>3, <2>2 DEF Due
  <2> QED
    BY <1>4, <2>1, <2>3
<1>5. CASE i \notin Places
  <2>1. i = Len(queue) + 1 /\ At(i)' = x
    BY <1>2, <1>5 DEF Places, At
  <2>2. ASSUME NEW q \in Ahead(i)' PROVE q \in opened /\ job # Wanted(q)
    <3>1. PICK j \in 1..Len(queue) + 1 : q \in Pages /\ queue'[j] = Wanted(q)
      BY <2>1, <2>2 DEF Ahead
    <3>2. CASE j \in 1..Len(queue)
      <4>1. q \in Ahead(Len(queue)) /\ Len(queue) \in Places
        BY <1>2, <3>1, <3>2 DEF Ahead, Places
      <4> QED
        BY <4>1, AheadFacts
    <3>3. CASE j = Len(queue) + 1
      <4>1. x = Wanted(q)
        BY <1>2, <3>1, <3>3
      <4>2. job # x
        BY <1>2 DEF Somewhere, Places, At
      <4>3. q \in opened
        BY <3>1, <4>1, WantedDiffers DEF PacketInv, ClockTypes
      <4> QED
        BY <4>1, <4>2, <4>3
    <3> QED
      BY <1>2, <3>2, <3>3
  <2>3. Remaining + slowest * Load[Ahead(i)'] <= Work
    BY <2>2, WorkAhead
  <2>4. Due(i)' = Remaining + slowest * Load[Ahead(i)']
    BY <1>3 DEF Due
  <2> QED
    BY <2>1, <2>3, <2>4
<1> QED
  BY <1>4, <1>5

(* What the reader takes in hand was counted for, and everything behind it  *)
(* is due no later than before.                                             *)
LEMMA DueRead ==
    ASSUME PacketInv, Healthy, ReadPacket
    PROVE  /\ JobInTime'
           /\ \A i \in Places' : i + 1 \in Places /\ At(i)' = At(i + 1) /\ Due(i)' <= Due(i + 1)
<1>1. /\ job = Nothing /\ queue # <<>> /\ job' = Head(queue) /\ queue' = Tail(queue)
      /\ slowest' = slowest /\ opened' = opened /\ visit' = visit
  BY DEF ReadPacket
<1>2. /\ Len(queue) \in Nat \ {0} /\ Len(queue') = Len(queue) - 1
      /\ \A i \in 1..Len(queue) - 1 : queue'[i] = queue[i + 1]
      /\ job' = queue[1]
  BY <1>1, TailAt DEF PacketInv
<1>3. slowest \in Nat /\ visits = 0 /\ visit = 0 /\ Remaining = 0 /\ opened \in SUBSET Pages
  BY <1>1, PacketKinds, RemainingType DEF PacketInv, ClockTypes, VisitInv
<1>4. \A i \in Places' : i \in Nat /\ i + 1 \in Places /\ At(i)' = At(i + 1)
  BY <1>2 DEF Places, At
<1>5. Remaining' = slowest * visits'
  BY <1>1, <1>3 DEF Remaining
<1>6. 1 \in Places /\ At(1) = job'
  BY <1>2 DEF Places, At
<1>7. CASE \E p \in opened : job' = Wanted(p)
  <2>1. PICK p \in opened : job' = Wanted(p)
    BY <1>7
  <2>2. p \in Pages /\ job' \in Commands /\ job'.page = p
    BY <1>3, <2>1, PacketKinds DEF Wanted
  <2>3. visits' \in 0..Visits[p] /\ Visits[p] \in Nat
    BY <1>1, <2>2, TimesAssumption DEF ReadPacket
  <2>4. Remaining' <= slowest * Visits[p]
    BY <1>3, <1>5, <2>3, ProductMonotone
  <2>5. JobInTime'
    <3> SUFFICES ASSUME NEW q \in opened, job' = Wanted(q)
                 PROVE  Remaining' <= slowest' * Visits[q]
      BY <1>1 DEF JobInTime
    <3>1. q = p
      BY <1>3, <2>1, WantedDiffers
    <3> QED
      BY <1>1, <2>4, <3>1
  <2>6. ASSUME NEW i \in Places' PROVE Due(i)' <= Due(i + 1)
    <3>1. Ahead(i)' \in SUBSET Pages /\ p \notin Ahead(i)'
      <4>1. ASSUME NEW j \in 1..i, queue'[j] = Wanted(p) PROVE FALSE
        <5>1. j + 1 \in Places /\ At(j + 1) = Wanted(p) /\ At(1) = Wanted(p) /\ j + 1 # 1
          BY <1>2, <1>6, <2>1, <4>1 DEF Places, At
        <5> QED
          BY <1>6, <2>2, <5>1 DEF PacketInv, MatchInv, Unique
      <4> QED
        BY <4>1 DEF Ahead
    <3>2. Ahead(i)' \cup {p} \subseteq Ahead(i + 1)
      <4>1. ASSUME NEW q \in Ahead(i)' PROVE q \in Ahead(i + 1)
        <5>1. PICK j \in 1..i : q \in Pages /\ queue'[j] = Wanted(q)
          BY <4>1 DEF Ahead
        <5>2. j + 1 \in 1..i + 1 /\ queue[j + 1] = Wanted(q)
          BY <1>2, <1>4, <5>1 DEF Places
        <5> QED
          BY <5>1, <5>2 DEF Ahead
      <4>2. p \in Ahead(i + 1)
        <5>1. 1 \in 1..i + 1 /\ queue[1] = Wanted(p)
          BY <1>2, <1>4, <2>1
        <5> QED
          BY <2>2, <5>1 DEF Ahead
      <4> QED
        BY <4>1, <4>2
    <3>3. Ahead(i + 1) \in SUBSET Pages
      BY DEF Ahead
    <3>4. Load[Ahead(i)'] + Visits[p] <= Load[Ahead(i + 1)]
      <4>1. Load[Ahead(i)' \cup {p}] = Load[Ahead(i)'] + Visits[p]
        BY <2>2, <3>1, LoadFacts
      <4>2. Ahead(i)' \cup {p} \in SUBSET Pages
        BY <2>2, <3>1
      <4> QED
        BY <3>2, <3>3, <4>1, <4>2, LoadFacts
    <3>5. Load[Ahead(i)'] \in Nat /\ Load[Ahead(i + 1)] \in Nat
      BY <3>1, <3>3, LoadFacts
    <3>6. slowest * Load[Ahead(i)'] + slowest * Visits[p] <= slowest * Load[Ahead(i + 1)]
      <4>1. Load[Ahead(i)'] + Visits[p] \in Nat
        BY <2>3, <3>5
      <4>2. slowest * (Load[Ahead(i)'] + Visits[p]) <= slowest * Load[Ahead(i + 1)]
        BY <1>3, <3>4, <3>5, <4>1, ProductMonotone
      <4>3. slowest * (Load[Ahead(i)'] + Visits[p])
            = slowest * Load[Ahead(i)'] + slowest * Visits[p]
        BY <1>3, <2>3, <3>5, Products
      <4> QED
        BY <4>2, <4>3
    <3>7. slowest * Load[Ahead(i)'] \in Nat /\ slowest * Visits[p] \in Nat
          /\ slowest * Load[Ahead(i + 1)] \in Nat /\ slowest * visits' \in Nat
      <4>1. visits' \in Nat
        BY <2>3
      <4>2. slowest * visits' \in Nat
        BY <1>3, <4>1, Products
      <4>3. slowest * Load[Ahead(i)'] \in Nat
        BY <1>3, <3>5, Products
      <4>4. slowest * Load[Ahead(i + 1)] \in Nat
        BY <1>3, <3>5, Products
      <4>5. slowest * Visits[p] \in Nat
        BY <1>3, <2>3, Products
      <4> QED
        BY <4>2, <4>3, <4>4, <4>5
    <3>8. Due(i)' = Remaining' + slowest * Load[Ahead(i)']
      BY <1>1 DEF Due
    <3>9. Due(i + 1) = slowest * Load[Ahead(i + 1)]
      BY <1>3, <3>7 DEF Due
    <3> QED
      BY <1>5, <2>4, <3>6, <3>7, <3>8, <3>9
  <2> QED
    BY <1>4, <2>5, <2>6
<1>8. CASE \A p \in opened : job' # Wanted(p)
  <2>1. job' \notin Commands
    <3>1. job' \in {Result("ok"), Nothing}
      BY <1>6, <1>8 DEF Healthy
    <3>2. Result("ok") \notin Commands /\ Nothing \notin Commands
      BY PacketKinds
    <3> QED
      BY <3>1, <3>2
  <2>2. Remaining' = 0
    BY <1>1, <1>3, <1>5, <2>1, Products DEF ReadPacket
  <2>3. JobInTime'
    BY <1>1, <1>8 DEF JobInTime
  <2>4. ASSUME NEW i \in Places' PROVE Due(i)' <= Due(i + 1)
    <3>1. Ahead(i)' \in SUBSET Pages /\ Ahead(i + 1) \in SUBSET Pages
      BY DEF Ahead
    <3>2. ASSUME NEW q \in Ahead(i)' PROVE q \in Ahead(i + 1)
      <4>1. PICK j \in 1..i : q \in Pages /\ queue'[j] = Wanted(q)
        BY <3>2 DEF Ahead
      <4>2. j + 1 \in 1..i + 1 /\ queue[j + 1] = Wanted(q)
        BY <1>2, <1>4, <4>1 DEF Places
      <4> QED
        BY <4>1, <4>2 DEF Ahead
    <3>3. /\ Load[Ahead(i)'] \in Nat /\ Load[Ahead(i + 1)] \in Nat
          /\ Load[Ahead(i)'] <= Load[Ahead(i + 1)]
      BY <3>1, <3>2, LoadFacts
    <3>4. /\ slowest * Load[Ahead(i)'] <= slowest * Load[Ahead(i + 1)]
          /\ slowest * Load[Ahead(i)'] \in Nat /\ slowest * Load[Ahead(i + 1)] \in Nat
      BY <1>3, <3>3, Products, ProductMonotone
    <3>5. Due(i)' = Remaining' + slowest * Load[Ahead(i)']
      BY <1>1 DEF Due
    <3>6. Due(i + 1) = slowest * Load[Ahead(i + 1)]
      BY <1>3, <3>4 DEF Due
    <3> QED
      BY <2>2, <3>4, <3>5, <3>6
  <2> QED
    BY <1>4, <2>3, <2>4
<1> QED
  BY <1>7, <1>8

-----------------------------------------------------------------------------
(* Steps of a session in which nobody gives up *)

\* The packet at place i was there or further back before the step, and the
\* reader is done with it d units sooner.
Comes(i, d) == \E k \in Places : At(i)' = At(k) /\ Due(i)' <= Due(k) - d

(* The times of the next state are numbers as well.                         *)
LEMMA DueTypeNext ==
    PacketInv /\ [ClockNext]_clockVars => Remaining' \in Nat /\ \A i : Due(i)' \in Nat
<1>1. ClockTypes /\ VisitInv => Remaining \in Nat /\ \A i : Due(i) \in Nat
  BY DueType, RemainingType
<1>2. (ClockTypes /\ VisitInv => Remaining \in Nat /\ \A i : Due(i) \in Nat)'
  BY <1>1, PTL
<1> QED
  BY <1>2, ClockTypesStep, VisitStep DEF PacketInv

(* The reader asks a slave, is done with its packet or takes the next one.  *)
LEMMA ReaderMoves ==
    ASSUME PacketInv, Healthy, JobInTime, [ClockNext]_clockVars,
           AskSlave \/ Return \/ TakeResult \/ ReadPacket \/ UNCHANGED clockVars
    PROVE  /\ JobInTime' /\ UNCHANGED <<slowest, opened, left, gaveUp, age, ticker, tick>>
           /\ loop' = loop \/ TakeResult
           /\ \A i \in Places' : At(i)' = Nothing \/ Comes(i, 0)
<1>1. /\ UNCHANGED <<slowest, opened, left, gaveUp, age, ticker, tick>>
      /\ loop' = loop \/ TakeResult
  BY DEF AskSlave, Return, TakeResult, ReadPacket, clockVars, pageVars, loopVars
<1>2. \A i : Due(i) \in Nat /\ Due(i)' \in Nat
  BY DueType, DueTypeNext DEF PacketInv
<1>3. ASSUME UNCHANGED <<queue, job, slowest, opened>>, Remaining' <= Remaining
      PROVE  JobInTime' /\ \A i \in Places' : Comes(i, 0)
  <2>1. Remaining \in Nat /\ slowest \in Nat /\ opened \in SUBSET Pages
    BY RemainingType DEF PacketInv, ClockTypes
  <2>2. Remaining' \in Nat
    BY DueTypeNext
  <2>3. JobInTime'
    <3> SUFFICES ASSUME NEW p \in opened, job = Wanted(p)
                 PROVE  Remaining' <= slowest * Visits[p]
      BY <1>3 DEF JobInTime
    <3>1. Remaining <= slowest * Visits[p]
      BY DEF JobInTime
    <3>2. Visits[p] \in Nat
      BY <2>1, TimesAssumption
    <3>3. slowest * Visits[p] \in Nat
      BY <2>1, <3>2, Products
    <3> QED
      BY <1>3, <2>1, <2>2, <3>1, <3>3
  <2>4. ASSUME NEW i \in Places' PROVE Comes(i, 0)
    <3>1. i \in Places /\ At(i)' = At(i) /\ Ahead(i)' = Ahead(i)
      BY <1>3 DEF Places, At, Ahead
    <3>2. slowest * Load[Ahead(i)] \in Nat
      BY DueType DEF PacketInv
    <3>3. /\ Due(i) = Remaining + slowest * Load[Ahead(i)]
          /\ Due(i)' = Remaining' + slowest * Load[Ahead(i)]
      BY <1>3, <3>1 DEF Due
    <3>4. Due(i)' <= Due(i) - 0
      BY <1>3, <2>1, <2>2, <3>2, <3>3
    <3> QED
      BY <3>1, <3>4 DEF Comes
  <2> QED
    BY <2>3, <2>4
<1>4. CASE AskSlave
  BY <1>1, <1>3, <1>4, RemainingAsk DEF AskSlave, PacketInv
<1>5. CASE UNCHANGED clockVars
  <2>1. Remaining' <= Remaining
    BY <1>5, RemainingType DEF clockVars, Remaining, PacketInv
  <2> QED
    BY <1>1, <1>3, <1>5, <2>1 DEF clockVars
<1>6. ASSUME job' = Nothing, UNCHANGED <<queue, visits, visit>>
      PROVE  JobInTime' /\ \A i \in Places' : At(i)' = Nothing \/ Comes(i, 0)
  <2>1. JobInTime'
    <3>1. \A p \in opened : Nothing # Wanted(p)
      BY WantedDiffers DEF PacketInv, ClockTypes
    <3> QED
      BY <1>1, <1>6, <3>1 DEF JobInTime
  <2>2. ASSUME NEW i \in Places' PROVE At(i)' = Nothing \/ Comes(i, 0)
    <3>1. CASE i = 0
      BY <1>6, <3>1 DEF At
    <3>2. CASE i # 0
      <4>1. i \in Places /\ At(i)' = At(i) /\ Ahead(i)' = Ahead(i) /\ Remaining' = Remaining
        BY <1>1, <1>6, <3>2 DEF Places, At, Ahead, Remaining
      <4>2. Due(i)' <= Due(i) - 0
        BY <1>1, <1>2, <4>1 DEF Due
      <4> QED
        BY <4>1, <4>2 DEF Comes
    <3> QED
      BY <3>1, <3>2
  <2> QED
    BY <2>1, <2>2
<1>7. CASE Return
  <2>1. PICK p \in opened : job = Wanted(p)
    <3>1. job \in {Wanted(p) : p \in opened} \cup {Result("ok"), Nothing} /\ job \in Commands
      BY <1>7 DEF Healthy, Places, At, PacketInv, ClockTypes, Return
    <3>2. Result("ok") \notin Commands /\ Nothing \notin Commands
      BY PacketKinds
    <3> QED
      BY <3>1, <3>2
  <2>2. job.wanted
    BY <2>1, PacketKinds DEF Wanted, PacketInv, ClockTypes
  <2> QED
    BY <1>1, <1>6, <1>7, <2>2 DEF Return
<1>8. CASE TakeResult
  BY <1>1, <1>6, <1>8 DEF TakeResult
<1>9. CASE ReadPacket
  <2>1. \A i \in Places' : Comes(i, 0)
    <3> TAKE i \in Places'
    <3>1. i + 1 \in Places /\ At(i)' = At(i + 1) /\ Due(i)' <= Due(i + 1)
      BY <1>9, DueRead
    <3>2. Due(i)' <= Due(i + 1) - 0
      BY <1>2, <3>1
    <3> QED
      BY <3>1, <3>2 DEF Comes
  <2> QED
    BY <1>1, <1>9, <2>1, DueRead
<1> QED
  BY <1>4, <1>5, <1>7, <1>8, <1>9

(* While the clock runs the reader waits for a slave, or nobody waits for   *)
(* the reader.                                                              *)
LEMMA TickMoves ==
    ASSUME PacketInv, Healthy, JobInTime, Tick
    PROVE  JobInTime' /\ \A i \in Places' : At(i)' = Nothing \/ Comes(i, 1)
<1>1. /\ UNCHANGED <<slowest, opened, queue, job>>
      /\ Places' = Places /\ \A i : At(i)' = At(i) /\ Ahead(i)' = Ahead(i)
  BY DEF Tick, Places, At, Ahead
<1>2. slowest \in Nat /\ Remaining \in Nat /\ opened \in SUBSET Pages /\ visit \in Nat
  BY RemainingType DEF PacketInv, ClockTypes
<1>3. CASE visit > 0
  <2>1. Remaining' <= Remaining - 1
    BY <1>3, RemainingTick DEF PacketInv
  <2>2. Remaining' \in Nat
    BY DueTypeNext DEF ClockNext
  <2>3. JobInTime'
    <3> SUFFICES ASSUME NEW p \in opened, job = Wanted(p)
                 PROVE  Remaining' <= slowest * Visits[p]
      BY <1>1 DEF JobInTime
    <3>1. Remaining <= slowest * Visits[p] /\ Visits[p] \in Nat
      BY <1>2, TimesAssumption DEF JobInTime
    <3>2. slowest * Visits[p] \in Nat
      BY <1>2, <3>1, Products
    <3> QED
      BY <1>2, <2>1, <2>2, <3>1, <3>2
  <2>4. ASSUME NEW i \in Places' PROVE Comes(i, 1)
    <3>1. slowest * Load[Ahead(i)] \in Nat
      BY DueType DEF PacketInv
    <3>2. /\ Due(i) = Remaining + slowest * Load[Ahead(i)]
          /\ Due(i)' = Remaining' + slowest * Load[Ahead(i)]
      BY <1>1 DEF Due
    <3>3. Due(i)' <= Due(i) - 1
      BY <1>2, <2>1, <2>2, <3>1, <3>2
    <3> QED
      BY <1>1, <3>3 DEF Comes
  <2> QED
    BY <2>3, <2>4
<1>4. CASE visit = 0
  <2>1. job = Nothing /\ queue = <<>>
    <3>1. ASSUME job \in Results, loop # "await" PROVE FALSE
      <4>1. loop = "idle" /\ 0 \in Places /\ At(0) = job
        BY <3>1 DEF Healthy, PacketInv, ClockTypes, Places, At
      <4>2. job # Result("ok")
        BY <4>1 DEF PacketInv, MatchInv, Somewhere
      <4>3. job = Result("error")
        BY <3>1, <4>2 DEF Results
      <4>4. \A p \in opened : Wanted(p) # Result("error")
        BY <1>2, WantedDiffers
      <4>5. Result("error") # Result("ok") /\ Result("error") # Nothing
        BY PacketKinds
      <4> QED
        BY <4>1, <4>3, <4>4, <4>5 DEF Healthy
    <3> QED
      BY <1>2, <1>4, <3>1 DEF Tick, ReaderIsBusy
  <2>2. Places = {0} /\ At(0) = Nothing
    BY <2>1 DEF Places, At
  <2>3. \A p \in opened : Nothing # Wanted(p)
    BY <1>2, WantedDiffers
  <2> QED
    BY <1>1, <2>1, <2>2, <2>3 DEF JobInTime
<1> QED
  BY <1>2, <1>3, <1>4

(* How fast the slaves are and which pages are open does not change.        *)
LEMMA WorkKept ==
    ASSUME PacketInv, [ClockNext]_clockVars
    PROVE  /\ UNCHANGED <<slowest, opened>> /\ Work' = Work /\ (Fits' <=> Fits)
           /\ Work \in Nat
<1>1. UNCHANGED <<slowest, opened>>
  BY DEF ClockNext, Submit, PageTimesOut, ReadPacket, AskSlave, Return, SendHeartbeat, TakeResult,
         Tick, clockVars
<1>2. slowest \in Nat /\ Load[opened] \in Nat
  BY LoadFacts DEF PacketInv, ClockTypes
<1>3. Work \in Nat
  BY <1>2, Products DEF Work
<1> QED
  BY <1>1, <1>3 DEF Work, Fits

(* If the work of all open pages fits, no timer runs out.                   *)
LEMMA NobodyGivesUp ==
    ASSUME PacketInv, Fits, Healthy, PagesInTime, NEW p \in Pages, PageTimesOut(p)
    PROVE  FALSE
<1>1. page[p] = "waiting" /\ left[p] = 0
  BY DEF PageTimesOut
<1>2. PICK i \in Places : At(i) = Wanted(p)
  BY <1>1 DEF PacketInv, MatchInv, Somewhere
<1>3. p \in opened
  <2>1. Wanted(p) \in {Wanted(q) : q \in opened}
    BY <1>2, WantedDiffers DEF Healthy
  <2>2. PICK q \in opened : Wanted(p) = Wanted(q)
    BY <2>1
  <2>3. q \in Pages
    BY DEF PacketInv, ClockTypes
  <2> QED
    BY <2>2, <2>3, WantedDiffers
<1>4. PageTimeout[p] + Due(i) <= Work + 0
  BY <1>1, <1>2, <1>3 DEF PagesInTime
<1>5. Work < PageTimeout[p]
  BY <1>3 DEF Fits
<1>6. PageTimeout[p] \in Nat /\ Due(i) \in Nat
  BY DueType, TimesAssumption DEF PacketInv
<1>7. Work \in Nat
  <2>1. slowest \in Nat /\ Load[opened] \in Nat
    BY LoadFacts DEF PacketInv, ClockTypes
  <2> QED
    BY <2>1, Products DEF Work
<1> QED
  BY <1>4, <1>5, <1>6, <1>7

(* Every step keeps the pages in time.                                      *)
LEMMA TimelyStep == PacketInv /\ TimelyInv /\ [ClockNext]_clockVars => TimelyInv'
<1> SUFFICES ASSUME PacketInv, Fits, Healthy, JobInTime, PagesInTime, [ClockNext]_clockVars
             PROVE  Healthy' /\ JobInTime' /\ PagesInTime'
  BY WorkKept DEF TimelyInv
<1>0. /\ UNCHANGED <<slowest, opened>> /\ Work' = Work /\ Work \in Nat
      /\ opened \in SUBSET Pages /\ left \in [Pages -> Nat]
      /\ \A p \in Pages : PageTimeout[p] \in Nat
      /\ \A i : Due(i) \in Nat /\ Due(i)' \in Nat
  BY WorkKept, DueType, DueTypeNext, TimesAssumption DEF PacketInv, ClockTypes
<1> DEFINE Good == {Wanted(p) : p \in opened} \cup {Result("ok"), Nothing}
<1>1. \A p \in opened : /\ Wanted(p) # Nothing /\ Wanted(p) # Result("ok")
                        /\ \A q \in opened : Wanted(p) = Wanted(q) => p = q
  BY <1>0, WantedDiffers
<1>2. ASSUME AskSlave \/ Return \/ TakeResult \/ ReadPacket \/ UNCHANGED clockVars
      PROVE  Healthy' /\ JobInTime' /\ PagesInTime'
  <2>1. /\ JobInTime' /\ UNCHANGED <<left, gaveUp>> /\ (loop' = loop \/ TakeResult)
        /\ \A i \in Places' : At(i)' = Nothing \/ Comes(i, 0)
    BY <1>2, ReaderMoves
  <2>2. loop' # "ended"
    <3>1. CASE loop' = loop
      BY <3>1 DEF Healthy
    <3>2. CASE TakeResult
      <4>1. job \in Results /\ job \in Good
        BY <3>2 DEF TakeResult, Healthy, Places, At, PacketInv, ClockTypes
      <4>2. job \notin Commands /\ job # Nothing
        BY <4>1, PacketKinds
      <4>3. \A p \in opened : Wanted(p) \in Commands
        BY <1>0, WantedDiffers
      <4>4. job = Result("ok")
        BY <4>1, <4>2, <4>3
      <4> QED
        BY <3>2, <4>4 DEF TakeResult
    <3> QED
      BY <2>1, <3>1, <3>2
  <2>3. \A i \in Places' : At(i)' \in Good
    BY <2>1 DEF Comes, Healthy
  <2>4. PagesInTime'
    <3> SUFFICES ASSUME NEW i \in Places', NEW p \in opened, At(i)' = Wanted(p)
                 PROVE  PageTimeout[p] + Due(i)' <= Work + left[p]
      BY <1>0, <2>1 DEF PagesInTime
    <3>1. PICK k \in Places : At(k) = Wanted(p) /\ Due(i)' <= Due(k) - 0
      BY <1>1, <2>1 DEF Comes
    <3>2. PageTimeout[p] + Due(k) <= Work + left[p]
      BY <3>1 DEF PagesInTime
    <3>3. left[p] \in Nat /\ PageTimeout[p] \in Nat
      BY <1>0
    <3> QED
      BY <1>0, <3>1, <3>2, <3>3
  <2> QED
    BY <1>0, <2>1, <2>2, <2>3, <2>4 DEF Healthy
<1>3. ASSUME NEW p \in Pages, Submit(p) PROVE Healthy' /\ JobInTime' /\ PagesInTime'
  <2>1. /\ p \in opened /\ page[p] = "idle" /\ queue' = Append(queue, Wanted(p))
        /\ UNCHANGED <<slowest, job, visits, visit, gaveUp, loop>>
        /\ left' = [left EXCEPT ![p] = PageTimeout[p]]
    BY <1>3 DEF Submit, readerVars, loopVars, Wanted
  <2>2. ~Somewhere(Wanted(p))
    BY <2>1 DEF PacketInv, MatchInv
  <2>3. \A i \in Places' : \/ i \in Places /\ At(i)' = At(i) /\ Due(i)' = Due(i)
                           \/ i = Len(queue) + 1 /\ At(i)' = Wanted(p) /\ Due(i)' <= Work
    BY <2>1, <2>2, DueWrite
  <2>4. JobInTime'
    BY <1>0, <2>1 DEF JobInTime, Remaining
  <2>5. Healthy'
    BY <1>0, <2>1, <2>3 DEF Healthy
  <2>6. PagesInTime'
    <3> SUFFICES ASSUME NEW i \in Places', NEW q \in opened, At(i)' = Wanted(q)
                 PROVE  PageTimeout[q] + Due(i)' <= Work + left'[q]
      BY <1>0 DEF PagesInTime
    <3>1. CASE i \in Places /\ At(i)' = At(i) /\ Due(i)' = Due(i)
      <4>1. q # p
        BY <2>2, <3>1 DEF Somewhere
      <4>2. left'[q] = left[q]
        BY <1>0, <2>1, <4>1
      <4> QED
        BY <3>1, <4>2 DEF PagesInTime
    <3>2. CASE At(i)' = Wanted(p) /\ Due(i)' <= Work
      <4>1. q = p
        BY <1>1, <2>1, <3>2
      <4>2. left'[q] = PageTimeout[q] /\ PageTimeout[q] \in Nat
        BY <1>0, <2>1, <4>1
      <4> QED
        BY <1>0, <3>2, <4>2
    <3> QED
      BY <2>3, <3>1, <3>2
  <2> QED
    BY <2>4, <2>5, <2>6
<1>4. ASSUME SendHeartbeat PROVE Healthy' /\ JobInTime' /\ PagesInTime'
  <2>1. /\ loop = "idle" /\ loop' = "await" /\ queue' = Append(queue, Result("ok"))
        /\ UNCHANGED <<slowest, job, visits, visit, gaveUp, left>>
    BY <1>4 DEF SendHeartbeat, readerVars, pageVars
  <2>2. ~Somewhere(Result("ok"))
    BY <2>1 DEF PacketInv, MatchInv
  <2>3. \A i \in Places' : \/ i \in Places /\ At(i)' = At(i) /\ Due(i)' = Due(i)
                           \/ i = Len(queue) + 1 /\ At(i)' = Result("ok") /\ Due(i)' <= Work
    BY <2>1, <2>2, DueWrite
  <2>4. JobInTime'
    BY <1>0, <2>1 DEF JobInTime, Remaining
  <2>5. Healthy'
    BY <1>0, <2>1, <2>3 DEF Healthy
  <2>6. PagesInTime'
    BY <1>0, <1>1, <2>1, <2>3 DEF PagesInTime
  <2> QED
    BY <2>4, <2>5, <2>6
<1>5. ASSUME Tick PROVE Healthy' /\ JobInTime' /\ PagesInTime'
  <2>1. JobInTime' /\ \A i \in Places' : At(i)' = Nothing \/ Comes(i, 1)
    BY <1>5, TickMoves
  <2>2. Healthy'
    BY <1>0, <1>5 DEF Tick, Healthy, Places, At
  <2>3. PagesInTime'
    <3> SUFFICES ASSUME NEW i \in Places', NEW p \in opened, At(i)' = Wanted(p)
                 PROVE  PageTimeout[p] + Due(i)' <= Work + left'[p]
      BY <1>0 DEF PagesInTime
    <3>1. PICK k \in Places : At(k) = Wanted(p) /\ Due(i)' <= Due(k) - 1
      BY <1>1, <2>1 DEF Comes
    <3>2. PageTimeout[p] + Due(k) <= Work + left[p]
      BY <3>1 DEF PagesInTime
    <3>3. page[p] = "waiting"
      BY <1>0, <3>1 DEF PacketInv, MatchInv, Somewhere
    <3>4. left'[p] = left[p] - 1 /\ left[p] \in Nat /\ PageTimeout[p] \in Nat
      BY <1>0, <1>5, <3>3 DEF Tick
    <3> QED
      BY <1>0, <3>1, <3>2, <3>4
  <2> QED
    BY <2>1, <2>2, <2>3
<1>6. ASSUME NEW p \in Pages, PageTimesOut(p) PROVE FALSE
  BY <1>6, NobodyGivesUp
<1> QED
  BY <1>2, <1>3, <1>4, <1>5, <1>6 DEF ClockNext

(* Every step keeps the store's entry young enough.                         *)
LEMMA OnlineStep == PacketInv /\ TimelyInv /\ OnlineInv /\ [ClockNext]_clockVars => OnlineInv'
<1> SUFFICES ASSUME PacketInv, Fits, Healthy, JobInTime, PagesInTime, EntryInTime, [ClockNext]_clockVars,
                    Interval <= Ttl, Work <= Ttl
             PROVE  EntryInTime'
  BY WorkKept DEF TimelyInv, OnlineInv
<1>0. /\ Work' = Work /\ Work \in Nat /\ opened \in SUBSET Pages
      /\ age \in Nat /\ ticker \in 1..Interval /\ Interval \in Nat /\ Ttl \in Nat
      /\ \A i : Due(i) \in Nat /\ Due(i)' \in Nat
  BY WorkKept, DueType, DueTypeNext, TimesAssumption DEF PacketInv, ClockTypes
<1>1. Result("ok") # Nothing /\ \A p \in opened : Wanted(p) # Result("ok")
  BY <1>0, WantedDiffers, PacketKinds
<1>2. ASSUME AskSlave \/ Return \/ TakeResult \/ ReadPacket \/ UNCHANGED clockVars PROVE EntryInTime'
  <2>1. /\ UNCHANGED <<age, ticker, tick>>
        /\ \A i \in Places' : At(i)' = Nothing \/ Comes(i, 0)
    BY <1>2, ReaderMoves
  <2>2. ASSUME NEW i \in Places', At(i)' = Result("ok") PROVE age + Due(i)' <= Work
    <3>1. PICK k \in Places : At(k) = Result("ok") /\ Due(i)' <= Due(k) - 0
      BY <1>1, <2>1, <2>2 DEF Comes
    <3>2. age + Due(k) <= Work
      BY <3>1 DEF EntryInTime
    <3> QED
      BY <1>0, <3>1, <3>2
  <2> QED
    BY <1>0, <2>1, <2>2 DEF EntryInTime
<1>3. ASSUME NEW p \in Pages, Submit(p) PROVE EntryInTime'
  <2>1. /\ p \in opened /\ page[p] = "idle" /\ queue' = Append(queue, Wanted(p))
        /\ UNCHANGED <<slowest, job, visits, visit, age, ticker, tick>>
    BY <1>3 DEF Submit, readerVars, loopVars, Wanted
  <2>2. ~Somewhere(Wanted(p))
    BY <2>1 DEF PacketInv, MatchInv
  <2>3. \A i \in Places' : \/ i \in Places /\ At(i)' = At(i) /\ Due(i)' = Due(i)
                           \/ i = Len(queue) + 1 /\ At(i)' = Wanted(p) /\ Due(i)' <= Work
    BY <2>1, <2>2, DueWrite
  <2> QED
    BY <1>0, <1>1, <2>1, <2>3 DEF EntryInTime
<1>4. ASSUME SendHeartbeat PROVE EntryInTime'
  <2>1. /\ loop = "idle" /\ queue' = Append(queue, Result("ok")) /\ age' = 0
        /\ UNCHANGED <<slowest, job, visits, visit, ticker>>
    BY <1>4 DEF SendHeartbeat, readerVars
  <2>2. ~Somewhere(Result("ok"))
    BY <2>1 DEF PacketInv, MatchInv
  <2>3. \A i \in Places' : \/ i \in Places /\ At(i)' = At(i) /\ Due(i)' = Due(i)
                           \/ i = Len(queue) + 1 /\ At(i)' = Result("ok") /\ Due(i)' <= Work
    BY <2>1, <2>2, DueWrite
  <2>4. ASSUME NEW i \in Places', At(i)' = Result("ok") PROVE age' + Due(i)' <= Work
    <3>1. Due(i)' <= Work
      BY <2>2, <2>3, <2>4 DEF Somewhere
    <3> QED
      BY <1>0, <2>1, <3>1
  <2> QED
    BY <1>0, <2>1, <2>4 DEF EntryInTime
<1>5. ASSUME Tick PROVE EntryInTime'
  <2>1. \A i \in Places' : At(i)' = Nothing \/ Comes(i, 1)
    BY <1>5, TickMoves
  <2>2. age' = age + 1 /\ Places' = Places /\ \A i : At(i)' = At(i)
    BY <1>0, <1>5 DEF Tick, EntryInTime, Places, At
  <2>3. ASSUME NEW i \in Places', At(i)' = Result("ok") PROVE age + 1 + Due(i)' <= Work
    <3>1. PICK k \in Places : At(k) = Result("ok") /\ Due(i)' <= Due(k) - 1
      BY <1>1, <2>1, <2>3 DEF Comes
    <3>2. age + Due(k) <= Work
      BY <3>1 DEF EntryInTime
    <3> QED
      BY <1>0, <3>1, <3>2
  <2>4. ~tick' => age + 1 + ticker' <= Interval
    <3> SUFFICES ASSUME ~tick' PROVE age + 1 + ticker' <= Interval
      OBVIOUS
    <3>1. ticker' = ticker - 1 /\ ~tick
      BY <1>5 DEF Tick, FireTicker
    <3> QED
      BY <1>0, <3>1 DEF EntryInTime
  <2>5. age + 1 <= Ttl
    <3>1. CASE loop = "await"
      <4>1. PICK i \in Places : At(i) = Result("ok")
        BY <3>1 DEF PacketInv, MatchInv, Somewhere
      <4>2. age + 1 + Due(i)' <= Work
        BY <2>2, <2>3, <4>1
      <4> QED
        BY <1>0, <4>2
    <3>2. CASE loop # "await"
      <4>1. ~tick
        BY <1>5, <3>2 DEF Tick, Healthy, PacketInv, ClockTypes
      <4>2. age + ticker <= Interval
        BY <4>1 DEF EntryInTime
      <4> QED
        BY <1>0, <4>2
    <3> QED
      BY <3>1, <3>2
  <2> QED
    BY <1>0, <2>2, <2>3, <2>4, <2>5 DEF EntryInTime
<1>6. ASSUME NEW p \in Pages, PageTimesOut(p) PROVE FALSE
  BY <1>6, NobodyGivesUp
<1> QED
  BY <1>2, <1>3, <1>4, <1>5, <1>6 DEF ClockNext

-----------------------------------------------------------------------------
(* The session with the clock: theorems *)

ClockInv == PacketInv /\ TimelyInv /\ OnlineInv

(* A session starts with no packet under way and a fresh entry.             *)
LEMMA ClockInvInit == ClockInit => ClockInv
<1> SUFFICES ASSUME ClockInit PROVE ClockInv
  OBVIOUS
<1>1. ClockTypes
  <2>1. slowest \in Nat /\ opened \in SUBSET Pages
    BY TimesAssumption DEF ClockInit
  <2>2. queue \in Seq(Commands \cup Results)
    BY DEF ClockInit
  <2>3. page \in [Pages -> {"idle", "waiting"}] /\ left \in [Pages -> Nat]
    BY DEF ClockInit
  <2>4. ticker \in 1..Interval
    BY TimesAssumption DEF ClockInit
  <2> QED
    BY <2>1, <2>2, <2>3, <2>4 DEF ClockInit, ClockTypes
<1>2. VisitInv
  BY DEF ClockInit, VisitInv
<1>3. Places = {0} /\ At(0) = Nothing
  BY DEF ClockInit, Places, At
<1>4. Nothing # Result("ok") /\ \A p \in Pages : Nothing # Wanted(p)
  BY WantedDiffers, PacketKinds
<1>5. MatchInv
  BY <1>3, <1>4 DEF ClockInit, MatchInv, Unique, Somewhere
<1>6. TimelyInv
  BY <1>1, <1>3, <1>4
  DEF ClockInit, TimelyInv, Healthy, JobInTime, PagesInTime, ClockTypes, At
<1>7. OnlineInv
  BY <1>3, <1>4, TimesAssumption DEF ClockInit, OnlineInv, EntryInTime
<1> QED
  BY <1>1, <1>2, <1>5, <1>6, <1>7 DEF ClockInv, PacketInv

(* The invariant of the session with the clock holds in every behaviour.    *)
LEMMA ClockInvariance == ClockSpec => []ClockInv
<1>1. ClockInv /\ [ClockNext]_clockVars => ClockInv'
  BY ClockTypesStep, VisitStep, MatchStep, TimelyStep, OnlineStep DEF ClockInv, PacketInv
<1> QED
  BY <1>1, ClockInvInit, PTL DEF ClockSpec

(* Copies counts the places of a packet: none, or one if it is unique.      *)
LEMMA CopiesCount ==
    ASSUME ClockTypes, NEW x, Unique(x)
    PROVE  Copies(x) = IF Somewhere(x) THEN 1 ELSE 0
<1> DEFINE places == {i \in 1..Len(queue) : queue[i] = x}
<1>0. Len(queue) \in Nat
  BY DEF ClockTypes
<1>1. CASE job = x
  <2>1. Somewhere(x) /\ places = {}
    BY <1>0, <1>1 DEF Somewhere, Unique, Places, At
  <2>2. Cardinality(places) = 0
    BY <2>1, FS_EmptySet
  <2> QED
    BY <1>1, <2>1, <2>2 DEF Copies
<1>2. CASE job # x /\ Somewhere(x)
  <2>1. PICK i \in 1..Len(queue) : queue[i] = x
    BY <1>0, <1>2 DEF Somewhere, Places, At
  <2>2. places = {i}
    BY <1>0, <2>1 DEF Unique, Places, At
  <2>3. Cardinality(places) = 1
    BY <2>2, FS_Singleton
  <2> QED
    BY <1>2, <2>3 DEF Copies
<1>3. CASE ~Somewhere(x)
  <2>1. job # x /\ places = {}
    BY <1>0, <1>3 DEF Somewhere, Places, At
  <2>2. Cardinality(places) = 0
    BY <2>1, FS_EmptySet
  <2> QED
    BY <1>3, <2>1, <2>2 DEF Copies
<1> QED
  BY <1>1, <1>2, <1>3

(* However late pages and slaves are, a page that waits has its one command *)
(* under way and one that does not wait has none; connectLoop awaits an     *)
(* answer exactly if one is under way, until the session ends.              *)
THEOREM WaitersMatchThm == ClockSpec => []WaitersMatchPackets
<1>1. ClockInv => WaitersMatchPackets
  <2> SUFFICES ASSUME ClockInv PROVE WaitersMatchPackets
    OBVIOUS
  <2>1. ASSUME NEW p \in Pages
        PROVE  Copies(Wanted(p)) = IF page[p] = "waiting" THEN 1 ELSE 0
    BY CopiesCount DEF ClockInv, PacketInv, MatchInv
  <2>2. ASSUME loop # "ended" PROVE Copies(Result("ok")) = IF loop = "await" THEN 1 ELSE 0
    BY <2>2, CopiesCount DEF ClockInv, PacketInv, MatchInv
  <2>3. loop # "ended" => Copies(Result("ok")) <= 1
    BY <2>2
  <2>4. loop = "await" => Copies(Result("ok")) = 1
    BY <2>2
  <2> QED
    BY <2>1, <2>3, <2>4 DEF WaitersMatchPackets, Wanted
<1> QED
  BY <1>1, ClockInvariance, PTL

(* If the slaves are fast enough for the commands of all open pages one     *)
(* after the other, no page gives up and the session goes on, in whatever   *)
(* order sendRequest, readOrchestratorLoop and connectLoop run.             *)
THEOREM PagesInTimeThm == ClockSpec => []PagesAnsweredInTime
<1>1. ClockInv => PagesAnsweredInTime
  BY DEF ClockInv, TimelyInv, Healthy, PagesAnsweredInTime
<1> QED
  BY <1>1, ClockInvariance, PTL

(* If the time to live covers the ticker's interval and that work as well,  *)
(* the store's entry of a connected master never expires.                   *)
THEOREM StaysOnlineThm == ClockSpec => []BusyMasterStaysOnline
<1>1. ClockInv => BusyMasterStaysOnline
  BY DEF ClockInv, OnlineInv, EntryInTime, BusyMasterStaysOnline
<1> QED
  BY <1>1, ClockInvariance, PTL

-----------------------------------------------------------------------------
(***************************************************************************)
(* The session without the clock.  Each call is in one place at most: on   *)
(* its way to the master, in the hands of the reader, or on its way back.  *)
(* While no caller has given up, each of them still waits, so that every   *)
(* reply is resolved and only updates are answered.                        *)
(***************************************************************************)
Has(s, S) == \E i \in 1..Len(s) : s[i] \in S
Single(s, S) == \A i, j \in 1..Len(s) : s[i] \in S /\ s[j] \in S => i = j

ToOrch == Calls \cup {"update"}
ToMaster == Calls \cup Answers

\* The reader runs the command of call r.
Runs(r) == reader = "command" /\ serving = r
ServesInv == reader = "command" => serving \in Calls

\* Call r is in one place at most, only after it was made, and until some
\* caller gives up its own caller waits.
CallInv(r) ==
    /\ Single(toMaster, {r}) /\ Single(toOrch, {r})
    /\ ~(Has(toMaster, {r}) /\ Runs(r))
    /\ ~(Has(toMaster, {r}) /\ Has(toOrch, {r}))
    /\ ~(Runs(r) /\ Has(toOrch, {r}))
    /\ Has(toMaster, {r}) \/ Runs(r) \/ Has(toOrch, {r}) =>
           call[r] # "idle" /\ (orch = "open" /\ timeouts = 0 => r \in pend)

\* The update connectLoop waits for: under way, answered, or offered.
UpdateInv ==
    main # "ended" /\ timeouts = 0 =>
        /\ main # "await" =>
               ~Has(toOrch, {"update"}) /\ ~Has(toMaster, Answers) /\ reader # "offer"
        /\ Single(toOrch, {"update"}) /\ Single(toMaster, Answers)
        /\ ~(Has(toOrch, {"update"}) /\ Has(toMaster, Answers))
        /\ reader = "offer" => ~Has(toOrch, {"update"}) /\ ~Has(toMaster, Answers)

SessionInv == TypeOK /\ ServesInv /\ (\A r \in Calls : CallInv(r)) /\ UpdateInv

(* What a packet written changes of what is under way.                      *)
LEMMA HasAppend ==
    ASSUME NEW T, NEW s \in Seq(T), NEW x \in T, NEW S
    PROVE  /\ Append(s, x) \in Seq(T)
           /\ Has(Append(s, x), S) <=> Has(s, S) \/ x \in S
           /\ x \notin S /\ Single(s, S) => Single(Append(s, x), S)
           /\ ~Has(s, S) => Single(Append(s, x), S)
<1> DEFINE t == Append(s, x)
<1>1. /\ Len(s) \in Nat /\ t \in Seq(T) /\ Len(t) = Len(s) + 1
      /\ \A i \in 1..Len(s) : t[i] = s[i]
      /\ t[Len(s) + 1] = x
  OBVIOUS
<1> HIDE DEF t
<1>2. \A i \in 1..Len(t) : i \in 1..Len(s) \/ i = Len(s) + 1
  BY <1>1
<1>3. \A i \in 1..Len(s) : i \in 1..Len(t)
  BY <1>1
<1>4. Len(s) + 1 \in 1..Len(t)
  BY <1>1
<1>5. Has(t, S) <=> Has(s, S) \/ x \in S
  BY <1>1, <1>2, <1>3, <1>4 DEF Has
<1>6. x \notin S /\ Single(s, S) => Single(t, S)
  BY <1>1, <1>2 DEF Single
<1>7. ~Has(s, S) => Single(t, S)
  BY <1>1, <1>2 DEF Single, Has
<1> QED
  BY <1>1, <1>5, <1>6, <1>7 DEF t

(* What a packet read changes of what is under way.                         *)
LEMMA HasTail ==
    ASSUME NEW T, NEW s \in Seq(T), s # <<>>, NEW S
    PROVE  /\ Tail(s) \in Seq(T) /\ Head(s) \in T
           /\ Has(Tail(s), S) => Has(s, S)
           /\ Head(s) \in S => Has(s, S)
           /\ Head(s) \notin S => (Has(Tail(s), S) <=> Has(s, S))
           /\ Single(s, S) => Single(Tail(s), S)
           /\ Single(s, S) /\ Head(s) \in S => ~Has(Tail(s), S)
<1> DEFINE t == Tail(s)
<1>1. /\ Len(s) \in Nat \ {0} /\ t \in Seq(T) /\ Len(t) = Len(s) - 1
      /\ \A i \in 1..Len(s) - 1 : t[i] = s[i + 1]
      /\ Head(s) = s[1] /\ s[1] \in T
  OBVIOUS
<1> HIDE DEF t
<1>2. \A i \in 1..Len(t) : i \in Nat /\ i + 1 \in 1..Len(s) /\ t[i] = s[i + 1] /\ i + 1 # 1
  BY <1>1
<1>3. \A i \in 1..Len(s) : i = 1 \/ (i - 1 \in 1..Len(t) /\ t[i - 1] = s[i])
  BY <1>1
<1>4. 1 \in 1..Len(s)
  BY <1>1
<1>5. Has(t, S) => Has(s, S)
  BY <1>2 DEF Has
<1>6. s[1] \in S => Has(s, S)
  BY <1>4 DEF Has
<1>7. s[1] \notin S => (Has(t, S) <=> Has(s, S))
  BY <1>3, <1>5 DEF Has
<1>8. Single(s, S) => Single(t, S)
  <2> SUFFICES ASSUME Single(s, S), NEW i \in 1..Len(t), NEW j \in 1..Len(t), t[i] \in S, t[j] \in S
               PROVE  i = j
    BY DEF Single
  <2>1. i + 1 = j + 1
    BY <1>2 DEF Single
  <2> QED
    BY <1>2, <2>1
<1>9. Single(s, S) /\ s[1] \in S => ~Has(t, S)
  BY <1>2, <1>4 DEF Single, Has
<1> QED
  BY <1>1, <1>5, <1>6, <1>7, <1>8, <1>9 DEF t

(* Nothing is under way in an empty queue.                                  *)
LEMMA HasEmpty == \A S : ~Has(<<>>, S) /\ Single(<<>>, S)
BY DEF Has, Single

(* What either side writes keeps the queues sequences of packets.           *)
LEMMA WriteTypes ==
    ASSUME TypeOK
    PROVE  /\ \A x \in ToOrch : WriteToOrch(x) => toOrch' \in Seq(ToOrch)
           /\ \A x \in ToMaster : WriteToMaster(x) => toMaster' \in Seq(ToMaster)
           /\ toOrch # <<>> => Tail(toOrch) \in Seq(ToOrch) /\ Head(toOrch) \in ToOrch
           /\ toMaster # <<>> => Tail(toMaster) \in Seq(ToMaster) /\ Head(toMaster) \in ToMaster
<1>1. toOrch \in Seq(ToOrch) /\ toMaster \in Seq(ToMaster)
  BY DEF TypeOK, ToOrch, ToMaster
<1>2. ASSUME NEW x \in ToOrch, WriteToOrch(x) PROVE toOrch' \in Seq(ToOrch)
  BY <1>1, <1>2, HasAppend DEF WriteToOrch
<1>3. ASSUME NEW x \in ToMaster, WriteToMaster(x) PROVE toMaster' \in Seq(ToMaster)
  BY <1>1, <1>3, HasAppend DEF WriteToMaster
<1> QED
  BY <1>1, <1>2, <1>3, HasTail

(* Every step keeps the types, and the reader runs commands of calls only.  *)
LEMMA SessionTypes ==
    ASSUME TypeOK, ServesInv, [Next]_vars
    PROVE  TypeOK' /\ ServesInv'
<1> DEFINE Types == TypeOK /\ ServesInv
<1>0. /\ toOrch \in Seq(ToOrch) /\ toMaster \in Seq(ToMaster)
      /\ TypeOK' <=>
            /\ main' \in {"send", "await", "idle", "ended"}
            /\ reader' \in {"read", "offer", "command", "ended"}
            /\ held' \in Answers
            /\ serving' \in Calls \cup {NoCall}
            /\ readErr' \in BOOLEAN
            /\ orch' \in {"open", "closed"}
            /\ call' \in [Calls -> {"idle", "waiting", "replied", "failed"}]
            /\ pend' \subseteq Calls
            /\ timeouts' \in 0..MaxTimeouts
            /\ toOrch' \in Seq(ToOrch)
            /\ toMaster' \in Seq(ToMaster)
            /\ broken' \in BOOLEAN
  BY DEF TypeOK, ToOrch, ToMaster
<1>1. "update" \in ToOrch /\ NoAnswer \in Answers
      /\ \A k \in {"ok", "error"}, u \in {"update", "reply"} : Answer(k, u) \in ToMaster
  BY DEF ToOrch, ToMaster, NoAnswer, Answer, Answers
<1>2. CASE SendUpdate
  <2>1. toOrch' \in Seq(ToOrch)
    BY <1>0, <1>1, <1>2, WriteTypes DEF SendUpdate
  <2>2. main' \in {"send", "await", "idle", "ended"}
    BY <1>2 DEF SendUpdate
  <2> QED
    BY <1>0, <1>2, <2>1, <2>2 DEF SendUpdate, orchVars, TypeOK, ServesInv
<1>3. CASE TakeAnswer
  BY <1>0, <1>1, <1>3 DEF TakeAnswer, orchVars, TypeOK, ServesInv
<1>4. CASE TakeReadError
  BY <1>0, <1>4 DEF TakeReadError, orchVars, TypeOK, ServesInv
<1>5. CASE TickerFires
  BY <1>0, <1>5 DEF TickerFires, orchVars, TypeOK, ServesInv
<1>6. CASE ReadAnswer
  <2>1. toMaster' \in Seq(ToMaster)
    BY <1>6, WriteTypes DEF ReadAnswer
  <2> QED
    BY <1>0, <1>6, <2>1 DEF ReadAnswer, orchVars, TypeOK, ServesInv
<1>7. CASE ReadCommand
  <2>1. toMaster' \in Seq(ToMaster)
    BY <1>7, WriteTypes DEF ReadCommand
  <2> QED
    BY <1>0, <1>7, <2>1 DEF ReadCommand, orchVars, TypeOK, ServesInv
<1>8. CASE ReplyToCommand
  <2>1. toOrch' \in Seq(ToOrch)
    BY <1>8, WriteTypes DEF ReplyToCommand, ServesInv, ToOrch
  <2> QED
    BY <1>0, <1>8, <2>1 DEF ReplyToCommand, orchVars, TypeOK, ServesInv
<1>9. CASE ReadError
  BY <1>0, <1>9 DEF ReadError, orchVars, TypeOK, ServesInv
<1>10. CASE OrchResolves
  <2>1. toOrch' \in Seq(ToOrch)
    BY <1>10, WriteTypes DEF OrchResolves
  <2>2. call' \in [Calls -> {"idle", "waiting", "replied", "failed"}]
    BY <1>10 DEF OrchResolves, TypeOK
  <2> QED
    BY <1>0, <1>10, <2>1, <2>2
    DEF OrchResolves, masterVars, TypeOK, ServesInv
<1>11. CASE OrchAnswersUpdate
  <2>1. toOrch' \in Seq(ToOrch) /\ toMaster' \in Seq(ToMaster)
    BY <1>1, <1>11, WriteTypes DEF OrchAnswersUpdate
  <2> QED
    BY <1>0, <1>11, <2>1
    DEF OrchAnswersUpdate, masterVars, orchVars, TypeOK, ServesInv
<1>12. CASE OrchAnswersLateReply
  <2>1. toOrch' \in Seq(ToOrch) /\ toMaster' \in Seq(ToMaster)
    BY <1>1, <1>12, WriteTypes DEF OrchAnswersLateReply
  <2> QED
    BY <1>0, <1>12, <2>1
    DEF OrchAnswersLateReply, masterVars, orchVars, TypeOK,
        ServesInv
<1>13. CASE OrchReadError
  BY <1>0, <1>13 DEF OrchReadError, masterVars, TypeOK, ServesInv
<1>14. ASSUME NEW r \in Calls, SendCommand(r) PROVE Types'
  <2>1. toMaster' \in Seq(ToMaster)
    BY <1>14, WriteTypes DEF SendCommand, ToMaster
  <2>2. call' \in [Calls -> {"idle", "waiting", "replied", "failed"}]
    BY <1>14 DEF SendCommand, TypeOK
  <2> QED
    BY <1>0, <1>14, <2>1, <2>2
    DEF SendCommand, masterVars, TypeOK, ServesInv
<1>15. ASSUME NEW r \in Calls, CallTimesOut(r) PROVE Types'
  <2>1. call' \in [Calls -> {"idle", "waiting", "replied", "failed"}]
    BY <1>15 DEF CallTimesOut, TypeOK
  <2>2. timeouts' \in 0..MaxTimeouts
    BY <1>15, TimeoutsAssumption DEF CallTimesOut, TypeOK
  <2> QED
    BY <1>0, <1>15, <2>1, <2>2
    DEF CallTimesOut, masterVars, TypeOK, ServesInv
<1>16. CASE Break
  <2>1. toOrch' \in Seq(ToOrch) /\ toMaster' \in Seq(ToMaster)
    BY <1>16 DEF Break
  <2> QED
    BY <1>0, <1>16, <2>1
    DEF Break, masterVars, orchVars, TypeOK, ServesInv
<1>17. CASE UNCHANGED vars
  BY <1>0, <1>17 DEF vars, TypeOK, ServesInv
<1> QED
  BY <1>2, <1>3, <1>4, <1>5, <1>6, <1>7, <1>8, <1>9, <1>10, <1>11, <1>12, <1>13, <1>14, <1>15,
     <1>16, <1>17
  DEF Next, Main, Reader, Orch, Caller

(* What is under way after a write or a read was so before, or is what was  *)
(* written; what was there once is there once.                              *)
LEMMA UnderWay ==
    ASSUME TypeOK, NEW S
    PROVE  /\ \A x \in ToOrch : WriteToOrch(x) =>
                 /\ Has(toOrch', S) => Has(toOrch, S) \/ x \in S
                 /\ Single(toOrch, S) /\ (x \notin S \/ ~Has(toOrch, S)) => Single(toOrch', S)
           /\ \A x \in ToMaster : WriteToMaster(x) =>
                 /\ Has(toMaster', S) => Has(toMaster, S) \/ x \in S
                 /\ Single(toMaster, S) /\ (x \notin S \/ ~Has(toMaster, S)) => Single(toMaster', S)
           /\ toOrch # <<>> /\ toOrch' = Tail(toOrch) =>
                 /\ Has(toOrch', S) \/ Head(toOrch) \in S => Has(toOrch, S)
                 /\ Single(toOrch, S) => Single(toOrch', S)
                 /\ Single(toOrch, S) /\ Head(toOrch) \in S => ~Has(toOrch', S)
           /\ toMaster # <<>> /\ toMaster' = Tail(toMaster) =>
                 /\ Has(toMaster', S) \/ Head(toMaster) \in S => Has(toMaster, S)
                 /\ Single(toMaster, S) => Single(toMaster', S)
                 /\ Single(toMaster, S) /\ Head(toMaster) \in S => ~Has(toMaster', S)
<1>1. toOrch \in Seq(ToOrch) /\ toMaster \in Seq(ToMaster)
  BY DEF TypeOK, ToOrch, ToMaster
<1>2. ASSUME NEW x \in ToOrch, WriteToOrch(x)
      PROVE  /\ Has(toOrch', S) => Has(toOrch, S) \/ x \in S
             /\ Single(toOrch, S) /\ (x \notin S \/ ~Has(toOrch, S)) => Single(toOrch', S)
  BY <1>1, <1>2, HasAppend DEF WriteToOrch
<1>3. ASSUME NEW x \in ToMaster, WriteToMaster(x)
      PROVE  /\ Has(toMaster', S) => Has(toMaster, S) \/ x \in S
             /\ Single(toMaster, S) /\ (x \notin S \/ ~Has(toMaster, S)) => Single(toMaster', S)
  BY <1>1, <1>3, HasAppend DEF WriteToMaster
<1>4. ASSUME toOrch # <<>>, toOrch' = Tail(toOrch)
      PROVE  /\ Has(toOrch', S) \/ Head(toOrch) \in S => Has(toOrch, S)
             /\ Single(toOrch, S) => Single(toOrch', S)
             /\ Single(toOrch, S) /\ Head(toOrch) \in S => ~Has(toOrch', S)
  BY <1>1, <1>4, HasTail
<1>5. ASSUME toMaster # <<>>, toMaster' = Tail(toMaster)
      PROVE  /\ Has(toMaster', S) \/ Head(toMaster) \in S => Has(toMaster, S)
             /\ Single(toMaster, S) => Single(toMaster', S)
             /\ Single(toMaster, S) /\ Head(toMaster) \in S => ~Has(toMaster', S)
  BY <1>1, <1>5, HasTail
<1> QED
  BY <1>2, <1>3, <1>4, <1>5

(* A step that brings call r to no new place keeps what is said of it, as   *)
(* long as it drops no caller while the session is open.                    *)
LEMMA CallStays ==
    ASSUME NEW r \in Calls, CallInv(r),
           Has(toMaster', {r}) => Has(toMaster, {r}), Single(toMaster', {r}),
           Has(toOrch', {r}) => Has(toOrch, {r}), Single(toOrch', {r}),
           Runs(r)' => Runs(r),
           call[r] # "idle" => call'[r] # "idle",
           orch' = "open" /\ timeouts' = 0 => orch = "open" /\ timeouts = 0,
           orch' = "open" /\ timeouts' = 0 /\ r \in pend =>
               r \in pend' \/ ~(Has(toMaster', {r}) \/ Runs(r)' \/ Has(toOrch', {r}))
    PROVE  CallInv(r)'
BY DEF CallInv

(* Every step keeps each call in one place.                                 *)
LEMMA CallStep ==
    ASSUME SessionInv, [Next]_vars, NEW r \in Calls
    PROVE  CallInv(r)'
<1>0. /\ TypeOK /\ ServesInv /\ CallInv(r)
      /\ call \in [Calls -> {"idle", "waiting", "replied", "failed"}] /\ pend \subseteq Calls
      /\ timeouts \in Nat
  BY DEF SessionInv, TypeOK
<1>1. /\ "update" \notin {r} /\ \A a \in Answers : a \notin {r}
      /\ "update" \in ToOrch /\ r \in ToOrch /\ r \in ToMaster
      /\ \A k \in {"ok", "error"}, u \in {"update", "reply"} :
            Answer(k, u) \in ToMaster /\ Answer(k, u) \in Answers
  BY PacketAssumption DEF ToOrch, ToMaster, Answer, Answers
<1> DEFINE Q1 == (Has(toMaster', {r}) => Has(toMaster, {r})) /\ Single(toMaster', {r})
           Q2 == (Has(toOrch', {r}) => Has(toOrch, {r})) /\ Single(toOrch', {r})
<1>2. UNCHANGED toMaster => Q1
  BY <1>0 DEF CallInv
<1>3. UNCHANGED toOrch => Q2
  BY <1>0 DEF CallInv
<1>4. toMaster # <<>> /\ toMaster' = Tail(toMaster) => Q1
  BY <1>0, UnderWay DEF CallInv
<1>5. toOrch # <<>> /\ toOrch' = Tail(toOrch) => Q2
  BY <1>0, UnderWay DEF CallInv
<1>6. \A k \in {"ok", "error"}, u \in {"update", "reply"} :
         WriteToMaster(Answer(k, u)) => Q1
  BY <1>0, <1>1, UnderWay DEF CallInv
<1>7. WriteToOrch("update") => Q2
  BY <1>0, <1>1, UnderWay DEF CallInv
<1> HIDE DEF Q1, Q2
<1>8. ASSUME Q1, Q2, Runs(r)' => Runs(r), UNCHANGED <<call, pend>>,
             orch' = "open" => orch = "open", timeouts' = timeouts
      PROVE  CallInv(r)'
  BY <1>0, <1>8, CallStays DEF Q1, Q2
<1>9. CASE Main
  <2>1. /\ UNCHANGED <<call, pend, orch, timeouts>> /\ toMaster' = toMaster
        /\ toOrch' = toOrch \/ WriteToOrch("update")
        /\ Runs(r)' => Runs(r)
    BY <1>9 DEF Main, SendUpdate, TakeAnswer, TakeReadError,
                TickerFires, orchVars, Runs
  <2> QED
    BY <1>2, <1>3, <1>7, <1>8, <2>1
<1>10. CASE ReadAnswer \/ ReadError
  <2>1. /\ UNCHANGED <<call, pend, orch, timeouts>> /\ toOrch' = toOrch
        /\ toMaster' = toMaster \/ (toMaster # <<>> /\ toMaster' = Tail(toMaster))
        /\ ~Runs(r)'
    BY <1>10 DEF ReadAnswer, ReadError, orchVars, Runs
  <2> QED
    BY <1>2, <1>3, <1>4, <1>8, <2>1
<1>11. CASE ReadCommand
  <2>1. /\ UNCHANGED <<call, pend, orch, timeouts>> /\ toOrch' = toOrch
        /\ toMaster # <<>> /\ toMaster' = Tail(toMaster)
        /\ Runs(r)' => Head(toMaster) \in {r}
        /\ ~Runs(r)
    BY <1>11 DEF ReadCommand, orchVars, Runs
  <2>2. CASE Head(toMaster) \notin {r}
    BY <1>3, <1>4, <1>8, <2>1, <2>2
  <2>3. CASE Head(toMaster) \in {r}
    <3>1. Has(toMaster, {r}) /\ ~Has(toMaster', {r}) /\ Single(toMaster', {r})
      BY <1>0, <2>1, <2>3, UnderWay DEF CallInv
    <3> QED
      BY <1>0, <2>1, <3>1 DEF CallInv
  <2> QED
    BY <2>2, <2>3
<1>12. CASE ReplyToCommand
  <2>1. /\ UNCHANGED <<call, pend, orch, timeouts>> /\ toMaster' = toMaster
        /\ WriteToOrch(serving) /\ serving \in Calls /\ ~Runs(r)'
        /\ Runs(r) <=> serving \in {r}
    BY <1>0, <1>12 DEF ReplyToCommand, orchVars, Runs, ServesInv
  <2>2. serving \in ToOrch
    BY <2>1 DEF ToOrch
  <2>3. CASE serving \notin {r}
    <3>1. Q2
      BY <1>0, <2>1, <2>2, <2>3, UnderWay DEF CallInv, Q2
    <3> QED
      BY <1>2, <1>8, <2>1, <3>1
  <2>4. CASE serving \in {r}
    <3>1. Runs(r) /\ ~Has(toMaster, {r}) /\ ~Has(toOrch, {r})
      BY <1>0, <2>1, <2>4 DEF CallInv
    <3>2. Single(toOrch', {r})
      BY <1>0, <2>1, <2>2, <3>1, UnderWay DEF CallInv
    <3> QED
      BY <1>0, <2>1, <3>1, <3>2 DEF CallInv
  <2> QED
    BY <2>3, <2>4
<1>13. CASE OrchResolves
  <2>1. /\ UNCHANGED <<orch, timeouts, reader, serving>> /\ toMaster' = toMaster
        /\ toOrch # <<>> /\ toOrch' = Tail(toOrch)
        /\ pend' = pend \ {Head(toOrch)} /\ call' = [call EXCEPT ![Head(toOrch)] = "replied"]
    BY <1>13 DEF OrchResolves, masterVars
  <2>2. call[r] # "idle" => call'[r] # "idle"
    BY <1>0, <2>1
  <2>3. Runs(r)' <=> Runs(r)
    BY <2>1 DEF Runs
  <2>4. Q1 /\ Q2
    BY <1>2, <1>5, <2>1
  <2>5. CASE Head(toOrch) \in {r}
    <3>1. Has(toOrch, {r}) /\ ~Has(toOrch', {r})
      BY <1>0, <2>1, <2>5, UnderWay DEF CallInv
    <3>2. ~Has(toMaster', {r}) /\ ~Runs(r)'
      BY <1>0, <2>1, <2>3, <3>1 DEF CallInv
    <3> QED
      BY <1>0, <2>1, <2>2, <2>4, <3>1, <3>2, CallStays DEF Q1, Q2
  <2>6. CASE Head(toOrch) \notin {r}
    <3>1. r \in pend => r \in pend'
      BY <2>1, <2>6
    <3> QED
      BY <1>0, <2>1, <2>2, <2>3, <2>4, <3>1, CallStays DEF Q1, Q2
  <2> QED
    BY <2>5, <2>6
<1>14. CASE OrchAnswersUpdate \/ OrchAnswersLateReply
  <2>1. /\ UNCHANGED <<call, pend, orch, timeouts>> /\ (Runs(r)' => Runs(r))
        /\ toOrch # <<>> /\ toOrch' = Tail(toOrch)
        /\ \E k \in {"ok", "error"}, u \in {"update", "reply"} :
              WriteToMaster(Answer(k, u))
    BY <1>14 DEF OrchAnswersUpdate, OrchAnswersLateReply, masterVars,
                 orchVars, Runs
  <2> QED
    BY <1>5, <1>6, <1>8, <2>1
<1>15. CASE OrchReadError
  <2>1. /\ UNCHANGED <<call, pend, timeouts, toOrch, toMaster>> /\ orch' = "closed"
        /\ Runs(r)' => Runs(r)
    BY <1>15 DEF OrchReadError, masterVars, Runs
  <2> QED
    BY <1>2, <1>3, <1>8, <2>1
<1>16. ASSUME NEW c \in Calls, SendCommand(c) PROVE CallInv(r)'
  <2>1. /\ UNCHANGED <<orch, timeouts, reader, serving, toOrch>> /\ WriteToMaster(c)
        /\ call[c] = "idle" /\ pend' = pend \cup {c} /\ call' = [call EXCEPT ![c] = "waiting"]
        /\ c \in ToMaster
    BY <1>16 DEF SendCommand, masterVars, ToMaster
  <2>2. Runs(r)' <=> Runs(r)
    BY <2>1 DEF Runs
  <2>3. call[r] # "idle" => call'[r] # "idle"
    BY <1>0, <2>1
  <2>4. CASE c \in {r}
    <3>1. ~Has(toMaster, {r}) /\ ~Runs(r) /\ ~Has(toOrch, {r})
      BY <1>0, <2>1, <2>4 DEF CallInv
    <3>2. Single(toMaster', {r})
      BY <1>0, <2>1, <3>1, UnderWay DEF CallInv
    <3>3. call'[r] # "idle" /\ r \in pend'
      BY <1>0, <2>1, <2>4
    <3> QED
      BY <1>0, <2>1, <2>2, <3>1, <3>2, <3>3 DEF CallInv
  <2>5. CASE c \notin {r}
    <3>1. Q1
      BY <1>0, <2>1, <2>5, UnderWay DEF CallInv, Q1
    <3> QED
      BY <1>0, <1>3, <2>1, <2>2, <2>3, <3>1, CallStays DEF Q1, Q2
  <2> QED
    BY <2>4, <2>5
<1>17. ASSUME NEW c \in Calls, CallTimesOut(c) PROVE CallInv(r)'
  <2>1. /\ UNCHANGED <<orch, reader, serving, toOrch, toMaster>>
        /\ call' = [call EXCEPT ![c] = "failed"]
        /\ ~(orch' = "open" /\ timeouts' = 0)
    BY <1>0, <1>17 DEF CallTimesOut, masterVars
  <2>2. Runs(r)' <=> Runs(r)
    BY <2>1 DEF Runs
  <2>3. call[r] # "idle" => call'[r] # "idle"
    BY <1>0, <2>1
  <2> QED
    BY <1>0, <1>2, <1>3, <2>1, <2>2, <2>3, CallStays DEF Q1, Q2
<1>18. CASE Break
  <2>1. /\ UNCHANGED <<call, pend, orch, timeouts>> /\ (Runs(r)' => Runs(r))
        /\ toOrch' = <<>> /\ toMaster' = <<>>
    BY <1>18 DEF Break, masterVars, orchVars, Runs
  <2>2. Q1 /\ Q2
    BY <2>1, HasEmpty DEF Q1, Q2
  <2> QED
    BY <1>8, <2>1, <2>2
<1>19. CASE UNCHANGED vars
  <2>1. /\ UNCHANGED <<call, pend, orch, timeouts, toOrch, toMaster>> /\ (Runs(r)' => Runs(r))
    BY <1>19 DEF vars, Runs
  <2> QED
    BY <1>2, <1>3, <1>8, <2>1
<1> QED
  BY <1>9, <1>10, <1>11, <1>12, <1>13, <1>14, <1>15, <1>16, <1>17, <1>18, <1>19
  DEF Next, Reader, Orch, Caller

\* What UpdateInv says of a session that lives and that no caller has given up.
Update == {"update"}
InStep ==
    /\ main # "await" =>
           ~Has(toOrch, Update) /\ ~Has(toMaster, Answers) /\ reader # "offer"
    /\ Single(toOrch, Update) /\ Single(toMaster, Answers)
    /\ ~(Has(toOrch, Update) /\ Has(toMaster, Answers))
    /\ reader = "offer" => ~Has(toOrch, Update) /\ ~Has(toMaster, Answers)

(* A session that has ended stays ended, and callers that gave up stay      *)
(* counted.                                                                 *)
LEMMA LivesOn ==
    ASSUME TypeOK, [Next]_vars, main' # "ended", timeouts' = 0
    PROVE  main # "ended" /\ timeouts = 0
<1>1. timeouts \in Nat
  BY DEF TypeOK
<1>2. CASE Main
  BY <1>2 DEF Main, SendUpdate, TakeAnswer, TakeReadError,
              TickerFires, orchVars
<1>3. CASE Reader
  BY <1>3 DEF Reader, ReadAnswer, ReadCommand, ReplyToCommand,
              ReadError, orchVars
<1>4. CASE Orch
  BY <1>4 DEF Orch, OrchResolves, OrchAnswersUpdate,
              OrchAnswersLateReply, OrchReadError, masterVars,
              orchVars
<1>5. ASSUME NEW r \in Calls, Caller(r) PROVE main' = main /\ timeouts = 0
  BY <1>1, <1>5 DEF Caller, SendCommand, CallTimesOut, masterVars
<1>6. CASE Break \/ UNCHANGED vars
  BY <1>6 DEF Break, vars, masterVars, orchVars
<1> QED
  BY <1>2, <1>3, <1>4, <1>5, <1>6 DEF Next

(* Until a caller gives up, every reply that comes finds its caller.        *)
LEMMA NoLateReply ==
    ASSUME SessionInv, timeouts = 0, OrchAnswersLateReply
    PROVE  FALSE
<1>1. orch = "open" /\ toOrch # <<>> /\ Head(toOrch) \in Calls \ pend
  BY DEF OrchAnswersLateReply
<1>2. PICK c \in Calls : c = Head(toOrch)
  BY <1>1
<1>3. Has(toOrch, {c})
  BY <1>1, <1>2, HasTail DEF SessionInv, TypeOK
<1>4. CallInv(c)
  BY DEF SessionInv
<1> QED
  BY <1>1, <1>2, <1>3, <1>4 DEF CallInv

(* Every step keeps updates and answers in step, as long as no caller gives *)
(* up: no reply is late then.                                               *)
LEMMA UpdateStep ==
    ASSUME SessionInv, [Next]_vars
    PROVE  UpdateInv'
<1> SUFFICES ASSUME main' # "ended", timeouts' = 0 PROVE InStep'
  BY DEF UpdateInv, InStep, Update
<1>0. TypeOK /\ ServesInv /\ InStep /\ main # "ended" /\ timeouts = 0
  <2>1. TypeOK /\ ServesInv /\ UpdateInv
    BY DEF SessionInv
  <2>2. main # "ended" /\ timeouts = 0
    BY <2>1, LivesOn
  <2> QED
    BY <2>1, <2>2 DEF UpdateInv, InStep, Update
<1>1. /\ \A c \in Calls : /\ c \notin Update /\ c \notin Answers
                           /\ c \in ToOrch /\ c \in ToMaster
      /\ "update" \in ToOrch /\ "update" \in Update
      /\ \A k \in {"ok", "error"}, u \in {"update", "reply"} :
            Answer(k, u) \in ToMaster /\ Answer(k, u) \in Answers
  BY PacketAssumption DEF ToOrch, ToMaster, Answer, Answers, Update
<1>2. ASSUME main' = main, reader' = "offer" => reader = "offer",
             Has(toOrch', Update) => Has(toOrch, Update), Single(toOrch', Update),
             Has(toMaster', Answers) => Has(toMaster, Answers),
             Single(toMaster', Answers)
      PROVE  InStep'
  BY <1>0, <1>2 DEF InStep, Update
<1>3. CASE SendUpdate
  <2>1. /\ main = "send" /\ main' = "await" /\ WriteToOrch("update")
        /\ UNCHANGED <<toMaster, reader>>
    BY <1>3 DEF SendUpdate
  <2>2. ~Has(toOrch, Update) /\ ~Has(toMaster, Answers) /\ reader # "offer"
    BY <1>0, <2>1 DEF InStep
  <2>3. Single(toOrch', Update)
    BY <1>0, <1>1, <2>1, <2>2, UnderWay DEF InStep
  <2> QED
    BY <1>0, <2>1, <2>2, <2>3 DEF InStep
<1>4. CASE TakeAnswer
  BY <1>0, <1>4 DEF TakeAnswer, InStep, Update
<1>5. CASE TakeReadError
  BY <1>5 DEF TakeReadError
<1>6. CASE TickerFires
  BY <1>0, <1>6 DEF TickerFires, InStep, Update
<1>7. CASE ReadAnswer
  <2>1. /\ toMaster # <<>> /\ toMaster' = Tail(toMaster) /\ Head(toMaster) \in Answers
        /\ UNCHANGED <<toOrch, main>>
    BY <1>7 DEF ReadAnswer
  <2>2. /\ Has(toMaster, Answers) /\ ~Has(toMaster', Answers)
        /\ Single(toMaster', Answers)
    BY <1>0, <2>1, UnderWay DEF InStep
  <2> QED
    BY <1>0, <2>1, <2>2 DEF InStep, Update
<1>8. CASE ReadCommand
  <2>1. /\ toMaster # <<>> /\ toMaster' = Tail(toMaster) /\ UNCHANGED <<toOrch, main>>
        /\ reader' = "command"
    BY <1>8 DEF ReadCommand
  <2>2. /\ Has(toMaster', Answers) => Has(toMaster, Answers)
        /\ Single(toMaster', Answers)
    BY <1>0, <2>1, UnderWay DEF InStep
  <2> QED
    BY <1>0, <1>2, <2>1, <2>2 DEF InStep
<1>9. CASE ReplyToCommand
  <2>1. /\ WriteToOrch(serving) /\ serving \in Calls /\ UNCHANGED <<toMaster, main>>
        /\ reader' = "read"
    BY <1>0, <1>9 DEF ReplyToCommand, ServesInv
  <2>2. (Has(toOrch', Update) => Has(toOrch, Update)) /\ Single(toOrch', Update)
    BY <1>0, <1>1, <2>1, UnderWay DEF InStep
  <2> QED
    BY <1>0, <1>2, <2>1, <2>2 DEF InStep
<1>10. CASE ReadError
  <2>1. UNCHANGED <<toOrch, toMaster, main>> /\ reader' = "ended"
    BY <1>10 DEF ReadError
  <2> QED
    BY <1>0, <1>2, <2>1 DEF InStep
<1>11. CASE OrchResolves
  <2>1. /\ toOrch # <<>> /\ toOrch' = Tail(toOrch) /\ UNCHANGED <<toMaster, main, reader>>
    BY <1>11 DEF OrchResolves, masterVars
  <2>2. (Has(toOrch', Update) => Has(toOrch, Update)) /\ Single(toOrch', Update)
    BY <1>0, <2>1, UnderWay DEF InStep
  <2> QED
    BY <1>0, <1>2, <2>1, <2>2 DEF InStep
<1>12. CASE OrchAnswersUpdate
  <2>1. /\ toOrch # <<>> /\ toOrch' = Tail(toOrch) /\ Head(toOrch) \in Update
        /\ UNCHANGED <<main, reader>>
    BY <1>1, <1>12 DEF OrchAnswersUpdate, masterVars
  <2>2. PICK k \in {"ok", "error"} : WriteToMaster(Answer(k, "update"))
    BY <1>12 DEF OrchAnswersUpdate
  <2>3. Has(toOrch, Update) /\ ~Has(toOrch', Update) /\ Single(toOrch', Update)
    BY <1>0, <2>1, UnderWay DEF InStep
  <2>4. main = "await" /\ ~Has(toMaster, Answers) /\ reader # "offer"
    BY <1>0, <2>3 DEF InStep
  <2>5. Single(toMaster', Answers)
    BY <1>0, <1>1, <2>2, <2>4, UnderWay DEF InStep
  <2> QED
    BY <2>1, <2>3, <2>4, <2>5 DEF InStep
<1>13. ASSUME OrchAnswersLateReply PROVE FALSE
  BY <1>0, <1>13, NoLateReply
<1>14. CASE OrchReadError
  <2>1. UNCHANGED <<toOrch, toMaster, main, reader>>
    BY <1>14 DEF OrchReadError, masterVars
  <2> QED
    BY <1>0, <1>2, <2>1 DEF InStep
<1>15. ASSUME NEW c \in Calls, SendCommand(c) PROVE InStep'
  <2>1. WriteToMaster(c) /\ UNCHANGED <<toOrch, main, reader>>
    BY <1>15 DEF SendCommand, masterVars
  <2>2. /\ Has(toMaster', Answers) => Has(toMaster, Answers)
        /\ Single(toMaster', Answers)
    BY <1>0, <1>1, <2>1, UnderWay DEF InStep
  <2> QED
    BY <1>0, <1>2, <2>1, <2>2 DEF InStep
<1>16. ASSUME NEW c \in Calls, CallTimesOut(c) PROVE InStep'
  <2>1. UNCHANGED <<toOrch, toMaster, main, reader>>
    BY <1>16 DEF CallTimesOut, masterVars
  <2> QED
    BY <1>0, <1>2, <2>1 DEF InStep
<1>17. CASE Break
  <2>1. toOrch' = <<>> /\ toMaster' = <<>> /\ UNCHANGED <<main, reader>>
    BY <1>17 DEF Break, masterVars
  <2> QED
    BY <1>0, <1>2, <2>1, HasEmpty DEF InStep
<1>18. CASE UNCHANGED vars
  <2>1. UNCHANGED <<toOrch, toMaster, main, reader>>
    BY <1>18 DEF vars
  <2> QED
    BY <1>0, <1>2, <2>1 DEF InStep
<1> QED
  BY <1>3, <1>4, <1>5, <1>6, <1>7, <1>8, <1>9, <1>10, <1>11, <1>12, <1>13, <1>14, <1>15, <1>16,
     <1>17, <1>18
  DEF Next, Main, Reader, Orch, Caller

-----------------------------------------------------------------------------
(* The session without the clock: theorems *)

(* A session starts with nothing under way.                                 *)
LEMMA SessionInit ==
    ASSUME Init
    PROVE  SessionInv
<1>1. toOrch = <<>> /\ toMaster = <<>> /\ reader = "read" /\ main = "send"
  BY DEF Init
<1>2. toOrch \in Seq(ToOrch) /\ toMaster \in Seq(ToMaster)
  BY <1>1
<1>3. held \in Answers /\ timeouts \in 0..MaxTimeouts
  BY TimeoutsAssumption DEF Init, NoAnswer, Answer, Answers
<1>4. TypeOK
  BY <1>2, <1>3 DEF Init, TypeOK, ToOrch, ToMaster
<1>5. ServesInv /\ (\A r \in Calls : CallInv(r)) /\ UpdateInv
  BY <1>1, HasEmpty DEF ServesInv, CallInv, UpdateInv, Runs
<1> QED
  BY <1>4, <1>5 DEF SessionInv

(* The invariant of the session without the clock holds in every behaviour. *)
LEMMA SessionInvariance == Spec => []SessionInv
<1>1. Init => SessionInv
  BY SessionInit
<1>2. SessionInv /\ [Next]_vars => SessionInv'
  <2> SUFFICES ASSUME SessionInv, [Next]_vars PROVE SessionInv'
    OBVIOUS
  <2>1. TypeOK' /\ ServesInv'
    BY SessionTypes DEF SessionInv
  <2>2. \A r \in Calls : CallInv(r)'
    BY CallStep
  <2>3. UpdateInv'
    BY UpdateStep
  <2> QED
    BY <2>1, <2>2, <2>3 DEF SessionInv
<1> QED
  BY <1>1, <1>2, PTL DEF Spec

(* Every state of both ends of the session and of the packets between them  *)
(* is well formed: replies carry the id of a call.                          *)
THEOREM SessionTypeCorrect == Spec => []TypeOK
<1>1. SessionInv => TypeOK
  BY DEF SessionInv
<1> QED
  BY <1>1, SessionInvariance, PTL

(* What is unique is counted once, what is not under way not at all.        *)
LEMMA CountSingle ==
    ASSUME NEW s, Len(s) \in Nat, NEW S, Single(s, S)
    PROVE  Cardinality({i \in 1..Len(s) : s[i] \in S}) = IF Has(s, S) THEN 1 ELSE 0
<1> DEFINE places == {i \in 1..Len(s) : s[i] \in S}
<1>1. CASE Has(s, S)
  <2>1. PICK i \in 1..Len(s) : s[i] \in S
    BY <1>1 DEF Has
  <2>2. places = {i}
    BY <2>1 DEF Single
  <2> QED
    BY <1>1, <2>2, FS_Singleton
<1>2. CASE ~Has(s, S)
  <2>1. places = {}
    BY <1>2 DEF Has
  <2> QED
    BY <1>2, <2>1, FS_EmptySet
<1> QED
  BY <1>1, <1>2

(* For any number of calls: until a caller gives up, connectLoop has one    *)
(* packet unanswered at most and no answer comes that it does not wait for, *)
(* so that readOrchestratorLoop is never left blocked on respCh.            *)
THEOREM AnswersInStepThm == Spec => []AnswersInStep
<1>1. SessionInv => AnswersInStep
  <2> SUFFICES ASSUME SessionInv, main # "ended", timeouts = 0
               PROVE  UpdatesInFlight + AnswersInFlight
                          <= IF main = "await" THEN 1 ELSE 0
    BY DEF AnswersInStep
  <2>1. InStep /\ Len(toOrch) \in Nat /\ Len(toMaster) \in Nat
    BY DEF SessionInv, UpdateInv, InStep, Update, TypeOK
  <2>2. UpdatesInFlight = IF Has(toOrch, Update) THEN 1 ELSE 0
    <3>1. {i \in 1..Len(toOrch) : toOrch[i] = "update"}
              = {i \in 1..Len(toOrch) : toOrch[i] \in Update}
      BY DEF Update
    <3>2. Single(toOrch, Update)
      BY <2>1 DEF InStep
    <3>3. Cardinality({i \in 1..Len(toOrch) : toOrch[i] \in Update})
              = IF Has(toOrch, Update) THEN 1 ELSE 0
      BY <2>1, <3>2, CountSingle
    <3> QED
      BY <3>1, <3>3 DEF UpdatesInFlight
  <2>3. AnswersInFlight = (IF Has(toMaster, Answers) THEN 1 ELSE 0)
                              + (IF reader = "offer" THEN 1 ELSE 0)
    <3>1. Single(toMaster, Answers)
      BY <2>1 DEF InStep
    <3>2. Cardinality({i \in 1..Len(toMaster) : toMaster[i] \in Answers})
              = IF Has(toMaster, Answers) THEN 1 ELSE 0
      BY <2>1, <3>1, CountSingle
    <3> QED
      BY <3>2 DEF AnswersInFlight
  <2> QED
    BY <2>1, <2>2, <2>3 DEF InStep
<1> QED
  BY <1>1, SessionInvariance, PTL

-----------------------------------------------------------------------------
(* Why connectLoop gives a session up *)

\* An error packet for a reply whose caller has gone.
Late == {a \in Answers : a.to = "reply"}

\* Neither end takes the other for gone while the connection holds.
HoldsInv ==
    ~broken /\ main # "ended" => orch = "open" /\ reader # "ended" /\ ~readErr

\* Until a caller gives up, only updates are answered.
LateInv == timeouts = 0 => (reader = "offer" => held.to = "update") /\ ~Has(toMaster, Late)

(* No goroutine sees an error of the connection before it is dropped or     *)
(* connectLoop has left.                                                    *)
LEMMA HoldsStep ==
    ASSUME TypeOK, HoldsInv, [Next]_vars
    PROVE  HoldsInv'
<1> SUFFICES ASSUME ~broken', main' # "ended"
             PROVE  orch' = "open" /\ reader' # "ended" /\ ~readErr'
  BY DEF HoldsInv
<1>1. CASE Main
  BY <1>1 DEF HoldsInv, Main, SendUpdate, TakeAnswer, TakeReadError, TickerFires, orchVars
<1>2. CASE Reader
  BY <1>2 DEF HoldsInv, Reader, ReadAnswer, ReadCommand, ReplyToCommand, ReadError,
              MasterHears, orchVars
<1>3. CASE Orch
  BY <1>3 DEF HoldsInv, Orch, OrchResolves, OrchAnswersUpdate, OrchAnswersLateReply,
              OrchReadError, masterVars, orchVars
<1>4. ASSUME NEW r \in Calls, Caller(r)
      PROVE  orch' = "open" /\ reader' # "ended" /\ ~readErr'
  BY <1>4 DEF HoldsInv, Caller, SendCommand, CallTimesOut, masterVars
<1>5. CASE Break \/ UNCHANGED vars
  BY <1>5 DEF HoldsInv, Break, vars, masterVars, orchVars
<1> QED
  BY <1>1, <1>2, <1>3, <1>4, <1>5 DEF Next

(* No error for a reply gets under way before a caller gives up.            *)
LEMMA LateStep ==
    ASSUME SessionInv, LateInv, [Next]_vars
    PROVE  LateInv'
<1> SUFFICES ASSUME timeouts' = 0
             PROVE  (reader' = "offer" => held'.to = "update") /\ ~Has(toMaster', Late)
  BY DEF LateInv
<1>0. TypeOK /\ timeouts \in Nat /\ timeouts = 0
  <2>1. TypeOK /\ timeouts \in Nat
    BY DEF SessionInv, TypeOK
  <2>2. (\E r \in Calls : CallTimesOut(r)) \/ timeouts' = timeouts
    BY DEF Next, Main, SendUpdate, TakeAnswer, TakeReadError, TickerFires, Reader, ReadAnswer,
           ReadCommand, ReplyToCommand, ReadError, Orch, OrchResolves, OrchAnswersUpdate,
           OrchAnswersLateReply, OrchReadError, Caller, SendCommand, Break, vars, masterVars,
           orchVars
  <2>3. ASSUME NEW r \in Calls, CallTimesOut(r) PROVE timeouts = 0
    BY <2>1, <2>3 DEF CallTimesOut
  <2> QED
    BY <2>1, <2>2, <2>3
<1>1. (reader = "offer" => held.to = "update") /\ ~Has(toMaster, Late)
  BY <1>0 DEF LateInv
<1>2. CASE UNCHANGED toMaster /\ (reader' # "offer" \/ UNCHANGED <<reader, held>>)
  BY <1>1, <1>2
<1>3. CASE ReadAnswer
  <2>1. toMaster # <<>> /\ toMaster' = Tail(toMaster) /\ held' = Head(toMaster)
        /\ Head(toMaster) \in Answers
    BY <1>3 DEF ReadAnswer
  <2>2. ~Has(toMaster', Late) /\ Head(toMaster) \notin Late
    BY <1>0, <1>1, <2>1, UnderWay
  <2> QED
    BY <2>1, <2>2 DEF Late, Answers
<1>4. CASE ReadCommand
  <2>1. toMaster # <<>> /\ toMaster' = Tail(toMaster) /\ reader' = "command"
    BY <1>4 DEF ReadCommand
  <2> QED
    BY <1>0, <1>1, <2>1, UnderWay
<1>5. CASE OrchAnswersUpdate
  <2>1. UNCHANGED <<reader, held>>
    BY <1>5 DEF OrchAnswersUpdate, masterVars
  <2>2. PICK k \in {"ok", "error"} : WriteToMaster(Answer(k, "update"))
    BY <1>5 DEF OrchAnswersUpdate
  <2>3. Answer(k, "update") \in ToMaster /\ Answer(k, "update") \notin Late
    BY DEF Answer, Answers, ToMaster, Late
  <2> QED
    BY <1>0, <1>1, <2>1, <2>2, <2>3, UnderWay
<1>6. CASE OrchAnswersLateReply
  BY <1>0, <1>6, NoLateReply
<1>7. ASSUME NEW r \in Calls, SendCommand(r)
      PROVE  (reader' = "offer" => held'.to = "update") /\ ~Has(toMaster', Late)
  <2>1. WriteToMaster(r) /\ UNCHANGED <<reader, held>>
    BY <1>7 DEF SendCommand, masterVars
  <2>2. r \in ToMaster /\ r \notin Late
    BY PacketAssumption DEF ToMaster, Late
  <2> QED
    BY <1>0, <1>1, <2>1, <2>2, UnderWay
<1>8. CASE Break
  <2>1. toMaster' = <<>> /\ UNCHANGED <<reader, held>>
    BY <1>8 DEF Break, masterVars
  <2> QED
    BY <1>1, <2>1, HasEmpty
<1>9. ASSUME Main \/ ReplyToCommand \/ ReadError \/ OrchResolves \/ OrchReadError
               \/ (\E r \in Calls : CallTimesOut(r)) \/ UNCHANGED vars
      PROVE  UNCHANGED toMaster /\ (reader' # "offer" \/ UNCHANGED <<reader, held>>)
  BY <1>9 DEF Main, SendUpdate, TakeAnswer, TakeReadError, TickerFires, ReplyToCommand,
              ReadError, OrchResolves, OrchReadError, CallTimesOut, vars, masterVars
<1> QED
  BY <1>2, <1>3, <1>4, <1>5, <1>6, <1>7, <1>8, <1>9 DEF Next, Reader, Orch, Caller

(* For any number of calls: connectLoop gives up a session whose connection *)
(* holds only for an error packet, the one that refuses its update unless a *)
(* caller of sendCommandWait has given up before.                           *)
THEOREM EndsForCauseThm == Spec => SessionEndsForCause
<1> DEFINE CauseInv == SessionInv /\ HoldsInv /\ LateInv
<1>1. Init => CauseInv
  <2> SUFFICES ASSUME Init PROVE CauseInv
    OBVIOUS
  <2>1. HoldsInv /\ LateInv
    BY HasEmpty DEF Init, HoldsInv, LateInv
  <2> QED
    BY <2>1, SessionInit
<1>2. CauseInv /\ SessionInv' /\ [Next]_vars => CauseInv'
  BY HoldsStep, LateStep DEF SessionInv
<1>3. CauseInv /\ [Next]_vars =>
        [main # "ended" /\ main' = "ended" /\ ~broken =>
            /\ reader = "offer" /\ held.kind = "error"
            /\ held.to = "update" \/ timeouts > 0]_vars
  <2> SUFFICES ASSUME CauseInv, Next, main # "ended", main' = "ended", ~broken
               PROVE  /\ reader = "offer" /\ held.kind = "error"
                      /\ held.to = "update" \/ timeouts > 0
    OBVIOUS
  <2>1. held \in Answers /\ timeouts \in Nat /\ orch = "open" /\ ~readErr
    BY DEF SessionInv, TypeOK, HoldsInv
  <2>2. TakeAnswer
    <3>1. CASE Main
      BY <2>1, <3>1 DEF Main, SendUpdate, TakeReadError, TickerFires, OrchHears
    <3>2. main' = main \/ Main
      BY DEF Next, Reader, ReadAnswer, ReadCommand, ReplyToCommand, ReadError, Orch,
             OrchResolves, OrchAnswersUpdate, OrchAnswersLateReply, OrchReadError, Caller,
             SendCommand, CallTimesOut, Break, masterVars
    <3> QED
      BY <3>1, <3>2
  <2>3. reader = "offer" /\ held.kind = "error"
    BY <2>1, <2>2 DEF TakeAnswer, Answers
  <2>4. held.to = "update" \/ timeouts > 0
    BY <2>1, <2>3 DEF LateInv
  <2> QED
    BY <2>3, <2>4
<1> QED
  BY <1>1, <1>2, <1>3, SessionInvariance, PTL DEF Spec, SessionEndsForCause

=============================================================================
