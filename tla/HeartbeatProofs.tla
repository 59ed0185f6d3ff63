-------------------------- MODULE HeartbeatProofs --------------------------
(***************************************************************************)
(* When the slowest command and a heartbeat together fit in the timeouts   *)
(* (Fits), no request of the master times out, whatever the constants; and *)
(* with handlers of any pace callers and packets match.                    *)
(***************************************************************************)
EXTENDS HeartbeatTiming, FiniteSetTheorems, TLAPS

\* Packet p is the i-th one the slave will read.
At(p, i) == i <= Len(queue) /\ queue[i] = p
Queued(p) == At(p, 1) \/ At(p, 2)

\* The slave holds at most one heartbeat and one command, each of them while
\* its caller waits.
Shape ==
    /\ Len(queue) <= 2
    /\ \A i \in 1..Len(queue) : queue[i] \in {"hb", "cmd"}
    /\ ~(At("hb", 1) /\ At("hb", 2)) /\ ~(At("cmd", 1) /\ At("cmd", 2))
    /\ job \in {"none", "hb", "cmd"}
    /\ hb = "waiting" <=> (job = "hb" \/ Queued("hb"))
    /\ ~(job = "hb" /\ Queued("hb"))
    /\ cmd = "waiting" <=> (job = "cmd" \/ Queued("cmd"))
    /\ ~(job = "cmd" /\ Queued("cmd"))

\* A heartbeat has waited at most for one command and for its own handler.
HbTiming ==
    /\ job = "hb" => hbLeft + SampleTime + slowest >= jobLeft + HeartbeatTimeout
    /\ job = "cmd" /\ Queued("hb") => hbLeft + slowest >= jobLeft + HeartbeatTimeout
    /\ job = "none" /\ Queued("hb") => hbLeft + slowest >= HeartbeatTimeout
    /\ job = "none" /\ At("hb", 2) => hbLeft = HeartbeatTimeout

\* A command has waited at most for one heartbeat and for its own handler.
CmdTiming ==
    /\ job = "cmd" => cmdLeft + SampleTime + slowest >= jobLeft + CommandTimeout
    /\ job = "hb" /\ Queued("cmd") => cmdLeft + SampleTime >= jobLeft + CommandTimeout
    /\ job = "none" /\ Queued("cmd") => cmdLeft + SampleTime >= CommandTimeout
    /\ job = "none" /\ At("cmd", 2) => cmdLeft = CommandTimeout

\* Nothing has taken longer than its handler may.
JobBounds ==
    /\ job = "hb" => jobLeft <= SampleTime
    /\ job = "cmd" => jobLeft <= slowest

InTime ==
    /\ TypeOK
    /\ hb # "failed" /\ ~expired
    /\ Shape
    /\ JobBounds
    /\ HbTiming
    /\ CmdTiming

-----------------------------------------------------------------------------
(* What the slave reads is the oldest packet, the others move up.           *)
LEMMA HeadTail ==
    ASSUME NEW q \in Seq(Packets), q # <<>>
    PROVE  /\ Len(q) >= 1 /\ Head(q) = q[1]
           /\ Len(Tail(q)) = Len(q) - 1
           /\ Len(q) = 2 => Tail(q)[1] = q[2]
OBVIOUS

(* A handler that takes its time t leaves the timer what it promised.       *)
LEMMA Slack ==
    \A max, t, left, timeout \in Nat :
        t <= max /\ left >= timeout => left + max >= t + timeout
OBVIOUS

(* The pace of a slave's commands does not change during a session.         *)
LEMMA SlowestConstant == [Next]_vars => slowest' = slowest
BY DEF Next, vars, SendHeartbeat, HeartbeatTimesOut, WakeUp, SendCommand,
     CommandTimesOut, ReadPacket, Reply, Tick

(* Every step of the heartbeat loop, the command goroutine, the slave and   *)
(* the clock preserves the types.                                           *)
LEMMA TypeInductive == TypeOK /\ [Next]_vars => TypeOK'
<1> SUFFICES ASSUME TypeOK, [Next]_vars PROVE TypeOK'
  OBVIOUS
<1>s. slowest' = slowest
  BY SlowestConstant
<1> USE TimesAssumption, <1>s DEF TypeOK, Packets, hbVars, cmdVars, slaveVars
<1>1. CASE SendHeartbeat
  BY <1>1 DEF SendHeartbeat
<1>2. CASE HeartbeatTimesOut \/ WakeUp
  BY <1>2 DEF HeartbeatTimesOut, WakeUp
<1>3. CASE SendCommand
  BY <1>3 DEF SendCommand
<1>4. CASE CommandTimesOut
  <2>1. \A i \in 1..Len(queue) : Abandon(queue[i]) \in {"hb", "cmd", "late"}
    BY DEF Abandon
  <2>2. [i \in 1..Len(queue) |-> Abandon(queue[i])] \in Seq({"hb", "cmd", "late"})
    BY <2>1
  <2>3. Abandon(job) \in {"hb", "cmd", "late", "none"}
    BY DEF Abandon
  <2> QED
    BY <1>4, <2>2, <2>3 DEF CommandTimesOut
<1>5. CASE ReadPacket
  BY <1>5 DEF ReadPacket, HandlerTimes
<1>6. CASE Reply
  BY <1>6 DEF Reply
<1>7. CASE Tick
  BY <1>7 DEF Tick, After1
<1>8. CASE UNCHANGED vars
  BY <1>8 DEF vars
<1> QED
  BY <1>1, <1>2, <1>3, <1>4, <1>5, <1>6, <1>7, <1>8 DEF Next

(* The session starts with values of the right types.                       *)
LEMMA InitType == Init => TypeOK
<1>1. <<>> \in Seq(Packets)
  OBVIOUS
<1>2. Init => expired \in BOOLEAN
  BY DEF Init
<1> QED
  BY <1>1, <1>2 DEF Init, TypeOK, Packets

(* The variables of the session keep their types, whatever the pace.        *)
THEOREM TypeCorrect == Spec => []TypeOK
<1> QED
  BY InitType, TypeInductive, PTL DEF Spec

(* With handlers that fit, the bounds on how long each request has waited   *)
(* are preserved by every step.                                             *)
LEMMA InTimeInductive ==
    Fits /\ InTime /\ [Next]_vars => InTime'
<1>t. InTime /\ [Next]_vars => TypeOK'
  BY TypeInductive DEF InTime
<1> DEFINE Rest == /\ hb # "failed" /\ ~expired
                   /\ Shape /\ JobBounds /\ HbTiming /\ CmdTiming
<1> SUFFICES ASSUME Fits, InTime, [Next]_vars PROVE Rest'
  BY <1>t DEF InTime
<1>n. TypeOK'
  BY <1>t
<1>s. slowest' = slowest
  BY SlowestConstant
<1> USE TimesAssumption, <1>s DEF InTime, TypeOK, Packets, Fits, Shape, JobBounds, HbTiming, CmdTiming, At, Queued,
    hbVars, cmdVars, slaveVars
<1>1. CASE SendHeartbeat
  BY <1>1, <1>n DEF SendHeartbeat
<1>2. CASE HeartbeatTimesOut
  BY <1>2, <1>n DEF HeartbeatTimesOut
<1>3. CASE WakeUp
  BY <1>3, <1>n DEF WakeUp
<1>4. CASE SendCommand
  BY <1>4, <1>n DEF SendCommand
<1>5. CASE CommandTimesOut
  BY <1>5, <1>n DEF CommandTimesOut
<1>6. CASE ReadPacket
  <2>1. /\ Len(queue) \in 1..2
        /\ job = "none" /\ job' = queue[1]
        /\ Len(queue') = Len(queue) - 1
        /\ Len(queue) = 2 => queue'[1] = queue[2]
        /\ jobLeft' \in HandlerTimes(queue[1])
        /\ UNCHANGED <<hb, hbLeft, cmd, cmdLeft, expired>>
    <3>1. queue # <<>>
      BY <1>6 DEF ReadPacket
    <3>2. /\ Len(queue) >= 1 /\ Head(queue) = queue[1]
          /\ Len(Tail(queue)) = Len(queue) - 1
          /\ Len(queue) = 2 => Tail(queue)[1] = queue[2]
      BY <3>1, HeadTail
    <3> QED
      BY <1>6, <3>2 DEF ReadPacket
  <2>2. CASE queue[1] = "hb"
    BY <2>1, <2>2 DEF HandlerTimes
  <2>3. CASE queue[1] = "cmd"
    <3>1. slowest \in Nat /\ jobLeft' \in Nat /\ jobLeft' <= slowest
      BY <2>1, <2>3 DEF HandlerTimes
    <3>2. (hb # "failed" /\ ~expired /\ Shape /\ JobBounds)'
      BY <2>1, <2>3, <3>1
    <3>3. HbTiming'
      <4>1. Queued("hb")' => hbLeft = HeartbeatTimeout
        BY <2>1
      <4>2. HeartbeatTimeout + slowest >= jobLeft' + HeartbeatTimeout
        <5>1. HeartbeatTimeout \in Nat /\ HeartbeatTimeout >= HeartbeatTimeout
          BY ONLY TimesAssumption
        <5> QED
          BY ONLY <3>1, <5>1, Slack
      <4> QED
        BY <2>1, <2>3, <4>1, <4>2
    <3>4. CmdTiming'
      <4>1. ~Queued("cmd")'
        BY <2>1, <2>3
      <4>2. cmdLeft + SampleTime >= CommandTimeout
        BY <2>1, <2>3
      <4>t. cmdLeft + SampleTime \in Nat
        OBVIOUS
      <4>3. cmdLeft + SampleTime + slowest >= jobLeft' + CommandTimeout
        BY ONLY <3>1, <4>2, <4>t, TimesAssumption, Slack
      <4> QED
        BY <2>1, <2>3, <4>1, <4>3
    <3> QED
      BY <3>2, <3>3, <3>4
  <2>4. queue[1] \in {"hb", "cmd"}
    BY <2>1
  <2> QED
    BY <2>2, <2>3, <2>4
<1>7. CASE Reply
  <2>1. (hb # "failed" /\ ~expired /\ Shape /\ JobBounds)'
    BY <1>7 DEF Reply
  <2>2. HbTiming'
    BY <1>7 DEF Reply
  <2>3. CmdTiming'
    BY <1>7 DEF Reply
  <2> QED
    BY <2>1, <2>2, <2>3
<1>8. CASE Tick
  <2>1. /\ hb = "waiting" => hbLeft' = hbLeft - 1
        /\ cmd = "waiting" => cmdLeft' = cmdLeft - 1
        /\ job # "none" => jobLeft' = jobLeft - 1
    BY <1>8 DEF Tick, After1, Running
  <2>2. (hb # "failed" /\ ~expired /\ Shape)'
    BY <1>8 DEF Tick
  <2>3. JobBounds'
    BY <1>8, <1>n, <2>1 DEF Tick
  <2>4. HbTiming'
    BY <1>8, <1>n, <2>1, SMTT(20) DEF Tick
  <2>5. CmdTiming'
    BY <1>8, <1>n, <2>1, SMTT(20) DEF Tick
  <2> QED
    BY <2>2, <2>3, <2>4, <2>5
<1>9. CASE UNCHANGED vars
  BY <1>9, <1>n DEF vars
<1> QED
  BY <1>1, <1>2, <1>3, <1>4, <1>5, <1>6, <1>7, <1>8, <1>9 DEF Next

(* With handlers that fit, the bounds hold throughout the session.          *)
THEOREM InTimeInvariance == Spec => [](Fits => InTime)
<1>1. Init => InTime
  <2>1. Init => TypeOK
    BY InitType
  <2> QED
    BY <2>1, TimesAssumption DEF Init, InTime, Shape, JobBounds, HbTiming, CmdTiming, At,
       Queued
<1>2. [Next]_vars /\ Fits' => Fits
  BY SlowestConstant DEF Fits
<1>3. (Fits => InTime) /\ [Next]_vars => (Fits => InTime)'
  BY <1>2, InTimeInductive
<1> QED
  BY <1>1, <1>3, PTL DEF Spec

(* A slave that answers every packet never loses its session to the         *)
(* heartbeat timeout of handleConnection, nor a command to the timeout of   *)
(* sendCommandToNodeWait, if its slowest command and the sampling of the    *)
(* CPU usage together take less than the timeouts.                          *)
THEOREM HealthySlaveServed == Spec => []HealthySlaveIsServed
<1>1. (Fits => InTime) => HealthySlaveIsServed
  BY DEF InTime, HealthySlaveIsServed
<1> QED
  BY <1>1, InTimeInvariance, PTL

-----------------------------------------------------------------------------
(* Callers and packets, whatever the slave's pace *)

\* The slave has p once, in its handler or at one place of its queue, or
\* does not have it.
Nowhere(p) == job # p /\ \A i \in 1..Len(queue) : queue[i] # p
Once(p) ==
    \/ job = p /\ \A i \in 1..Len(queue) : queue[i] # p
    \/ /\ job # p
       /\ \E i \in 1..Len(queue) :
             queue[i] = p /\ \A j \in 1..Len(queue) : queue[j] = p => j = i

Matched(p, waits) == (waits => Once(p)) /\ (~waits => Nowhere(p))

\* CallersMatchPackets without counting.
CallersInv ==
    /\ TypeOK
    /\ Matched("cmd", cmd = "waiting")
    /\ hb # "failed" => Matched("hb", hb = "waiting")

(* Being there once or not at all is what Copies counts.                    *)
LEMMA CopiesCount ==
    ASSUME TypeOK, NEW p \in Packets
    PROVE  (Nowhere(p) => Copies(p) = 0) /\ (Once(p) => Copies(p) = 1)
<1> DEFINE S == {i \in 1..Len(queue) : queue[i] = p}
<1>0. Copies(p) = Cardinality(S) + (IF job = p THEN 1 ELSE 0)
  BY DEF Copies
<1>1. (\A i \in 1..Len(queue) : queue[i] # p) => S = {}
  OBVIOUS
<1>2. ASSUME NEW i \in 1..Len(queue), queue[i] = p,
             \A j \in 1..Len(queue) : queue[j] = p => j = i
      PROVE  S = {i}
  BY <1>2
<1>3. Cardinality({}) = 0 /\ \A x : Cardinality({x}) = 1
  BY FS_EmptySet, FS_Singleton
<1> HIDE DEF S
<1>4. Nowhere(p) => Copies(p) = 0
  BY <1>0, <1>1, <1>3 DEF Nowhere
<1>5. ASSUME Once(p) PROVE Copies(p) = 1
  <2>1. CASE job = p /\ \A i \in 1..Len(queue) : queue[i] # p
    BY <1>0, <1>1, <1>3, <2>1
  <2>2. CASE /\ job # p
             /\ \E i \in 1..Len(queue) :
                   queue[i] = p /\ \A j \in 1..Len(queue) : queue[j] = p => j = i
    <3>1. \E i : S = {i}
      BY <1>2, <2>2
    <3>2. Cardinality(S) = 1
      BY <1>3, <3>1
    <3> QED
      BY <1>0, <2>2, <3>2
  <2> QED
    BY <1>5, <2>1, <2>2 DEF Once
<1> QED
  BY <1>4, <1>5

(* A packet written behind the queue is there once if it was not there, and *)
(* changes nothing for the other packets.                                   *)
LEMMA SendFacts ==
    ASSUME TypeOK, NEW p \in Packets, queue' = Append(queue, p), job' = job
    PROVE  /\ Nowhere(p) => Once(p)'
           /\ \A q \in Packets \ {p} : (Nowhere(q) => Nowhere(q)') /\ (Once(q) => Once(q)')
<1>1. /\ Len(queue) \in Nat /\ Len(queue') = Len(queue) + 1 /\ queue'[Len(queue) + 1] = p
      /\ \A i \in 1..Len(queue) : queue'[i] = queue[i]
  BY DEF TypeOK
<1>2. \A i \in 1..Len(queue') : i \in 1..Len(queue) \/ i = Len(queue) + 1
  BY <1>1
<1>3. 1..Len(queue) \subseteq 1..Len(queue') /\ Len(queue) + 1 \in 1..Len(queue')
  BY <1>1
<1>4. Nowhere(p) => Once(p)'
  BY <1>1, <1>2, <1>3 DEF Nowhere, Once
<1>5. ASSUME NEW q \in Packets \ {p}
      PROVE  (Nowhere(q) => Nowhere(q)') /\ (Once(q) => Once(q)')
  <2>1. Nowhere(q) => Nowhere(q)'
    BY <1>1, <1>2 DEF Nowhere
  <2>2. Once(q) => Once(q)'
    BY <1>1, <1>2, <1>3 DEF Once
  <2> QED
    BY <2>1, <2>2
<1> QED
  BY <1>4, <1>5

(* Reading the oldest packet moves it into the handler and the others up.   *)
LEMMA ReadFacts ==
    ASSUME TypeOK, ReadPacket, NEW p \in Packets
    PROVE  (Nowhere(p) => Nowhere(p)') /\ (Once(p) => Once(p)')
<1>1. /\ queue \in Seq(Packets) /\ queue # <<>> /\ job = "none" /\ job' = Head(queue)
      /\ queue' = Tail(queue)
  BY DEF TypeOK, ReadPacket
<1>2. /\ Len(queue) \in Nat /\ Len(queue) >= 1 /\ job' = queue[1] /\ Len(queue') = Len(queue) - 1
      /\ \A i \in 1..Len(queue') : queue'[i] = queue[i + 1]
  BY <1>1
<1>3. job # p
  BY <1>1 DEF Packets
<1>4. 1 \in 1..Len(queue) /\ \A i \in 1..Len(queue') : i + 1 \in 1..Len(queue)
  BY <1>2
<1>5. Nowhere(p) => Nowhere(p)'
  BY <1>2, <1>4 DEF Nowhere
<1>6. ASSUME Once(p) PROVE Once(p)'
  <2>1. PICK i \in 1..Len(queue) :
              queue[i] = p /\ \A j \in 1..Len(queue) : queue[j] = p => j = i
    BY <1>3, <1>6 DEF Once
  <2>2. CASE i = 1
    <3>1. \A j \in 1..Len(queue') : queue'[j] # p
      BY <1>2, <1>4, <2>1, <2>2
    <3> QED
      BY <1>2, <2>1, <2>2, <3>1 DEF Once
  <2>3. CASE i # 1
    <3>1. i - 1 \in 1..Len(queue') /\ (i - 1) + 1 = i
      BY <1>2, <2>3
    <3>2. queue'[i - 1] = p
      BY <1>2, <2>1, <3>1
    <3>3. \A j \in 1..Len(queue') : queue'[j] = p => j = i - 1
      BY <1>2, <1>4, <2>1
    <3>4. job' # p
      BY <1>2, <1>4, <2>1, <2>3
    <3> QED
      BY <3>1, <3>2, <3>3, <3>4 DEF Once
  <2> QED
    BY <2>2, <2>3
<1> QED
  BY <1>5, <1>6

(* Each step of the heartbeat loop, the command goroutine, the slave and    *)
(* the clock keeps every caller matched with its packet.                    *)
LEMMA CallersInductive == CallersInv /\ [Next]_vars => CallersInv'
<1> SUFFICES ASSUME CallersInv, [Next]_vars PROVE CallersInv'
  OBVIOUS
<1>t. TypeOK /\ TypeOK'
  BY TypeInductive DEF CallersInv
<1>p. {"hb", "cmd"} \subseteq Packets
  BY DEF Packets
<1> SUFFICES /\ Matched("cmd", cmd = "waiting")'
             /\ (hb # "failed" => Matched("hb", hb = "waiting"))'
  BY <1>t DEF CallersInv
<1>1. CASE SendHeartbeat
  <2>1. /\ queue' = Append(queue, "hb") /\ job' = job /\ cmd' = cmd
        /\ hb = "due" /\ hb' = "waiting"
    BY <1>1 DEF SendHeartbeat, cmdVars
  <2>2. /\ Nowhere("hb") => Once("hb")'
        /\ (Nowhere("cmd") => Nowhere("cmd")') /\ (Once("cmd") => Once("cmd")')
    BY <1>t, <1>p, <2>1, SendFacts
  <2> QED
    BY <2>1, <2>2 DEF CallersInv, Matched
<1>2. CASE HeartbeatTimesOut \/ WakeUp \/ Tick \/ UNCHANGED vars
  <2>1. /\ queue' = queue /\ job' = job /\ cmd' = cmd
        /\ hb' # "failed" => hb # "failed" /\ (hb' = "waiting" <=> hb = "waiting")
    BY <1>2 DEF HeartbeatTimesOut, WakeUp, Tick, vars, cmdVars, slaveVars
  <2> QED
    BY <2>1 DEF CallersInv, Matched, Nowhere, Once
<1>3. CASE SendCommand
  <2>1. /\ queue' = Append(queue, "cmd") /\ job' = job /\ hb' = hb
        /\ cmd = "idle" /\ cmd' = "waiting"
    BY <1>3 DEF SendCommand, hbVars
  <2>2. /\ Nowhere("cmd") => Once("cmd")'
        /\ (Nowhere("hb") => Nowhere("hb")') /\ (Once("hb") => Once("hb")')
    BY <1>t, <1>p, <2>1, SendFacts
  <2> QED
    BY <2>1, <2>2 DEF CallersInv, Matched
<1>4. CASE CommandTimesOut
  <2>1. /\ hb' = hb /\ cmd' = "idle" /\ job' = Abandon(job)
        /\ queue' = [i \in 1..Len(queue) |-> Abandon(queue[i])]
    BY <1>4 DEF CommandTimesOut, hbVars
  <2>2. Len(queue') = Len(queue) /\ \A i \in 1..Len(queue) : queue'[i] = Abandon(queue[i])
    BY <1>t, <2>1 DEF TypeOK
  <2>3. \A p : Abandon(p) # "cmd" /\ (Abandon(p) = "hb" <=> p = "hb")
    BY DEF Abandon
  <2>4. Nowhere("cmd")'
    BY <2>1, <2>2, <2>3 DEF Nowhere
  <2>5. (Nowhere("hb") => Nowhere("hb")') /\ (Once("hb") => Once("hb")')
    <3>1. /\ (job' = "hb") <=> (job = "hb")
          /\ Len(queue') = Len(queue)
          /\ \A i \in 1..Len(queue) : queue'[i] = "hb" <=> queue[i] = "hb"
      BY <2>1, <2>2, <2>3
    <3>2. Nowhere("hb") => Nowhere("hb")'
      BY <3>1 DEF Nowhere
    <3>3. Once("hb") => Once("hb")'
      BY <3>1 DEF Once
    <3> QED
      BY <3>2, <3>3
  <2> QED
    BY <2>1, <2>4, <2>5 DEF CallersInv, Matched
<1>5. CASE ReadPacket
  <2>1. hb' = hb /\ cmd' = cmd
    BY <1>5 DEF ReadPacket, hbVars, cmdVars
  <2>2. /\ (Nowhere("cmd") => Nowhere("cmd")') /\ (Once("cmd") => Once("cmd")')
        /\ (Nowhere("hb") => Nowhere("hb")') /\ (Once("hb") => Once("hb")')
    BY <1>t, <1>p, <1>5, ReadFacts
  <2> QED
    BY <2>1, <2>2 DEF CallersInv, Matched
<1>6. CASE Reply
  <2>1. /\ job # "none" /\ job' = "none" /\ queue' = queue
        /\ cmd' = IF job = "cmd" THEN "idle" ELSE cmd
        /\ hb' = IF job = "hb" /\ hb = "waiting" THEN "sleeping" ELSE hb
    BY <1>6 DEF Reply, hbVars
  <2>2. ASSUME NEW p \in {"hb", "cmd"}
        PROVE  /\ Once(p) /\ job = p => Nowhere(p)'
               /\ Once(p) /\ job # p => Once(p)'
               /\ Nowhere(p) => Nowhere(p)' /\ job # p
    BY <2>1 DEF Nowhere, Once
  <2> QED
    BY <2>1, <2>2 DEF CallersInv, Matched
<1> QED
  BY <1>1, <1>2, <1>3, <1>4, <1>5, <1>6 DEF Next

(* Whatever the times, the bound on the queue and the slave's pace, no      *)
(* request of sendRequest is lost or doubled on its way to the handler, and *)
(* none is there without a caller unless its caller has given up.           *)
THEOREM CallersMatchThm == Spec => []CallersMatchPackets
<1>1. Init => CallersInv
  <2>1. Init => Nowhere("hb") /\ Nowhere("cmd")
    BY DEF Init, Nowhere
  <2> QED
    BY <2>1, InitType DEF Init, CallersInv, Matched
<1>2. CallersInv => CallersMatchPackets
  <2> SUFFICES ASSUME CallersInv PROVE CallersMatchPackets
    OBVIOUS
  <2>1. \A p \in {"hb", "cmd"} : (Nowhere(p) => Copies(p) = 0) /\ (Once(p) => Copies(p) = 1)
    BY CopiesCount DEF CallersInv, Packets
  <2> QED
    BY <2>1 DEF CallersInv, Matched, CallersMatchPackets
<1> QED
  BY <1>1, <1>2, CallersInductive, PTL DEF Spec

=============================================================================
