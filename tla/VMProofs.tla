------------------------------ MODULE VMProofs ------------------------------
(***************************************************************************)
(* What VMLifecycle promises of the machines of a slave, for any domains   *)
(* and disks.                                                              *)
(*                                                                         *)
(* A handler acts on what it saw calls ago.  The inductive invariant says  *)
(* what is still true of that when the next call is made: which calls may  *)
(* follow which (TodoInv), what a delete that looked carries with it       *)
(* (DeleteInv), and, as long as no error of IsActive was dropped, that the *)
(* machine it looked at is still the one it saw (SeenInv).                 *)
(***************************************************************************)
EXTENDS VMLifecycle, Integers, TLAPS

CallsOf(op) ==
    CASE op = "create" -> {"volume", "define", "enable", "start"}
      [] op \in {"attach", "detach"} -> {"look", "update"}
      [] op = "delete" -> {"look", "destroy", "undefine", "remove"}
      [] OTHER -> {op}

\* The calls a handler makes one after the other.
Follows == {<<"volume", "define">>, <<"define", "enable">>, <<"define", "start">>,
            <<"enable", "start">>, <<"look", "update">>,
            <<"destroy", "undefine">>, <<"undefine", "remove">>}

Chain(todo, calls) ==
    \A i \in 1..Len(todo) :
        todo[i] \in calls /\ (i > 1 => <<todo[i - 1], todo[i]>> \in Follows)

TodoInv ==
    IF job.cmd = None THEN job = Idle
    ELSE /\ job.todo # <<>> /\ reply = "none" /\ Chain(job.todo, CallsOf(job.cmd.op))
         /\ job.cmd.op \in {"attach", "detach"} => job.todo[Len(job.todo)] = "update"

Doing(op) == job.cmd # None /\ job.cmd.op = op
Looked == Doing("delete") /\ job.todo[1] # "look"

DeleteInv ==
    Looked =>
        /\ job.cmd.remove => job.todo[Len(job.todo)] = "remove"
        /\ job.todo[1] = "destroy" => job.cmd.force
        /\ job.paths \subseteq {job.disk}
        /\ job.disk \in job.paths \/ "paths" \in ignored

Owned(disk) == \E n \in Vms : domains[n] # None /\ domains[n].disk = disk

DisksInv ==
    \A n \in Vms : domains[n] # None =>
        /\ domains[n].persistent
        /\ domains[n].running => domains[n].live = domains[n].cd
        /\ domains[n].disk \in volumes
        /\ \A m \in Vms \ {n} : domains[m] # None => domains[m].disk # domains[n].disk

Machine == domains[job.cmd.vm]

HandlerInv ==
    /\ Doing("create") /\ job.todo[1] = "define" =>
          job.cmd.disk \in volumes /\ ~Owned(job.cmd.disk)
    /\ job.cmd # None /\ job.todo[1] = "update" /\ Machine # None /\ Machine.running =>
          job.active
    /\ Looked /\ job.todo[1] = "undefine" /\ Machine # None => ~Machine.running
    /\ Looked /\ job.todo[1] # "remove" /\ Machine # None => Machine.disk = job.disk
    /\ Looked /\ job.todo[1] = "remove" => ~Owned(job.disk)

SeenInv == "active" \notin ignored => DisksInv /\ HandlerInv

VMInv == TypeOK /\ TodoInv /\ DeleteInv /\ SeenInv

-----------------------------------------------------------------------------
(* Commands and the calls they are made of *)

\* The fields of a command, by its operation.
LEMMA CommandFacts ==
    ASSUME NEW c \in Commands
    PROVE  /\ c # None /\ c.vm \in Vms
           /\ c.op \in {"create", "delete", "attach", "detach"} \cup Simple
           /\ c.op = "create" => c.disk \in Disks /\ c.iso \in BOOLEAN
                                   /\ c.autostart \in BOOLEAN /\ c.start \in BOOLEAN
           /\ c.op = "delete" => c.force \in BOOLEAN /\ c.remove \in BOOLEAN
BY NoneAssumption DEF Commands, Creates, Deletes, Actions, Simple

\* A call that is made on a condition.
LEMMA OnlyFacts ==
    ASSUME NEW C, NEW call \in C, NEW yes \in BOOLEAN
    PROVE  /\ Only(yes, call) \in Seq(C)
           /\ Len(Only(yes, call)) = IF yes THEN 1 ELSE 0
           /\ yes => Only(yes, call)[1] = call
<1>1. CASE yes
  <2>1. Only(yes, call) = <<call>>
    BY <1>1 DEF Only
  <2> QED
    BY <2>1, <1>1
<1>2. CASE ~yes
  <2>1. Only(yes, call) = <<>>
    BY <1>2 DEF Only
  <2>2. <<>> \in Seq(C) /\ Len(<<>>) = 0
    OBVIOUS
  <2> QED
    BY <2>1, <2>2, <1>2
<1> QED
  BY <1>1, <1>2

\* One list of calls after another.
LEMMA JoinFacts ==
    ASSUME NEW C, NEW s \in Seq(C), NEW t \in Seq(C)
    PROVE  /\ s \o t \in Seq(C)
           /\ Len(s \o t) = Len(s) + Len(t)
           /\ \A i \in 1..Len(s) : (s \o t)[i] = s[i]
           /\ \A i \in 1..Len(t) : (s \o t)[Len(s) + i] = t[i]
OBVIOUS

\* The calls of a create.
LEMMA CreatePlan ==
    ASSUME NEW a \in BOOLEAN, NEW b \in BOOLEAN
    PROVE  LET C == {"volume", "define", "enable", "start"}
               t == <<"volume", "define">> \o Only(a, "enable") \o Only(b, "start")
           IN  t \in Seq(C) /\ t # <<>> /\ Chain(t, C) /\ t[1] = "volume"
<1> DEFINE C == {"volume", "define", "enable", "start"}
           v == <<"volume", "define">>
           e == Only(a, "enable")
           w == Only(b, "start")
           u == v \o e
           t == u \o w
<1>1. v \in Seq(C) /\ Len(v) = 2 /\ v[1] = "volume" /\ v[2] = "define"
  OBVIOUS
<1>2. e \in Seq(C) /\ Len(e) = (IF a THEN 1 ELSE 0) /\ (a => e[1] = "enable")
  BY OnlyFacts
<1>3. w \in Seq(C) /\ Len(w) = (IF b THEN 1 ELSE 0) /\ (b => w[1] = "start")
  BY OnlyFacts
<1> HIDE DEF v, e, w, C
<1>4. /\ u \in Seq(C) /\ Len(u) = Len(v) + Len(e)
      /\ \A i \in 1..Len(v) : u[i] = v[i]
      /\ \A i \in 1..Len(e) : u[Len(v) + i] = e[i]
  <2>1. v \in Seq(C) /\ e \in Seq(C)
    BY <1>1, <1>2
  <2> QED
    BY ONLY <2>1, JoinFacts
<1> HIDE DEF u
<1>5. /\ u[1] = "volume" /\ u[2] = "define" /\ Len(u) = (IF a THEN 3 ELSE 2)
      /\ a => u[3] = "enable"
  <2>1. u[1] = v[1] /\ u[2] = v[2] /\ Len(u) = 2 + Len(e)
    BY <1>1, <1>4
  <2>2. Len(e) = 1 => u[3] = e[1]
    BY <1>1, <1>4
  <2> QED
    BY <2>1, <2>2, <1>1, <1>2
<1>6. /\ t \in Seq(C) /\ Len(t) = Len(u) + Len(w)
      /\ \A i \in 1..Len(u) : t[i] = u[i]
      /\ \A i \in 1..Len(w) : t[Len(u) + i] = w[i]
  BY <1>3, <1>4, JoinFacts
<1> HIDE DEF t
<1>7. /\ t[1] = "volume" /\ t[2] = "define" /\ (a => t[3] = "enable")
      /\ Len(t) = Len(u) + (IF b THEN 1 ELSE 0) /\ (b => t[Len(t)] = "start")
  BY <1>3, <1>5, <1>6
<1>8. ASSUME NEW i \in 1..Len(t)
      PROVE  t[i] \in C /\ (i > 1 => <<t[i - 1], t[i]>> \in Follows)
  <2>1. i \in {1, 2, 3, 4} /\ t[i] \in C
    BY <1>5, <1>6, <1>7
  <2>2. CASE i = 1
    BY <2>1, <2>2
  <2>3. CASE i = 2
    BY <2>1, <2>3, <1>7 DEF Follows
  <2>4. CASE i = 3
    BY <2>1, <2>4, <1>5, <1>7 DEF Follows
  <2>5. CASE i = 4
    BY <2>1, <2>5, <1>5, <1>7 DEF Follows
  <2> QED
    BY <2>1, <2>2, <2>3, <2>4, <2>5
<1>9. t \in Seq(C) /\ t # <<>> /\ Chain(t, C) /\ t[1] = "volume"
  BY <1>5, <1>6, <1>7, <1>8 DEF Chain
<1> QED
  BY <1>9 DEF t, u, v, w, e, C

\* The calls of a delete that has looked at its machine.
LEMMA DeletePlanFacts ==
    ASSUME NEW c \in Deletes, NEW active \in BOOLEAN
    PROVE  LET C == {"look", "destroy", "undefine", "remove"}
               t == DeletePlan(c, active)
           IN  /\ t \in Seq(C) /\ t # <<>> /\ Chain(t, C)
               /\ t[1] = IF active THEN "destroy" ELSE "undefine"
               /\ c.remove => t[Len(t)] = "remove"
<1> DEFINE C == {"look", "destroy", "undefine", "remove"}
           v == Only(active, "destroy")
           e == <<"undefine">>
           w == Only(c.remove, "remove")
           u == v \o e
           t == u \o w
<1>0. c.remove \in BOOLEAN
  BY DEF Deletes
<1>1. v \in Seq(C) /\ Len(v) = (IF active THEN 1 ELSE 0) /\ (active => v[1] = "destroy")
  BY OnlyFacts
<1>2. e \in Seq(C) /\ Len(e) = 1 /\ e[1] = "undefine"
  OBVIOUS
<1>3. w \in Seq(C) /\ Len(w) = (IF c.remove THEN 1 ELSE 0) /\ (c.remove => w[1] = "remove")
  BY <1>0, OnlyFacts
<1> HIDE DEF v, e, w, C
<1>4. /\ u \in Seq(C) /\ Len(u) = Len(v) + Len(e)
      /\ \A i \in 1..Len(v) : u[i] = v[i]
      /\ \A i \in 1..Len(e) : u[Len(v) + i] = e[i]
  <2>1. v \in Seq(C) /\ e \in Seq(C)
    BY <1>1, <1>2
  <2> QED
    BY ONLY <2>1, JoinFacts
<1> HIDE DEF u
<1>5. /\ Len(u) = (IF active THEN 2 ELSE 1) /\ u[Len(u)] = "undefine"
      /\ active => u[1] = "destroy"
  BY <1>1, <1>2, <1>4
<1>6. /\ t \in Seq(C) /\ Len(t) = Len(u) + Len(w)
      /\ \A i \in 1..Len(u) : t[i] = u[i]
      /\ \A i \in 1..Len(w) : t[Len(u) + i] = w[i]
  BY <1>3, <1>4, JoinFacts
<1> HIDE DEF t
<1>7. /\ t[1] = (IF active THEN "destroy" ELSE "undefine") /\ (active => t[2] = "undefine")
      /\ Len(t) = Len(u) + (IF c.remove THEN 1 ELSE 0)
      /\ c.remove => t[Len(t)] = "remove"
  BY <1>3, <1>5, <1>6
<1>8. ASSUME NEW i \in 1..Len(t)
      PROVE  t[i] \in C /\ (i > 1 => <<t[i - 1], t[i]>> \in Follows)
  <2>1. i \in {1, 2, 3} /\ t[i] \in C
    BY <1>5, <1>6, <1>7
  <2>2. CASE i = 1
    BY <2>1, <2>2
  <2>3. CASE i = 2
    BY <2>1, <2>3, <1>5, <1>7 DEF Follows
  <2>4. CASE i = 3
    BY <2>1, <2>4, <1>5, <1>7 DEF Follows
  <2> QED
    BY <2>1, <2>2, <2>3, <2>4
<1>9. /\ t \in Seq(C) /\ t # <<>> /\ Chain(t, C)
      /\ t[1] = IF active THEN "destroy" ELSE "undefine"
      /\ c.remove => t[Len(t)] = "remove"
  BY <1>5, <1>6, <1>7, <1>8 DEF Chain
<1> QED
  BY <1>9 DEF t, u, v, w, e, C, DeletePlan

\* The calls of any command, as they are known when it arrives.
LEMMA PlanFacts ==
    ASSUME NEW c \in Commands
    PROVE  /\ Plan(c) \in Seq(Calls) /\ Plan(c) # <<>> /\ Chain(Plan(c), CallsOf(c.op))
           /\ Plan(c)[1] \notin {"define", "update"}
           /\ c.op = "delete" => Plan(c)[1] = "look"
           /\ c.op \in {"attach", "detach"} => Plan(c)[Len(Plan(c))] = "update"
<1>1. CASE c.op = "create"
  <2> DEFINE t == <<"volume", "define">> \o Only(c.autostart, "enable") \o Only(c.start, "start")
             C == {"volume", "define", "enable", "start"}
  <2>1. Plan(c) = t /\ CallsOf(c.op) = C
    BY <1>1 DEF Plan, CallsOf
  <2>2. t \in Seq(C) /\ t # <<>> /\ Chain(t, C) /\ t[1] = "volume"
    BY <1>1, CommandFacts, CreatePlan
  <2>3. C \subseteq Calls
    BY DEF Calls, Simple
  <2> HIDE DEF t, C
  <2>4. t \in Seq(Calls)
    BY <2>2, <2>3
  <2> QED
    BY <1>1, <2>1, <2>2, <2>4
<1>2. CASE c.op \in {"attach", "detach"}
  <2> DEFINE t == <<"look", "update">>
  <2>1. Plan(c) = t /\ CallsOf(c.op) = {"look", "update"}
    BY <1>2 DEF Plan, CallsOf
  <2>2. t \in Seq(Calls) /\ Len(t) = 2 /\ t[1] = "look" /\ t[2] = "update"
    BY DEF Calls
  <2> HIDE DEF t
  <2>3. Chain(t, {"look", "update"})
    BY <2>2 DEF Chain, Follows
  <2> QED
    BY <1>2, <2>1, <2>2, <2>3, SMTT(20)
<1>3. CASE c.op = "delete"
  <2> DEFINE t == <<"look">>
  <2>1. Plan(c) = t /\ CallsOf(c.op) = {"look", "destroy", "undefine", "remove"}
    BY <1>3 DEF Plan, CallsOf
  <2>2. t \in Seq(Calls) /\ Len(t) = 1 /\ t[1] = "look"
    BY DEF Calls
  <2> HIDE DEF t
  <2>3. Chain(t, {"look", "destroy", "undefine", "remove"})
    BY <2>2 DEF Chain
  <2> QED
    <3>1. t # <<>> /\ t[1] \notin {"define", "update"}
      BY <2>2
    <3> QED
      BY <3>1, <1>3, <2>1, <2>2, <2>3
<1>4. CASE c.op \in Simple
  <2> DEFINE t == <<c.op>>
  <2>1. Plan(c) = t /\ CallsOf(c.op) = {c.op}
    BY <1>4 DEF Plan, CallsOf, Simple
  <2>2. t \in Seq(Calls) /\ Len(t) = 1 /\ t[1] = c.op
    BY <1>4 DEF Calls
  <2> HIDE DEF t
  <2>3. Chain(t, {c.op})
    BY <2>2 DEF Chain
  <2> QED
    BY <1>4, <2>1, <2>2, <2>3 DEF Simple
<1> QED
  BY <1>1, <1>2, <1>3, <1>4, CommandFacts

\* What is left of a list of calls after its first one.
LEMMA TailFacts ==
    ASSUME NEW C, NEW t \in Seq(C), Len(t) > 1
    PROVE  /\ Tail(t) \in Seq(C) /\ Len(Tail(t)) = Len(t) - 1
           /\ \A i \in 1..(Len(t) - 1) : Tail(t)[i] = t[i + 1]
OBVIOUS

\* The rest of a chain is a chain.
LEMMA TailChain ==
    ASSUME NEW S, NEW C, NEW s \in Seq(S), Len(s) > 1, Chain(s, C)
    PROVE  /\ Tail(s) \in Seq(S) /\ Tail(s) # <<>> /\ Chain(Tail(s), C)
           /\ <<s[1], Tail(s)[1]>> \in Follows /\ Tail(s)[Len(Tail(s))] = s[Len(s)]
<1> DEFINE t == Tail(s)
<1>1. /\ t \in Seq(S) /\ Len(t) = Len(s) - 1
      /\ \A i \in 1..(Len(s) - 1) : t[i] = s[i + 1]
  BY TailFacts
<1> HIDE DEF t
<1>2. t[1] = s[2] /\ t[Len(t)] = s[Len(s)] /\ t # <<>>
  BY <1>1
<1>3. <<s[1], t[1]>> \in Follows
  <2>1. 2 \in 1..Len(s) /\ 2 > 1 /\ 2 - 1 = 1
    OBVIOUS
  <2> QED
    BY <2>1, <1>2 DEF Chain
<1>4. Chain(t, C)
  <2> SUFFICES ASSUME NEW i \in 1..Len(t)
               PROVE  t[i] \in C /\ (i > 1 => <<t[i - 1], t[i]>> \in Follows)
    BY DEF Chain
  <2>1. /\ i + 1 \in 1..Len(s) /\ i + 1 > 1 /\ (i + 1) - 1 = i
        /\ t[i] = s[i + 1] /\ (i > 1 => t[i - 1] = s[i])
    BY <1>1
  <2>2. s[i + 1] \in C /\ <<s[i], s[i + 1]>> \in Follows
    BY <2>1 DEF Chain
  <2> QED
    BY <2>1, <2>2
<1> QED
  BY <1>1, <1>2, <1>3, <1>4 DEF t

-----------------------------------------------------------------------------
(* Steps of a handler *)

\* The call is one that the command makes.
LEMMA BusyFacts ==
    ASSUME TypeOK, TodoInv, NEW call, Busy(call)
    PROVE  /\ job \in Jobs /\ job.cmd \in Commands /\ job.cmd.vm \in Vms /\ job.cmd # None
           /\ job.todo \in Seq(Calls) /\ Len(job.todo) >= 1 /\ job.todo[1] = call
           /\ call \in CallsOf(job.cmd.op) /\ reply = "none"
           /\ Chain(job.todo, CallsOf(job.cmd.op))
<1>1. job.cmd # None
  BY DEF TodoInv, Idle, Busy
<1>2. job \in Jobs /\ job.cmd \in Commands /\ job.todo \in Seq(Calls)
  BY <1>1 DEF TypeOK, Jobs
<1>3. job.todo # <<>> /\ Head(job.todo) = call
  BY DEF Busy
<1>4. Len(job.todo) >= 1 /\ job.todo[1] = call
  BY <1>2, <1>3
<1>5. reply = "none" /\ Chain(job.todo, CallsOf(job.cmd.op))
  BY <1>1 DEF TodoInv
<1>6. call \in CallsOf(job.cmd.op)
  <2>1. 1 \in 1..Len(job.todo)
    BY <1>2, <1>4
  <2> QED
    BY <2>1, <1>4, <1>5 DEF Chain
<1> QED
  BY <1>1, <1>2, <1>4, <1>5, <1>6, CommandFacts

\* A slave without a command.
LEMMA IdleKeeps ==
    ASSUME job' = Idle
    PROVE  job' \in Jobs /\ TodoInv' /\ DeleteInv' /\ HandlerInv'
<1>1. Idle.cmd = None /\ Idle \in Jobs
  BY DEF Idle, Jobs
<1> QED
  BY <1>1 DEF TodoInv, DeleteInv, HandlerInv, Doing, Looked

\* A call that succeeds leaves the calls behind it as they were planned.
LEMMA ProceedKeeps ==
    ASSUME TypeOK, TodoInv, DeleteInv, NEW call, Busy(call), call # "look", Proceed,
           ignored \subseteq ignored'
    PROVE  /\ job' \in Jobs /\ reply' \in {"none", "ok", "error"}
           /\ TodoInv' /\ DeleteInv'
           /\ \/ job' = Idle /\ Len(job.todo) = 1
              \/ /\ job'.cmd = job.cmd /\ job'.active = job.active
                 /\ job'.paths = job.paths /\ job'.disk = job.disk
                 /\ <<call, job'.todo[1]>> \in Follows /\ reply' = reply
<1>1. /\ job \in Jobs /\ job.cmd \in Commands /\ job.cmd # None
      /\ job.todo \in Seq(Calls) /\ Len(job.todo) >= 1 /\ job.todo[1] = call
      /\ reply = "none" /\ Chain(job.todo, CallsOf(job.cmd.op))
  BY BusyFacts
<1>2. CASE Len(job.todo) = 1
  <2>1. job' = Idle /\ reply' = "ok"
    BY <1>2 DEF Proceed, Answer
  <2> QED
    BY <1>2, <2>1, IdleKeeps
<1>3. CASE Len(job.todo) # 1
  <2>1. job' = [job EXCEPT !.todo = Tail(@)] /\ reply' = reply
    BY <1>3 DEF Proceed
  <2>2. Len(job.todo) > 1
    <3>1. PICK n \in Nat : n = Len(job.todo)
      BY <1>1
    <3>2. n >= 1 /\ n # 1
      BY <3>1, <1>1, <1>3
    <3>3. n > 1
      BY <3>2
    <3> QED
      BY <3>1, <3>3
  <2>3. PICK t : t = Tail(job.todo)
    OBVIOUS
  <2>4. /\ t \in Seq(Calls) /\ t # <<>> /\ Chain(t, CallsOf(job.cmd.op))
        /\ <<call, t[1]>> \in Follows /\ t[Len(t)] = job.todo[Len(job.todo)]
    BY <1>1, <2>2, <2>3, TailChain
  <2>5. /\ job' \in Jobs /\ job'.cmd = job.cmd /\ job'.active = job.active
        /\ job'.paths = job.paths /\ job'.disk = job.disk /\ job'.todo = t
    BY <1>1, <2>1, <2>3, <2>4 DEF Jobs
  <2>6. TodoInv'
    BY <1>1, <2>1, <2>4, <2>5 DEF TodoInv
  <2>7. DeleteInv'
    <3>1. t[1] # "destroy"
      BY <2>4 DEF Follows
    <3>2. Doing("delete")' => Looked
      BY <1>1, <2>5 DEF Doing, Looked
    <3> QED
      BY <3>1, <3>2, <2>4, <2>5 DEF DeleteInv, Looked
  <2> QED
    BY <1>1, <2>1, <2>4, <2>5, <2>6, <2>7
<1> QED
  BY <1>2, <1>3

-----------------------------------------------------------------------------
(* Machines *)

\* Starting and stopping touch neither the disk nor the definition; a
\* machine without a definition is gone once it stops.
LEMMA StartStopFacts ==
    ASSUME NEW d \in Domains
    PROVE  /\ d # None
           /\ Started(d) \in Domains /\ Started(d).disk = d.disk /\ Started(d).cd = d.cd
           /\ Started(d).persistent = d.persistent /\ Started(d).live = d.cd
           /\ d.persistent => /\ Stopped(d) \in Domains /\ Stopped(d).disk = d.disk
                              /\ Stopped(d).persistent /\ ~Stopped(d).running
           /\ Stopped(d) \in Domains \cup {None}
           /\ Stopped(d) # None => Stopped(d).disk = d.disk /\ d.persistent
BY NoneAssumption DEF Domains, Drives, Started, Stopped

\* What may happen to machines without harm: they keep their disks.
LEMMA DisksKeep ==
    ASSUME DisksInv, volumes \subseteq volumes',
           \A n \in Vms : domains'[n] # None =>
               /\ domains[n] # None /\ domains'[n].disk = domains[n].disk
               /\ domains'[n].persistent
               /\ domains'[n].running => domains'[n].live = domains'[n].cd
    PROVE  DisksInv' /\ \A d : Owned(d)' => Owned(d)
BY DEF DisksInv, Owned

\* Steps that leave the machines alone.
LEMMA SameMachines ==
    ASSUME DisksInv, volumes \subseteq volumes', domains' = domains
    PROVE  DisksInv' /\ \A d : Owned(d)' = Owned(d)
BY DEF DisksInv, Owned

\* One machine changes, and keeps its disk.
LEMMA OneMachine ==
    ASSUME TypeOK, DisksInv, volumes' = volumes, NEW n \in Vms, NEW d \in Domains \cup {None},
           domains[n] # None, domains' = [domains EXCEPT ![n] = d],
           d # None => /\ d.disk = domains[n].disk /\ d.persistent
                       /\ d.running => d.live = d.cd
    PROVE  DisksInv' /\ \A e : Owned(e)' => Owned(e)
<1>1. domains'[n] = d /\ \A m \in Vms \ {n} : domains'[m] = domains[m]
  BY DEF TypeOK
<1>2. ASSUME NEW m \in Vms, domains'[m] # None
      PROVE  /\ domains[m] # None /\ domains'[m].disk = domains[m].disk
             /\ domains'[m].persistent
             /\ domains'[m].running => domains'[m].live = domains'[m].cd
  <2>1. CASE m = n
    BY <1>1, <1>2, <2>1
  <2>2. CASE m # n
    BY <1>1, <1>2, <2>2 DEF DisksInv
  <2> QED
    BY <2>1, <2>2
<1> QED
  BY <1>2, DisksKeep

-----------------------------------------------------------------------------
(* The invariant, action by action *)

\* There is no machine, no volume and no command.
LEMMA InitInv == Init => VMInv
<1> SUFFICES ASSUME Init PROVE VMInv
  OBVIOUS
<1>1. Idle.cmd = None /\ Idle \in Jobs
  BY DEF Idle, Jobs
<1>2. TypeOK /\ TodoInv /\ DeleteInv
  BY <1>1 DEF Init, TypeOK, TodoInv, DeleteInv, Looked, Doing
<1>3. DisksInv /\ HandlerInv
  BY <1>1 DEF Init, DisksInv, HandlerInv, Looked, Doing
<1> QED
  BY <1>2, <1>3 DEF VMInv, SeenInv

\* A command arrives: nothing is known of its machine yet.
LEMMA ReceiveKeeps == ASSUME VMInv, NEW c \in Commands, Receive(c) PROVE VMInv'
<1>1. /\ Plan(c) \in Seq(Calls) /\ Plan(c) # <<>> /\ Chain(Plan(c), CallsOf(c.op))
      /\ Plan(c)[1] \notin {"define", "update"}
      /\ c.op = "delete" => Plan(c)[1] = "look"
      /\ c.op \in {"attach", "detach"} => Plan(c)[Len(Plan(c))] = "update"
  BY PlanFacts
<1>2. /\ job' \in Jobs /\ job'.cmd = c /\ job'.todo = Plan(c)
  BY <1>1 DEF Receive, Idle, Jobs
<1>3. reply' = "none" /\ UNCHANGED <<domains, volumes, ignored>> /\ conn' \in {"nil", conn, "open"}
  BY DEF Receive
<1>4. TypeOK'
  BY <1>2, <1>3 DEF VMInv, TypeOK
<1>5. c # None
  BY CommandFacts
<1>6. TodoInv'
  BY <1>1, <1>2, <1>3, <1>5 DEF TodoInv
<1>7. ~Looked'
  BY <1>1, <1>2 DEF Looked, Doing
<1>8. HandlerInv'
  BY <1>1, <1>2, <1>7 DEF HandlerInv
<1>9. ignored' = ignored /\ (DisksInv => DisksInv')
  BY <1>3, SameMachines
<1> QED
  BY <1>4, <1>6, <1>7, <1>8, <1>9 DEF VMInv, DeleteInv, SeenInv

\* The command ends, the machines are as they were.
LEMMA EndKeeps ==
    ASSUME VMInv, job' = Idle, reply' \in {"none", "error"}, conn' \in {"nil", conn},
           UNCHANGED <<domains, volumes, ignored>>
    PROVE  VMInv'
<1>1. job' \in Jobs /\ TodoInv' /\ DeleteInv' /\ HandlerInv'
  BY IdleKeeps
<1>2. TypeOK'
  BY <1>1 DEF VMInv, TypeOK
<1>3. ignored' = ignored /\ (DisksInv => DisksInv')
  BY SameMachines
<1> QED
  BY <1>1, <1>2, <1>3 DEF VMInv, SeenInv

\* Which operations make a call.
LEMMA CallOp ==
    ASSUME NEW c \in Commands, NEW call \in CallsOf(c.op)
    PROVE  /\ call \in {"volume", "define"} => c.op = "create"
           /\ call \in {"undefine", "remove"} => c.op = "delete"
           /\ call \in {"start", "enable", "disable", "update"} => c.op # "delete"
           /\ call = "destroy" => c.op \in {"delete", "destroy"}
BY CommandFacts DEF CallsOf, Simple

\* A call that succeeds, given what it does to the machines.
LEMMA CallKeeps ==
    ASSUME VMInv, NEW call, Busy(call), call # "look", Proceed,
           domains' \in [Vms -> Domains \cup {None}], volumes' \subseteq Disks, conn' = conn,
           ignored \subseteq ignored', ignored' \subseteq {"active", "paths", "lookup"},
           DisksInv /\ HandlerInv => DisksInv' /\ HandlerInv'
    PROVE  VMInv'
<1>1. job' \in Jobs /\ reply' \in {"none", "ok", "error"} /\ TodoInv' /\ DeleteInv'
  BY ProceedKeeps DEF VMInv
<1>2. TypeOK'
  BY <1>1 DEF VMInv, TypeOK
<1>3. SeenInv'
  BY DEF VMInv, SeenInv
<1> QED
  BY <1>1, <1>2, <1>3 DEF VMInv

\* The volume of a new machine is one no machine has.
LEMMA CreateVolumeKeeps == ASSUME VMInv, CreateVolume PROVE VMInv'
<1>1. Busy("volume") /\ Proceed /\ UNCHANGED <<domains, conn, ignored>>
  BY DEF CreateVolume
<1>2. job.cmd \in Commands /\ job.cmd # None /\ job.cmd.op = "create" /\ job.cmd.disk \in Disks
  BY <1>1, BusyFacts, CallOp, CommandFacts DEF VMInv
<1>3. /\ volumes' = volumes \cup {job.cmd.disk} /\ volumes' \subseteq Disks
      /\ job.cmd.disk \notin volumes
  BY <1>2 DEF CreateVolume, VMInv, TypeOK
<1>4. ASSUME DisksInv, HandlerInv PROVE DisksInv' /\ HandlerInv'
  <2>1. DisksInv' /\ \A d : Owned(d)' = Owned(d)
    BY <1>1, <1>3, <1>4, SameMachines
  <2>2. ~Owned(job.cmd.disk)
    BY <1>3, <1>4 DEF DisksInv, Owned
  <2>3. CASE job' = Idle
    BY <2>1, <2>3, IdleKeeps
  <2>4. CASE job' # Idle
    <3>1. job'.cmd = job.cmd /\ job'.todo[1] = "define"
      BY <1>1, <2>4, ProceedKeeps DEF VMInv, Follows
    <3> QED
      BY <1>2, <1>3, <2>1, <2>2, <3>1 DEF HandlerInv, Doing, Looked
  <2> QED
    BY <2>3, <2>4
<1> QED
  BY <1>1, <1>3, <1>4, CallKeeps DEF VMInv, TypeOK

\* The machine that is defined gets that volume.
LEMMA DefineDomainKeeps == ASSUME VMInv, DefineDomain PROVE VMInv'
<1>1. Busy("define") /\ Proceed /\ UNCHANGED <<volumes, conn, ignored>>
  BY DEF DefineDomain
<1>2. /\ job.cmd \in Commands /\ job.cmd # None /\ job.cmd.op = "create"
      /\ job.cmd.disk \in Disks /\ job.cmd.iso \in BOOLEAN /\ job.cmd.vm \in Vms
      /\ job.todo[1] = "define"
  BY <1>1, BusyFacts, CallOp, CommandFacts DEF VMInv
<1>3. PICK d : d = [disk |-> job.cmd.disk, persistent |-> TRUE, running |-> FALSE,
                    autostart |-> FALSE, live |-> "none",
                    cd |-> IF job.cmd.iso THEN "iso" ELSE "none"]
  OBVIOUS
<1>4. d \in Domains /\ d.disk = job.cmd.disk /\ d.persistent /\ ~d.running /\ d # None
  <2>1. PICK cd \in Drives : cd = IF job.cmd.iso THEN "iso" ELSE "none"
    BY DEF Drives
  <2>2. d = [disk |-> job.cmd.disk, persistent |-> TRUE, running |-> FALSE,
             autostart |-> FALSE, live |-> "none", cd |-> cd]
    BY <1>3, <2>1
  <2>3. d \in Domains
    BY <1>2, <2>2 DEF Domains, Drives
  <2> QED
    BY <2>2, <2>3, NoneAssumption
<1>5. PICK n \in Vms : n = job.cmd.vm
  BY <1>2
<1>6. domains' = [domains EXCEPT ![n] = d] /\ domains[n] = None
  BY <1>3, <1>5 DEF DefineDomain
<1>7. /\ domains' \in [Vms -> Domains \cup {None}] /\ domains'[n] = d
      /\ \A m \in Vms \ {n} : domains'[m] = domains[m]
  BY <1>4, <1>6 DEF VMInv, TypeOK
<1>8. ASSUME DisksInv, HandlerInv PROVE DisksInv' /\ HandlerInv'
  <2>1. job.cmd.disk \in volumes /\ ~Owned(job.cmd.disk)
    BY <1>2, <1>8 DEF HandlerInv, Doing
  <2>2. DisksInv'
    <3> SUFFICES ASSUME NEW m \in Vms, domains'[m] # None
                 PROVE  /\ domains'[m].persistent
                        /\ domains'[m].running => domains'[m].live = domains'[m].cd
                        /\ domains'[m].disk \in volumes'
                        /\ \A k \in Vms \ {m} : domains'[k] # None =>
                                domains'[k].disk # domains'[m].disk
      BY DEF DisksInv
    <3>1. CASE m = n
      BY <3>1, <1>1, <1>4, <1>7, <2>1 DEF Owned
    <3>2. CASE m # n
      <4>1. domains'[m] = domains[m] /\ domains[m] # None
        BY <3>2, <1>7
      <4>2. domains[m].disk # d.disk
        BY <4>1, <2>1, <1>4 DEF Owned
      <4>3. ASSUME NEW k \in Vms \ {m}, domains'[k] # None
            PROVE  domains'[k].disk # domains'[m].disk
        BY <4>1, <4>2, <4>3, <1>7, <1>8 DEF DisksInv
      <4> QED
        BY <4>1, <4>3, <1>1, <1>8 DEF DisksInv
    <3> QED
      BY <3>1, <3>2
  <2>3. CASE job' = Idle
    BY <2>2, <2>3, IdleKeeps
  <2>4. CASE job' # Idle
    <3>1. job'.cmd = job.cmd /\ job'.todo[1] \in {"enable", "start"}
      BY <1>1, <2>4, ProceedKeeps DEF VMInv, Follows
    <3> QED
      BY <1>2, <2>2, <3>1 DEF HandlerInv, Doing, Looked
  <2> QED
    BY <2>3, <2>4
<1> QED
  BY <1>1, <1>7, <1>8, CallKeeps DEF VMInv, TypeOK

\* The calls of the simple handlers change one machine and keep its disk.
LEMMA StartDomainKeeps == ASSUME VMInv, NEW n \in Vms, StartDomain(n) PROVE VMInv'
<1>1. /\ Busy("start") /\ Proceed /\ UNCHANGED <<volumes, conn, ignored>>
      /\ domains[n] # None /\ domains' = [domains EXCEPT ![n] = Started(domains[n])]
  BY DEF StartDomain, VMInv, TypeOK
<1>2. domains[n] \in Domains /\ domains \in [Vms -> Domains \cup {None}]
  BY <1>1 DEF VMInv, TypeOK
<1>3. PICK d \in Domains : d = Started(domains[n])
  BY <1>2, StartStopFacts
<1>4. domains' = [domains EXCEPT ![n] = d] /\ domains' \in [Vms -> Domains \cup {None}]
  BY <1>1, <1>2, <1>3
<1>5. ASSUME DisksInv, HandlerInv PROVE DisksInv' /\ HandlerInv'
  <2>1. d.disk = domains[n].disk /\ d.persistent /\ d.live = d.cd
    BY <1>1, <1>2, <1>3, <1>5, StartStopFacts DEF DisksInv
  <2>2. DisksInv'
    BY <1>1, <1>4, <1>5, <2>1, OneMachine DEF VMInv
  <2>3. job' = Idle
    BY <1>1, ProceedKeeps DEF VMInv, Follows
  <2> QED
    BY <2>2, <2>3, IdleKeeps
<1> QED
  BY <1>1, <1>4, <1>5, CallKeeps DEF VMInv, TypeOK

\* What the guest is asked to do is up to the guest.
LEMMA AskGuestKeeps == ASSUME VMInv, NEW n \in Vms, AskGuest(n) PROVE VMInv'
<1>1. PICK call \in {"shutdown", "reboot"} : Busy(call)
  BY DEF AskGuest
<1>2. Proceed /\ UNCHANGED <<domains, volumes, conn, ignored>>
  BY DEF AskGuest
<1>3. ASSUME DisksInv, HandlerInv PROVE DisksInv' /\ HandlerInv'
  <2>1. DisksInv'
    BY <1>2, <1>3, SameMachines
  <2>2. job' = Idle
    BY <1>1, <1>2, ProceedKeeps DEF VMInv, Follows
  <2> QED
    BY <2>1, <2>2, IdleKeeps
<1> QED
  BY <1>1, <1>2, <1>3, CallKeeps DEF VMInv, TypeOK

\* A delete that stopped its machine finds it stopped when it undefines it.
LEMMA DestroyDomainKeeps == ASSUME VMInv, NEW n \in Vms, DestroyDomain(n) PROVE VMInv'
<1>1. /\ Busy("destroy") /\ Proceed /\ UNCHANGED <<volumes, conn, ignored>>
      /\ job.cmd.vm = n
      /\ domains[n] # None /\ domains' = [domains EXCEPT ![n] = Stopped(domains[n])]
  BY DEF DestroyDomain, VMInv, TypeOK
<1>2. domains[n] \in Domains /\ domains \in [Vms -> Domains \cup {None}]
  BY <1>1 DEF VMInv, TypeOK
<1>3. PICK d \in Domains \cup {None} : d = Stopped(domains[n])
  BY <1>2, StartStopFacts
<1>4. /\ domains' = [domains EXCEPT ![n] = d] /\ domains' \in [Vms -> Domains \cup {None}]
      /\ domains'[n] = d
  BY <1>1, <1>2, <1>3
<1>5. /\ job.cmd \in Commands /\ job.cmd # None /\ job.todo[1] = "destroy"
      /\ job.cmd.op \in {"delete", "destroy"}
  BY <1>1, BusyFacts, CallOp DEF VMInv
<1>6. ASSUME DisksInv, HandlerInv PROVE DisksInv' /\ HandlerInv'
  <2>1. d.disk = domains[n].disk /\ d.persistent /\ ~d.running /\ d # None
    BY <1>1, <1>2, <1>3, <1>6, StartStopFacts DEF DisksInv
  <2>2. DisksInv'
    BY <1>1, <1>4, <1>6, <2>1, OneMachine DEF VMInv
  <2>3. CASE job' = Idle
    BY <2>2, <2>3, IdleKeeps
  <2>4. CASE job' # Idle
    <3>1. job'.cmd = job.cmd /\ job'.disk = job.disk /\ job'.todo[1] = "undefine"
      BY <1>1, <2>4, ProceedKeeps DEF VMInv, Follows
    <3>2. Looked' => domains[n].disk = job.disk
      BY <3>1, <1>1, <1>5, <1>6 DEF HandlerInv, Looked, Doing, Machine
    <3> QED
      BY <1>1, <1>4, <2>1, <2>2, <3>1, <3>2 DEF HandlerInv, Doing, Machine
  <2> QED
    BY <2>3, <2>4
<1> QED
  BY <1>1, <1>4, <1>6, CallKeeps DEF VMInv, TypeOK

\* Autostart is part of the definition, and changes nothing else.
LEMMA SetAutostartKeeps == ASSUME VMInv, NEW n \in Vms, SetAutostart(n) PROVE VMInv'
<1>1. PICK call \in {"enable", "disable"} : Busy(call)
  BY DEF SetAutostart
<1>2. PICK yes \in BOOLEAN : yes = Busy("enable")
  BY DEF Busy
<1>3. /\ Proceed /\ UNCHANGED <<volumes, conn, ignored>> /\ domains[n] # None
      /\ domains' = [domains EXCEPT ![n] = [domains[n] EXCEPT !.autostart = yes]]
  BY <1>2 DEF SetAutostart, VMInv, TypeOK
<1>4. domains[n] \in Domains /\ domains \in [Vms -> Domains \cup {None}]
  BY <1>3 DEF VMInv, TypeOK
<1>5. PICK d : d = [domains[n] EXCEPT !.autostart = yes]
  OBVIOUS
<1>6. /\ d \in Domains /\ d.disk = domains[n].disk /\ d.persistent = domains[n].persistent
      /\ d.running = domains[n].running /\ d.live = domains[n].live /\ d.cd = domains[n].cd
  BY <1>4, <1>5 DEF Domains
<1>7. domains' = [domains EXCEPT ![n] = d] /\ domains' \in [Vms -> Domains \cup {None}]
  BY <1>3, <1>4, <1>5, <1>6
<1>8. ASSUME DisksInv, HandlerInv PROVE DisksInv' /\ HandlerInv'
  <2>1. d.persistent /\ (d.running => d.live = d.cd)
    BY <1>3, <1>6, <1>8 DEF DisksInv
  <2>2. DisksInv'
    BY <1>3, <1>6, <1>7, <1>8, <2>1, OneMachine DEF VMInv
  <2>3. CASE job' = Idle
    BY <2>2, <2>3, IdleKeeps
  <2>4. CASE job' # Idle
    <3>1. job'.cmd = job.cmd /\ job'.todo[1] = "start" /\ call = "enable"
      BY <1>1, <1>3, <2>4, ProceedKeeps DEF VMInv, Follows
    <3>2. job.cmd.op # "delete"
      BY <1>1, <3>1, BusyFacts, CallOp DEF VMInv
    <3> QED
      BY <2>2, <3>1, <3>2 DEF HandlerInv, Doing, Looked
  <2> QED
    BY <2>3, <2>4
<1> QED
  BY <1>1, <1>3, <1>7, <1>8, CallKeeps DEF VMInv, TypeOK

\* The drive of a running machine is changed with its definition.
LEMMA UpdateDeviceKeeps == ASSUME VMInv, NEW n \in Vms, UpdateDevice(n) PROVE VMInv'
<1>1. PICK m \in Drives : m = Medium
  BY DEF Medium, Drives
<1>2. /\ Busy("update") /\ Proceed /\ UNCHANGED <<volumes, conn, ignored>>
      /\ job.cmd.vm = n /\ domains[n] # None
  BY DEF UpdateDevice
<1>3. domains[n] \in Domains /\ domains \in [Vms -> Domains \cup {None}]
  BY <1>2 DEF VMInv, TypeOK
<1>4. /\ job.cmd # None /\ job.todo[1] = "update"
  BY <1>2, BusyFacts DEF VMInv
<1>5. PICK d : d = [domains[n] EXCEPT !.cd = m, !.live = IF job.active THEN m ELSE @]
  OBVIOUS
<1>6. /\ d \in Domains /\ d.disk = domains[n].disk /\ d.persistent = domains[n].persistent
      /\ d.running = domains[n].running /\ (job.active => d.live = d.cd)
  BY <1>1, <1>3, <1>5 DEF Domains
<1>7. domains' = [domains EXCEPT ![n] = d] /\ domains' \in [Vms -> Domains \cup {None}]
  <2>1. domains' = [domains EXCEPT ![n] = d]
    BY <1>1, <1>3, <1>5 DEF UpdateDevice
  <2> QED
    BY <2>1, <1>3, <1>6
<1>8. ASSUME DisksInv, HandlerInv PROVE DisksInv' /\ HandlerInv'
  <2>1. d.persistent
    BY <1>2, <1>6, <1>8 DEF DisksInv
  <2>2. d.running => d.live = d.cd
    BY <1>2, <1>4, <1>6, <1>8 DEF HandlerInv, Machine
  <2>3. DisksInv'
    BY <1>2, <1>6, <1>7, <1>8, <2>1, <2>2, OneMachine DEF VMInv
  <2>4. job' = Idle
    BY <1>2, ProceedKeeps DEF VMInv, Follows
  <2> QED
    BY <2>3, <2>4, IdleKeeps
<1> QED
  BY <1>2, <1>7, <1>8, CallKeeps DEF VMInv, TypeOK

\* A machine that is undefined is gone, and so nobody has its disk.
LEMMA UndefineDomainKeeps == ASSUME VMInv, NEW n \in Vms, UndefineDomain(n) PROVE VMInv'
<1>1. /\ Busy("undefine") /\ Proceed /\ UNCHANGED <<volumes, conn, ignored>>
      /\ job.cmd.vm = n /\ domains[n] # None
  BY DEF UndefineDomain
<1>2. domains[n] \in Domains /\ domains \in [Vms -> Domains \cup {None}]
  BY <1>1 DEF VMInv, TypeOK
<1>3. PICK d : d = IF domains[n].running THEN [domains[n] EXCEPT !.persistent = FALSE]
                   ELSE None
  OBVIOUS
<1>4. d \in Domains \cup {None}
  BY <1>2, <1>3 DEF Domains
<1>5. /\ domains' = [domains EXCEPT ![n] = d] /\ domains' \in [Vms -> Domains \cup {None}]
      /\ domains'[n] = d /\ \A m \in Vms \ {n} : domains'[m] = domains[m]
  BY <1>2, <1>3, <1>4 DEF UndefineDomain
<1>6. /\ job.cmd \in Commands /\ job.cmd # None /\ job.todo[1] = "undefine"
      /\ job.cmd.op = "delete"
  BY <1>1, BusyFacts, CallOp DEF VMInv
<1>7. ASSUME DisksInv, HandlerInv PROVE DisksInv' /\ HandlerInv'
  <2>1. Looked /\ ~domains[n].running /\ domains[n].disk = job.disk
    BY <1>1, <1>6, <1>7 DEF HandlerInv, Looked, Doing, Machine
  <2>2. d = None
    BY <1>3, <2>1
  <2>3. DisksInv'
    BY <1>1, <1>4, <1>5, <1>7, <2>2, OneMachine DEF VMInv
  <2>4. ASSUME NEW m \in Vms, domains'[m] # None
        PROVE  domains'[m].disk # job.disk
    BY <1>1, <1>5, <1>7, <2>1, <2>2, <2>4 DEF DisksInv
  <2>5. CASE job' = Idle
    BY <2>3, <2>5, IdleKeeps
  <2>6. CASE job' # Idle
    <3>1. job'.cmd = job.cmd /\ job'.disk = job.disk /\ job'.todo[1] = "remove"
      BY <1>1, <2>6, ProceedKeeps DEF VMInv, Follows
    <3>2. ~Owned(job.disk)'
      BY <2>4, <3>1 DEF Owned
    <3> QED
      BY <2>3, <3>1, <3>2 DEF HandlerInv, Doing
  <2> QED
    BY <2>5, <2>6
<1> QED
  BY <1>1, <1>5, <1>7, CallKeeps DEF VMInv, TypeOK

\* The volumes that are removed are nobody's.
LEMMA RemoveVolumesKeeps == ASSUME VMInv, RemoveVolumes PROVE VMInv'
<1>1. Busy("remove") /\ Proceed /\ UNCHANGED <<domains, conn>>
  BY DEF RemoveVolumes
<1>2. /\ job.cmd \in Commands /\ job.cmd # None /\ job.todo[1] = "remove"
      /\ job.cmd.op = "delete"
  BY <1>1, BusyFacts, CallOp DEF VMInv
<1>3. Looked /\ job.paths \subseteq {job.disk}
  BY <1>2 DEF VMInv, DeleteInv, Looked, Doing
<1>4. volumes' = volumes \/ volumes' = volumes \ job.paths
  BY DEF RemoveVolumes
<1>5. /\ ignored \subseteq ignored' /\ ignored' \subseteq {"active", "paths", "lookup"}
      /\ volumes' \subseteq Disks
  BY <1>4 DEF RemoveVolumes, VMInv, TypeOK
<1>6. ASSUME DisksInv, HandlerInv PROVE DisksInv' /\ HandlerInv'
  <2>1. ~Owned(job.disk)
    BY <1>2, <1>3, <1>6 DEF HandlerInv
  <2>2. ASSUME NEW m \in Vms, domains[m] # None PROVE domains[m].disk \in volumes'
    BY <1>3, <1>4, <1>6, <2>1, <2>2 DEF DisksInv, Owned
  <2>3. DisksInv'
    BY <1>1, <1>6, <2>2 DEF DisksInv
  <2>4. job' = Idle
    BY <1>1, <1>5, ProceedKeeps DEF VMInv, Follows
  <2> QED
    BY <2>3, <2>4, IdleKeeps
<1> QED
  BY <1>1, <1>5, <1>6, CallKeeps DEF VMInv, TypeOK

\* Unless IsActive failed, the flags fit the machine.
LEMMA LookMediaKeeps == ASSUME VMInv, NEW n \in Vms, LookMedia(n) PROVE VMInv'
<1>1. /\ Busy("look") /\ job.cmd.op \in {"attach", "detach"}
      /\ job.cmd.vm = n /\ domains[n] # None /\ UNCHANGED <<domains, volumes, conn, reply>>
  BY DEF LookMedia
<1>2. PICK active \in SeenActive(n) :
          /\ job' = [job EXCEPT !.active = active, !.todo = Tail(@)]
          /\ ignored' = ignored \cup Dropped(n, active, {domains[n].disk})
  BY DEF LookMedia
<1>3. domains[n] \in Domains /\ domains[n].running \in BOOLEAN /\ active \in BOOLEAN
  BY <1>1, <1>2 DEF VMInv, TypeOK, Domains, SeenActive
<1>4. /\ job \in Jobs /\ job.cmd \in Commands /\ job.cmd # None
      /\ job.todo \in Seq(Calls) /\ Len(job.todo) >= 1 /\ job.todo[1] = "look"
      /\ reply = "none" /\ Chain(job.todo, CallsOf(job.cmd.op))
  BY <1>1, BusyFacts DEF VMInv
<1>5. /\ ignored \subseteq ignored' /\ ignored' \subseteq {"active", "paths", "lookup"}
      /\ "active" \notin ignored' => active = domains[n].running
  BY <1>2 DEF Dropped, VMInv, TypeOK
<1>6. Len(job.todo) > 1
  <2>1. job.todo[Len(job.todo)] = "update"
    BY <1>1, <1>4 DEF VMInv, TodoInv
  <2>2. PICK k \in Nat : k = Len(job.todo)
    BY <1>4
  <2>3. k >= 1 /\ k # 1
    BY <1>4, <2>1, <2>2
  <2>4. k > 1
    BY <2>3
  <2> QED
    BY <2>2, <2>4
<1>7. PICK t : t = Tail(job.todo)
  OBVIOUS
<1>8. /\ t \in Seq(Calls) /\ t # <<>> /\ Chain(t, CallsOf(job.cmd.op))
      /\ <<"look", t[1]>> \in Follows /\ t[Len(t)] = job.todo[Len(job.todo)]
  BY <1>4, <1>6, <1>7, TailChain
<1>9. job' \in Jobs /\ job'.cmd = job.cmd /\ job'.active = active /\ job'.todo = t
  BY <1>2, <1>3, <1>4, <1>7, <1>8 DEF Jobs
<1>10. TypeOK'
  BY <1>1, <1>5, <1>9 DEF VMInv, TypeOK
<1>11. TodoInv'
  BY <1>1, <1>4, <1>8, <1>9 DEF VMInv, TodoInv
<1>12. ~Doing("delete")' /\ ~Doing("create")'
  BY <1>1, <1>9 DEF Doing
<1>13. ASSUME "active" \notin ignored' PROVE DisksInv' /\ HandlerInv'
  <2>1. DisksInv'
    BY <1>1, <1>5, <1>13, SameMachines DEF VMInv, SeenInv
  <2>2. domains'[n].running => active
    BY <1>1, <1>5, <1>13
  <2> QED
    BY <1>1, <1>9, <1>12, <2>1, <2>2 DEF HandlerInv, Looked, Machine
<1> QED
  BY <1>10, <1>11, <1>12, <1>13 DEF VMInv, DeleteInv, SeenInv, Looked

\* Unless an error was dropped, the delete knows its machine and the disk.
LEMMA LookDeleteKeeps == ASSUME VMInv, NEW n \in Vms, LookDelete(n) PROVE VMInv'
<1>1. /\ Busy("look") /\ job.cmd.op = "delete"
      /\ job.cmd.vm = n /\ domains[n] # None /\ UNCHANGED <<domains, volumes, conn>>
  BY DEF LookDelete
<1>2. PICK active \in SeenActive(n), paths \in SeenPaths(n) :
          /\ IF active /\ ~job.cmd.force THEN Answer("error") ELSE GoOn(n, active, paths)
          /\ ignored' = ignored \cup Dropped(n, active, paths)
  BY DEF LookDelete
<1>3. /\ domains[n] \in Domains /\ domains[n].running \in BOOLEAN /\ active \in BOOLEAN
      /\ domains[n].disk \in Disks /\ paths \in SUBSET Disks
      /\ paths \subseteq {domains[n].disk}
  BY <1>1, <1>2 DEF VMInv, TypeOK, Domains, SeenActive, SeenPaths
<1>4. /\ job \in Jobs /\ job.cmd \in Commands /\ job.cmd # None /\ reply = "none"
  BY <1>1, BusyFacts DEF VMInv
<1>5. /\ ignored \subseteq ignored' /\ ignored' \subseteq {"active", "paths", "lookup"}
      /\ "active" \notin ignored' => active = domains[n].running
      /\ "paths" \notin ignored' => domains[n].disk \in paths
  BY <1>2 DEF Dropped, VMInv, TypeOK
<1>6. "active" \notin ignored' => DisksInv'
  BY <1>1, <1>5, SameMachines DEF VMInv, SeenInv
<1>7. CASE active /\ ~job.cmd.force
  <2>1. job' = Idle /\ reply' = "error"
    BY <1>2, <1>7 DEF Answer
  <2>2. job' \in Jobs /\ TodoInv' /\ DeleteInv' /\ HandlerInv'
    BY <2>1, IdleKeeps
  <2>3. TypeOK'
    BY <1>1, <1>5, <2>1, <2>2 DEF VMInv, TypeOK
  <2> QED
    BY <2>2, <2>3, <1>6 DEF VMInv, SeenInv
<1>8. CASE ~(active /\ ~job.cmd.force)
  <2>1. PICK t : t = DeletePlan(job.cmd, active)
    OBVIOUS
  <2>2. job.cmd \in Deletes
    BY <1>1, <1>4 DEF Commands, Creates, Actions, Simple
  <2>3. /\ t \in Seq({"look", "destroy", "undefine", "remove"}) /\ t # <<>>
        /\ Chain(t, {"look", "destroy", "undefine", "remove"})
        /\ t[1] = IF active THEN "destroy" ELSE "undefine"
        /\ job.cmd.remove => t[Len(t)] = "remove"
    BY <1>3, <2>1, <2>2, DeletePlanFacts
  <2>4. t \in Seq(Calls) /\ CallsOf(job.cmd.op) = {"look", "destroy", "undefine", "remove"}
    BY <1>1, <2>3 DEF Calls, CallsOf, Simple
  <2>5. /\ job' = [job EXCEPT !.todo = t, !.active = active,
                              !.paths = paths, !.disk = domains[n].disk]
        /\ reply' = reply
    BY <1>2, <1>8, <2>1 DEF GoOn
  <2>6. /\ job' \in Jobs /\ job'.cmd = job.cmd /\ job'.todo = t
        /\ job'.paths = paths /\ job'.disk = domains[n].disk
    BY <1>3, <1>4, <2>4, <2>5 DEF Jobs
  <2>7. TypeOK'
    BY <1>1, <1>4, <1>5, <2>5, <2>6 DEF VMInv, TypeOK
  <2>8. TodoInv'
    BY <1>1, <1>4, <2>3, <2>4, <2>5, <2>6 DEF TodoInv
  <2>9. DeleteInv'
    BY <1>3, <1>5, <1>8, <2>3, <2>6 DEF DeleteInv
  <2>10. ASSUME "active" \notin ignored' PROVE HandlerInv'
    <3>1. t[1] \in {"destroy", "undefine"} /\ (t[1] = "undefine" => ~domains[n].running)
      BY <1>3, <1>5, <2>3, <2>10
    <3> QED
      BY <1>1, <1>4, <2>6, <3>1 DEF HandlerInv, Doing, Machine
  <2> QED
    BY <1>6, <2>7, <2>8, <2>9, <2>10 DEF VMInv, SeenInv
<1> QED
  BY <1>7, <1>8

\* A guest that stops between two calls of a handler keeps its disk.
LEMMA GuestStopsKeeps == ASSUME VMInv, NEW n \in Vms, GuestStops(n) PROVE VMInv'
<1>1. /\ UNCHANGED <<volumes, conn, job, reply, ignored>> /\ domains[n] # None
      /\ domains' = [domains EXCEPT ![n] = Stopped(domains[n])]
  BY DEF GuestStops, VMInv, TypeOK
<1>2. domains[n] \in Domains /\ domains \in [Vms -> Domains \cup {None}]
  BY <1>1 DEF VMInv, TypeOK
<1>3. PICK d \in Domains \cup {None} : d = Stopped(domains[n])
  BY <1>2, StartStopFacts
<1>4. /\ domains' = [domains EXCEPT ![n] = d] /\ domains' \in [Vms -> Domains \cup {None}]
      /\ domains'[n] = d /\ \A m \in Vms \ {n} : domains'[m] = domains[m]
  BY <1>1, <1>2, <1>3
<1>5. TypeOK' /\ TodoInv' /\ DeleteInv'
  BY <1>1, <1>4 DEF VMInv, TypeOK, TodoInv, DeleteInv, Looked, Doing
<1>6. ASSUME DisksInv, HandlerInv PROVE DisksInv' /\ HandlerInv'
  <2>1. d.disk = domains[n].disk /\ d.persistent /\ ~d.running /\ d # None
    BY <1>1, <1>2, <1>3, <1>6, StartStopFacts DEF DisksInv
  <2>2. DisksInv' /\ \A e : Owned(e)' => Owned(e)
    BY <1>1, <1>4, <1>6, <2>1, OneMachine DEF VMInv
  <2>3. (Doing("create") = Doing("create")') /\ (Looked = Looked')
    BY <1>1 DEF Doing, Looked
  <2>4. ASSUME job.cmd # None, domains'[job.cmd.vm] # None
        PROVE  /\ domains[job.cmd.vm] # None /\ domains'[job.cmd.vm].disk = domains[job.cmd.vm].disk
               /\ domains'[job.cmd.vm].running => domains[job.cmd.vm].running
    <3>1. PICK m \in Vms : m = job.cmd.vm
      BY <2>4, CommandFacts DEF VMInv, TypeOK, Jobs
    <3>2. CASE m = n
      BY <3>1, <3>2, <1>1, <1>4, <2>1
    <3>3. CASE m # n
      BY <3>1, <3>3, <1>4, <2>4
    <3> QED
      BY <3>2, <3>3
  <2>5. (Doing("create") /\ job.todo[1] = "define" => job.cmd.disk \in volumes /\ ~Owned(job.cmd.disk))'
    BY <1>1, <1>6, <2>2, <2>3 DEF HandlerInv
  <2>6. (job.cmd # None /\ job.todo[1] = "update" /\ Machine # None /\ Machine.running => job.active)'
    BY <1>1, <1>6, <2>4 DEF HandlerInv, Machine
  <2>7. (Looked /\ job.todo[1] = "undefine" /\ Machine # None => ~Machine.running)'
    BY <1>1, <1>6, <2>3, <2>4 DEF HandlerInv, Machine, Looked, Doing
  <2>8. (Looked /\ job.todo[1] # "remove" /\ Machine # None => Machine.disk = job.disk)'
    BY <1>1, <1>6, <2>3, <2>4 DEF HandlerInv, Machine, Looked, Doing
  <2>9. (Looked /\ job.todo[1] = "remove" => ~Owned(job.disk))'
    BY <1>1, <1>6, <2>2, <2>3 DEF HandlerInv
  <2> QED
    BY <2>2, <2>5, <2>6, <2>7, <2>8, <2>9 DEF HandlerInv
<1> QED
  BY <1>1, <1>5, <1>6 DEF VMInv, SeenInv

\* After a reboot the machines that are defined are there, with their disks.
LEMMA HostRebootsKeeps == ASSUME VMInv, HostReboots PROVE VMInv'
<1>1. /\ job' = Idle /\ conn' = "nil" /\ reply' = "none" /\ UNCHANGED <<volumes, ignored>>
      /\ domains' = [n \in Vms |-> Rebooted(domains[n])]
  BY DEF HostReboots, SlaveDies
<1>2. job' \in Jobs /\ TodoInv' /\ DeleteInv' /\ HandlerInv'
  BY <1>1, IdleKeeps
<1>3. ASSUME NEW n \in Vms
      PROVE  /\ Rebooted(domains[n]) \in Domains \cup {None}
             /\ Rebooted(domains[n]) # None =>
                   /\ domains[n] # None /\ Rebooted(domains[n]).disk = domains[n].disk
                   /\ Rebooted(domains[n]).persistent
                   /\ Rebooted(domains[n]).running => Rebooted(domains[n]).live = Rebooted(domains[n]).cd
  <2>1. CASE domains[n] = None \/ ~domains[n].persistent
    BY <2>1 DEF Rebooted
  <2>2. CASE domains[n] # None /\ domains[n].persistent
    <3>1. domains[n] \in Domains
      BY <2>2 DEF VMInv, TypeOK
    <3>2. Rebooted(domains[n]) = IF domains[n].autostart THEN Started(domains[n])
                                 ELSE Stopped(domains[n])
      BY <2>2 DEF Rebooted
    <3> QED
      BY <2>2, <3>1, <3>2, StartStopFacts
  <2> QED
    BY <2>1, <2>2
<1>4. domains' \in [Vms -> Domains \cup {None}]
  BY <1>1, <1>3
<1>5. TypeOK'
  BY <1>1, <1>2, <1>4 DEF VMInv, TypeOK
<1>6. ASSUME DisksInv PROVE DisksInv'
  <2>1. \A n \in Vms : domains'[n] = Rebooted(domains[n])
    BY <1>1
  <2> QED
    BY <1>1, <1>3, <1>6, <2>1, DisksKeep
<1> QED
  BY <1>1, <1>2, <1>5, <1>6 DEF VMInv, SeenInv

-----------------------------------------------------------------------------
(* The theorems *)

\* Every step keeps the invariant.
LEMMA NextKeeps == VMInv /\ [Next]_vars => VMInv'
<1> SUFFICES ASSUME VMInv, [Next]_vars PROVE VMInv'
  OBVIOUS
<1>1. ASSUME NEW c \in Commands, Receive(c) PROVE VMInv'
  BY <1>1, ReceiveKeeps
<1>2. CASE CallFails
  BY <1>2, EndKeeps DEF CallFails, Answer
<1>3. CASE CreateVolume
  BY <1>3, CreateVolumeKeeps
<1>4. CASE DefineDomain
  BY <1>4, DefineDomainKeeps
<1>5. CASE RemoveVolumes
  BY <1>5, RemoveVolumesKeeps
<1>6. ASSUME NEW n \in Vms, Handler(n) PROVE VMInv'
  BY <1>6, StartDomainKeeps, AskGuestKeeps, DestroyDomainKeeps, SetAutostartKeeps,
     LookMediaKeeps, UpdateDeviceKeeps, LookDeleteKeeps, UndefineDomainKeeps DEF Handler
<1>7. ASSUME NEW n \in Vms, GuestStops(n) PROVE VMInv'
  BY <1>7, GuestStopsKeeps
<1>8. CASE LibvirtdRestarts
  <2>1. UNCHANGED <<domains, volumes, job, reply, ignored>> /\ conn' = "dead"
    BY <1>8 DEF LibvirtdRestarts
  <2> QED
    BY <2>1 DEF VMInv, TypeOK, TodoInv, DeleteInv, SeenInv, DisksInv, HandlerInv, Machine,
                Owned, Looked, Doing
<1>9. CASE SlaveCrash
  BY <1>9, EndKeeps DEF SlaveCrash, SlaveDies
<1>10. CASE HostReboots
  BY <1>10, HostRebootsKeeps
<1>11. CASE UNCHANGED vars
  BY <1>11 DEF vars, VMInv, TypeOK, TodoInv, DeleteInv, SeenInv, DisksInv, HandlerInv, Machine,
               Owned, Looked, Doing
<1> QED
  BY <1>1, <1>2, <1>3, <1>4, <1>5, <1>6, <1>7, <1>8, <1>9, <1>10, <1>11 DEF Next

(* Whatever calls fail and whoever dies, a handler acts on what is still    *)
(* true of its machine, unless an error of IsActive was dropped.            *)
THEOREM VMInvariance == Spec => []VMInv
BY InitInv, NextKeeps, PTL DEF Spec

(* Machines, volumes and the command in its handler are well formed.        *)
THEOREM VMTypeCorrect == Spec => []TypeOK
<1>1. VMInv => TypeOK
  BY DEF VMInv
<1> QED
  BY <1>1, VMInvariance, PTL

(* For any number of machines and disks: every machine has its disk, and    *)
(* has it alone, whatever creates and deletes stop half way.                *)
THEOREM MachineOwnsDiskThm == Spec => []MachineOwnsDisk
<1>1. VMInv => MachineOwnsDisk
  BY DEF VMInv, SeenInv, DisksInv, MachineOwnsDisk
<1> QED
  BY <1>1, VMInvariance, PTL

(* A running machine sees in its drive what the handlers put there.         *)
THEOREM MediaInStepThm == Spec => []MediaInStep
<1>1. VMInv => MediaInStep
  BY DEF VMInv, SeenInv, DisksInv, MediaInStep
<1> QED
  BY <1>1, VMInvariance, PTL

\* The last call of a delete with remove_volumes removes the volumes.
LEMMA OkIsRemove ==
    ASSUME VMInv, NEW call, Busy(call), call # "look", Proceed, reply' = "ok",
           job.cmd.op = "delete", job.cmd.remove
    PROVE  call = "remove"
<1>1. /\ job.cmd # None /\ reply = "none" /\ job.todo[1] = call
  BY BusyFacts DEF VMInv
<1>2. Len(job.todo) = 1
  BY <1>1 DEF Proceed
<1>3. Looked
  BY <1>1 DEF Looked, Doing
<1> QED
  BY <1>1, <1>2, <1>3 DEF VMInv, DeleteInv

\* One step of a delete that answers "removed_volumes": true.
LEMMA RemovedStep ==
    ASSUME VMInv, Next, job # Idle, job.cmd.op = "delete", reply' = "ok", job.cmd.remove
    PROVE  job.disk \notin volumes' \/ ignored' \cap {"paths", "lookup"} # {}
<1> USE DEF Answer
<1>1. job.cmd # None /\ reply = "none"
  BY DEF VMInv, TodoInv
<1>2. ASSUME NEW c \in Commands, Receive(c) PROVE FALSE
  BY <1>2 DEF Receive
<1>3. ASSUME CallFails PROVE FALSE
  BY <1>3 DEF CallFails
<1>4. ASSUME CreateVolume PROVE FALSE
  BY <1>4, OkIsRemove DEF CreateVolume
<1>5. ASSUME DefineDomain PROVE FALSE
  BY <1>5, OkIsRemove DEF DefineDomain
<1>6. CASE RemoveVolumes
  <2>1. Busy("remove")
    BY <1>6 DEF RemoveVolumes
  <2>2. Looked
    BY <1>1, <2>1, BusyFacts DEF VMInv, Looked, Doing
  <2>3. job.disk \in job.paths \/ "paths" \in ignored
    BY <2>2 DEF VMInv, DeleteInv
  <2> QED
    BY <1>6, <2>3 DEF RemoveVolumes
<1>7. ASSUME NEW n \in Vms, Handler(n) PROVE FALSE
  <2>1. ASSUME StartDomain(n) PROVE FALSE
    BY <2>1, OkIsRemove DEF StartDomain
  <2>2. ASSUME AskGuest(n) PROVE FALSE
    BY <2>2, OkIsRemove DEF AskGuest
  <2>3. ASSUME DestroyDomain(n) PROVE FALSE
    BY <2>3, OkIsRemove DEF DestroyDomain
  <2>4. ASSUME SetAutostart(n) PROVE FALSE
    BY <2>4, OkIsRemove DEF SetAutostart
  <2>5. ASSUME LookMedia(n) PROVE FALSE
    BY <2>5 DEF LookMedia
  <2>6. ASSUME UpdateDevice(n) PROVE FALSE
    BY <2>6, OkIsRemove DEF UpdateDevice
  <2>7. ASSUME LookDelete(n) PROVE FALSE
    BY <2>7, <1>1 DEF LookDelete, GoOn
  <2>8. ASSUME UndefineDomain(n) PROVE FALSE
    BY <2>8, OkIsRemove DEF UndefineDomain
  <2> QED
    BY <1>7, <2>1, <2>2, <2>3, <2>4, <2>5, <2>6, <2>7, <2>8 DEF Handler
<1>8. ASSUME NEW n \in Vms, GuestStops(n) PROVE FALSE
  BY <1>1, <1>8 DEF GuestStops
<1>9. ASSUME LibvirtdRestarts PROVE FALSE
  BY <1>1, <1>9 DEF LibvirtdRestarts
<1>10. ASSUME SlaveCrash \/ HostReboots PROVE FALSE
  BY <1>10 DEF SlaveCrash, HostReboots, SlaveDies
<1> QED
  BY <1>2, <1>3, <1>4, <1>5, <1>6, <1>7, <1>8, <1>9, <1>10 DEF Next

(* A delete that says it removed the volumes has removed the disk of its    *)
(* machine, but for dropped errors of GetXMLDesc and of the lookup.         *)
THEOREM RemovedMeansRemovedThm == Spec => RemovedMeansRemoved
<1>1. VMInv /\ [Next]_vars =>
        [job # Idle /\ job.cmd.op = "delete" /\ reply' = "ok" /\ job.cmd.remove
            => job.disk \notin volumes' \/ ignored' \cap {"paths", "lookup"} # {}]_vars
  BY RemovedStep
<1> QED
  BY <1>1, VMInvariance, PTL DEF Spec, RemovedMeansRemoved

\* One call of a delete without force_stop.
LEMMA KeptStep ==
    ASSUME VMInv, Next, job # Idle, job.cmd.op = "delete", ~job.cmd.force,
           "active" \notin ignored, job' # job, ~SlaveDies,
           NEW m \in Vms, domains[m] # None, domains[m].running
    PROVE  domains'[m] = domains[m]
<1>1. HandlerInv /\ job.cmd # None
  BY DEF VMInv, SeenInv, TodoInv
<1>2. CASE domains' = domains
  BY <1>2
<1>3. ASSUME domains' # domains PROVE \/ DefineDomain
                                      \/ \E n \in Vms : \/ StartDomain(n) \/ DestroyDomain(n)
                                                       \/ SetAutostart(n) \/ UpdateDevice(n)
                                                       \/ UndefineDomain(n)
  BY <1>3 DEF Next, Handler, Receive, CallFails, CreateVolume, RemoveVolumes, AskGuest,
     LookMedia, LookDelete, GuestStops, LibvirtdRestarts, SlaveCrash, HostReboots
<1>4. ASSUME DefineDomain PROVE FALSE
  BY <1>4, BusyFacts, CallOp DEF DefineDomain, VMInv
<1>5. ASSUME NEW n \in Vms, StartDomain(n) \/ SetAutostart(n) \/ UpdateDevice(n) PROVE FALSE
  <2>1. PICK call \in {"start", "enable", "disable", "update"} : Busy(call)
    BY <1>5 DEF StartDomain, SetAutostart, UpdateDevice
  <2> QED
    BY <2>1, BusyFacts, CallOp DEF VMInv
<1>6. ASSUME NEW n \in Vms, DestroyDomain(n) PROVE FALSE
  <2>1. job.todo[1] = "destroy" /\ Looked
    BY <1>6, BusyFacts DEF DestroyDomain, VMInv, Looked, Doing
  <2> QED
    BY <2>1 DEF VMInv, DeleteInv
<1>7. ASSUME NEW n \in Vms, UndefineDomain(n) PROVE domains'[m] = domains[m]
  <2>1. job.todo[1] = "undefine" /\ Looked /\ job.cmd.vm = n /\ domains[n] # None
    BY <1>7, BusyFacts DEF UndefineDomain, VMInv, Looked, Doing
  <2>2. ~domains[n].running
    BY <1>1, <2>1 DEF HandlerInv, Machine
  <2>3. m # n
    BY <2>2
  <2> QED
    BY <1>7, <2>3 DEF UndefineDomain, VMInv, TypeOK
<1> QED
  BY <1>2, <1>3, <1>4, <1>5, <1>6, <1>7

(* Without force_stop a delete neither stops nor undefines a running        *)
(* machine, unless an error of IsActive was dropped.                        *)
THEOREM RunningIsKeptThm == Spec => RunningIsKept
<1>1. VMInv /\ [Next]_vars =>
        [job # Idle /\ job.cmd.op = "delete" /\ ~job.cmd.force /\ "active" \notin ignored
            /\ job' # job /\ ~SlaveDies =>
           \A n \in Vms : domains[n] # None /\ domains[n].running => domains'[n] = domains[n]]_vars
  BY KeptStep
<1> QED
  BY <1>1, VMInvariance, PTL DEF Spec, RunningIsKept

=============================================================================
