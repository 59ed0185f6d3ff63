---------------------------- MODULE DockerProofs ----------------------------
(***************************************************************************)
(* OkMeansStarted for any containers, names and images.                    *)
(***************************************************************************)
EXTENDS DockerLifecycle, TLAPS

Calls == {"start", "stop", "restart", "remove"}

\* A container that stays keeps what its create asked for and is never again
\* one that was not started.
Follows(c, d) ==
    d # None => /\ d \in Containers /\ d.wanted = c.wanted
                /\ d.state = "created" => c.state = "created"

\* A command is about a container only in a call that acts on it, and that
\* container was made.
JobInv ==
    job # Idle /\ job.id # None => job.call \in Calls /\ job.id \in used

\* Nothing is known of an id that was not given yet.
FreshInv == \A i \in Ids \ used : containers[i] = None /\ told[i] = "nothing"

DockerInv == TypeOK /\ JobInv /\ FreshInv /\ OkMeansStarted

-----------------------------------------------------------------------------
(* Whatever a call makes of its container follows from it.                  *)
LEMMA EffectFollows ==
    ASSUME NEW c \in Containers, NEW call \in Calls
    PROVE  Follows(c, Effect(call, c))
<1>1. CASE call \in {"start", "restart"}
  BY <1>1 DEF Effect, Follows, Containers
<1>2. CASE call = "stop"
  BY <1>2 DEF Effect, Follows, Containers, Stopped
<1>3. CASE call = "remove"
  BY <1>3 DEF Effect, Follows
<1> QED
  BY <1>1, <1>2, <1>3 DEF Calls

(* So does what an exit or a restart of the daemon leaves of it.            *)
LEMMA StoppedFollows ==
    ASSUME NEW c \in Containers
    PROVE  Follows(c, Stopped(c)) /\ Follows(c, c)
BY DEF Follows, Stopped, Containers

(* And what a call that was cut off has made of it.                         *)
LEMMA CutOffFollows ==
    ASSUME NEW c \in Containers, NEW call \in Calls, NEW d \in CutOff(call, c)
    PROVE  Follows(c, d)
<1>1. CASE d = Effect(call, c)
  BY <1>1, EffectFollows
<1>2. CASE d = [c EXCEPT !.state = "exited"]
  BY <1>2 DEF Follows, Containers
<1> QED
  BY <1>1, <1>2 DEF CutOff

(* So does what the daemon made of a container when it is back.             *)
LEMMA AgainFollows ==
    ASSUME NEW c \in Containers, c.state # "created"
    PROVE  Follows(c, [c EXCEPT !.state = "running"])
BY DEF Follows, Containers

(* A step that only lets containers follow keeps their part of the          *)
(* invariant.                                                               *)
LEMMA FollowKeeps ==
    ASSUME DockerInv, UNCHANGED <<used, told>>,
           containers' = [i \in Ids |-> containers'[i]],
           \A i \in Ids : IF containers[i] = None THEN containers'[i] = None
                          ELSE Follows(containers[i], containers'[i])
    PROVE  /\ containers' \in [Ids -> Containers \cup {None}]
           /\ FreshInv' /\ OkMeansStarted'
<1>1. containers' \in [Ids -> Containers \cup {None}]
  BY DEF Follows
<1>2. FreshInv'
  BY DEF DockerInv, FreshInv
<1>3. OkMeansStarted'
  BY DEF DockerInv, OkMeansStarted, Follows
<1> QED
  BY <1>1, <1>2, <1>3

-----------------------------------------------------------------------------
(* The first state.                                                         *)
LEMMA DockerInit == Init => DockerInv
BY DEF Init, DockerInv, TypeOK, JobInv, FreshInv, OkMeansStarted, Idle

(* A reply ends the job; what a page is told of a container is about one    *)
(* that was made.                                                           *)
LEMMA AnswerKeeps ==
    ASSUME DockerInv, job # Idle, NEW status \in {"ok", "error"}, Answer(status)
    PROVE  /\ told' \in [Ids -> {"nothing", "ok", "error"}]
           /\ job' = Idle /\ reply' \in {"none", "ok", "error"}
           /\ \A i \in Ids : told'[i] # told[i] =>
                 /\ i = job.id /\ i \in used /\ told'[i] = status
                 /\ job.cmd.op = "create" /\ job.call = "start"
<1>1. job.id \in Ids \cup {None} /\ job.call \in {job.cmd.op, "start"}
  BY DEF DockerInv, TypeOK
<1>2. job.id # None => job.call \in Calls /\ job.id \in used
  BY DEF DockerInv, JobInv
<1>3. told \in [Ids -> {"nothing", "ok", "error"}]
  BY DEF DockerInv, TypeOK
<1>4. CASE job.cmd.op = "create" /\ job.id # None
  <2>1. told' = [told EXCEPT ![job.id] = status] /\ job.call = "start" /\ job.id \in Ids
    BY <1>1, <1>2, <1>4 DEF Answer, Calls
  <2> QED
    BY <1>2, <1>3, <1>4, <2>1 DEF Answer
<1>5. CASE ~(job.cmd.op = "create" /\ job.id # None)
  BY <1>3, <1>5 DEF Answer
<1> QED
  BY <1>4, <1>5

(* A command that is read is not about a container that was never made.     *)
LEMMA ReceiveKeeps ==
    ASSUME DockerInv, NEW c \in Commands, Receive(c)
    PROVE  DockerInv'
<1>1. c.op \in {"create", "start", "stop", "restart", "remove", "pull", "rmi"}
  BY DEF Commands, Creates, Acts, Removes, ImageOps
<1>2. c.op \in Calls => c.id \in used
  BY DEF Receive, Calls
<1>3. /\ job' = [cmd |-> c, call |-> c.op, id |-> IF c.op \in Calls THEN c.id ELSE None]
      /\ reply' = "none" /\ UNCHANGED <<containers, used, images, told>>
  BY DEF Receive, Calls
<1>4. TypeOK'
  <2>1. used \subseteq Ids /\ (c.op \in Calls => c.id \in Ids)
    BY <1>2 DEF DockerInv, TypeOK
  <2>2. /\ job' \in [cmd : Commands, call : Ops, id : Ids \cup {None}]
        /\ job'.call \in {job'.cmd.op, "start"}
    BY <1>1, <1>3, <2>1 DEF Ops
  <2> QED
    BY <1>3, <2>2 DEF DockerInv, TypeOK
<1>5. JobInv'
  BY <1>1, <1>2, <1>3 DEF JobInv, Calls
<1>6. FreshInv' /\ OkMeansStarted'
  BY <1>3 DEF DockerInv, FreshInv, OkMeansStarted
<1> QED
  BY <1>4, <1>5, <1>6 DEF DockerInv

(* A pull or a removal names an image.                                      *)
LEMMA ImagesTyped ==
    ASSUME DockerInv, Fetch \/ Drop
    PROVE  images' \subseteq Images
<1>1. job # Idle /\ job.call \in {"pull", "rmi"}
  BY DEF Fetch, Drop, Idle
<1>2. job.cmd \in Commands /\ job.cmd.op \in {"pull", "rmi"}
  BY <1>1 DEF DockerInv, TypeOK
<1>3. job.cmd.image \in Images
  BY <1>2 DEF Commands, Creates, Acts, Removes, ImageOps
<1> QED
  BY <1>3 DEF DockerInv, TypeOK, Fetch, Drop

(* A new container is well formed, one that was not started, and its id is  *)
(* one of which nothing was known.                                          *)
LEMMA MakeKeeps ==
    ASSUME DockerInv, NEW i \in Ids, Make(i)
    PROVE  /\ job # Idle /\ job.call = "create" /\ job.id = None /\ job.cmd.start \in BOOLEAN
           /\ containers' \in [Ids -> Containers \cup {None}]
           /\ containers'[i].wanted = job.cmd.start
           /\ \A k \in Ids \ {i} : containers'[k] = containers[k]
           /\ i \notin used /\ used' = used \cup {i} /\ images' = images
           /\ told[i] = "nothing"
<1>1. job # Idle /\ job.cmd \in Commands /\ job.call = "create" /\ i \notin used
  BY DEF Make, Idle, DockerInv, TypeOK
<1>2. job.cmd \in Creates
  <2>1. job.cmd.op = "create"
    BY <1>1 DEF DockerInv, TypeOK
  <2> QED
    BY <1>1, <2>1 DEF Commands, Creates, Acts, Removes, ImageOps
<1>3. /\ job.cmd.name \in Names \cup {None} /\ job.cmd.image \in Images
      /\ job.cmd.auto \in BOOLEAN /\ job.cmd.start \in BOOLEAN
  BY <1>2 DEF Creates
<1> DEFINE c == [name |-> job.cmd.name, image |-> job.cmd.image, auto |-> job.cmd.auto,
                 wanted |-> job.cmd.start, state |-> "created"]
<1>4. /\ c \in Containers /\ c.wanted = job.cmd.start
      /\ containers' = [containers EXCEPT ![i] = c]
  BY <1>3 DEF Make, Containers
<1>5. used' = used \cup {i} /\ images' = images
  BY DEF Make
<1> HIDE DEF c
<1>6. containers \in [Ids -> Containers \cup {None}] /\ told[i] = "nothing"
  BY <1>1 DEF DockerInv, TypeOK, FreshInv
<1>7. job.id = None
  BY <1>1 DEF DockerInv, JobInv, Calls
<1> QED
  BY <1>1, <1>3, <1>4, <1>5, <1>6, <1>7

(* What becomes of a call of whose success nobody hears: no container that  *)
(* was started goes back, and what a new one is was told to nobody.         *)
LEMMA UnheardKeeps ==
    ASSUME DockerInv, job # Idle, Unheard
    PROVE  /\ containers' \in [Ids -> Containers \cup {None}]
           /\ used' \subseteq Ids /\ used \subseteq used' /\ images' \subseteq Images
           /\ \A k \in Ids : containers[k] = None /\ containers'[k] # None =>
                 k \in used' /\ told[k] = "nothing" /\ k # job.id
           /\ \A k \in Ids : containers[k] # None => Follows(containers[k], containers'[k])
<1>1. /\ containers \in [Ids -> Containers \cup {None}] /\ job.id \in Ids \cup {None}
      /\ used \subseteq Ids /\ images \subseteq Images
  BY DEF DockerInv, TypeOK
<1>2. ASSUME UNCHANGED <<containers, used>>, images' \subseteq Images
      PROVE  /\ containers' \in [Ids -> Containers \cup {None}]
             /\ used' \subseteq Ids /\ used \subseteq used' /\ images' \subseteq Images
             /\ \A k \in Ids : containers[k] = None /\ containers'[k] # None =>
                   k \in used' /\ told[k] = "nothing" /\ k # job.id
             /\ \A k \in Ids : containers[k] # None => Follows(containers[k], containers'[k])
  BY <1>1, <1>2, StoppedFollows
<1>3. CASE UNCHANGED <<containers, used, images>>
  BY <1>1, <1>2, <1>3
<1>4. CASE \E i \in Ids : Make(i)
  <2>1. PICK i \in Ids : Make(i)
    BY <1>4
  <2>2. /\ containers' \in [Ids -> Containers \cup {None}] /\ job.id = None
        /\ \A k \in Ids \ {i} : containers'[k] = containers[k]
        /\ i \notin used /\ used' = used \cup {i} /\ images' = images /\ told[i] = "nothing"
    BY <2>1, MakeKeeps
  <2>3. containers[i] = None
    BY <2>2 DEF DockerInv, FreshInv
  <2>4. i # job.id
    BY <2>2, NoneAssumption
  <2>5. \A k \in Ids : containers[k] # None => Follows(containers[k], containers'[k])
    BY <1>1, <2>2, <2>3, StoppedFollows
  <2> QED
    BY <1>1, <2>2, <2>3, <2>4, <2>5
<1>5. CASE Fetch \/ Drop
  BY <1>2, <1>5, ImagesTyped DEF Fetch, Drop
<1>6. CASE /\ job.id # None /\ containers[job.id] # None
           /\ \E c \in CutOff(job.call, containers[job.id]) :
                 containers' = [containers EXCEPT ![job.id] = c]
           /\ UNCHANGED <<used, images>>
  <2>1. job.id \in Ids /\ job.call \in Calls /\ containers[job.id] \in Containers
    BY <1>1, <1>6 DEF DockerInv, JobInv
  <2>2. PICK d \in CutOff(job.call, containers[job.id]) :
          containers' = [containers EXCEPT ![job.id] = d]
    BY <1>6
  <2>3. Follows(containers[job.id], d)
    BY <2>1, CutOffFollows
  <2>4. d \in Containers \cup {None}
    BY <2>3 DEF Follows
  <2>5. containers' \in [Ids -> Containers \cup {None}]
    BY <1>1, <2>2, <2>4
  <2>6. \A k \in Ids : containers'[k] = IF k = job.id THEN d ELSE containers[k]
    BY <1>1, <2>2
  <2> QED
    BY <1>1, <1>6, <2>1, <2>3, <2>5, <2>6, StoppedFollows
<1> QED
  BY <1>3, <1>4, <1>5, <1>6 DEF Unheard

(* A call that fails, or that the slave did not live to see, tells of no    *)
(* success.                                                                 *)
LEMMA FailureKeeps ==
    ASSUME DockerInv, CallFails \/ SlaveCrash
    PROVE  DockerInv'
<1>1. job # Idle /\ Unheard
  BY DEF CallFails, SlaveCrash
<1>2. /\ told' \in [Ids -> {"nothing", "ok", "error"}]
      /\ job' = Idle /\ reply' \in {"none", "ok", "error"}
      /\ \A i \in Ids : told'[i] # told[i] => i = job.id /\ i \in used /\ told'[i] = "error"
  <2>1. CASE CallFails
    BY <1>1, <2>1, AnswerKeeps DEF CallFails
  <2>2. CASE SlaveCrash
    BY <2>2 DEF SlaveCrash, DockerInv, TypeOK
  <2> QED
    BY <2>1, <2>2
<1>3. /\ containers' \in [Ids -> Containers \cup {None}]
      /\ used' \subseteq Ids /\ used \subseteq used' /\ images' \subseteq Images
      /\ \A k \in Ids : containers[k] = None /\ containers'[k] # None =>
            k \in used' /\ told[k] = "nothing" /\ k # job.id
      /\ \A k \in Ids : containers[k] # None => Follows(containers[k], containers'[k])
  BY <1>1, UnheardKeeps
<1>4. TypeOK' /\ JobInv'
  BY <1>2, <1>3 DEF TypeOK, JobInv
<1>5. FreshInv'
  BY <1>2, <1>3 DEF DockerInv, FreshInv
<1>6. OkMeansStarted'
  BY <1>2, <1>3 DEF DockerInv, OkMeansStarted, Follows
<1> QED
  BY <1>4, <1>5, <1>6 DEF DockerInv

(* A new container is not one of which a page was told.                     *)
LEMMA CreateKeeps ==
    ASSUME DockerInv, NEW i \in Ids, CreateContainer(i)
    PROVE  DockerInv'
<1>1. /\ job # Idle /\ job.call = "create" /\ job.cmd.start \in BOOLEAN
      /\ containers' \in [Ids -> Containers \cup {None}]
      /\ containers'[i].wanted = job.cmd.start
      /\ \A k \in Ids \ {i} : containers'[k] = containers[k]
      /\ i \notin used /\ used' = used \cup {i} /\ images' = images /\ told[i] = "nothing"
  BY MakeKeeps DEF CreateContainer
<1>2. IF job.cmd.start
      THEN job' = [job EXCEPT !.call = "start", !.id = i] /\ UNCHANGED <<reply, told>>
      ELSE job' = Idle /\ reply' = "ok" /\ told' = [told EXCEPT ![i] = "ok"]
  BY DEF CreateContainer
<1>3. /\ job \in [cmd : Commands, call : Ops, id : Ids \cup {None}]
      /\ job.cmd.start => job' = [cmd |-> job.cmd, call |-> "start", id |-> i]
  BY <1>1, <1>2 DEF DockerInv, TypeOK
<1>4. TypeOK'
  <2>1. job' = Idle \/ (/\ job' \in [cmd : Commands, call : Ops, id : Ids \cup {None}]
                        /\ job'.call \in {job'.cmd.op, "start"})
    BY <1>1, <1>2, <1>3 DEF Ops
  <2> QED
    BY <1>1, <1>2, <2>1 DEF DockerInv, TypeOK
<1>5. JobInv'
  BY <1>1, <1>2, <1>3 DEF JobInv, Calls
<1>6. FreshInv'
  BY <1>1, <1>2 DEF DockerInv, FreshInv, TypeOK
<1>7. OkMeansStarted'
  BY <1>1, <1>2 DEF DockerInv, OkMeansStarted, TypeOK
<1> QED
  BY <1>4, <1>5, <1>6, <1>7 DEF DockerInv

(* A call that goes well lets its container follow; the start of a create   *)
(* leaves it running before its page is told.                               *)
LEMMA ActKeeps ==
    ASSUME DockerInv, NEW call \in Calls, NEW i \in Ids, Act(call, i)
    PROVE  DockerInv'
<1>1. /\ job # Idle /\ job.call = call /\ job.id = i /\ containers[i] # None
      /\ containers' = [containers EXCEPT ![i] = Effect(call, containers[i])]
      /\ Answer("ok") /\ UNCHANGED <<used, images>>
  BY DEF Act, Idle, Calls
<1>2. /\ told' \in [Ids -> {"nothing", "ok", "error"}]
      /\ job' = Idle /\ reply' \in {"none", "ok", "error"}
      /\ \A k \in Ids : told'[k] # told[k] => k = i /\ k \in used /\ call = "start"
  BY <1>1, AnswerKeeps
<1>3. containers \in [Ids -> Containers \cup {None}]
  BY DEF DockerInv, TypeOK
<1>4. Follows(containers[i], Effect(call, containers[i]))
  BY <1>1, <1>3, EffectFollows
<1>5. Effect(call, containers[i]) \in Containers \cup {None}
  BY <1>4 DEF Follows
<1>6. TypeOK' /\ JobInv'
  BY <1>1, <1>2, <1>3, <1>5 DEF DockerInv, TypeOK, JobInv
<1>7. FreshInv'
  BY <1>1, <1>2, <1>3 DEF DockerInv, FreshInv
<1>8. OkMeansStarted'
  <2>1. CASE call = "start"
    <3>1. Effect(call, containers[i]).state = "running"
      <4>1. Effect(call, containers[i]) = [containers[i] EXCEPT !.state = "running"]
        BY <2>1 DEF Effect
      <4> QED
        BY <1>1, <1>3, <4>1 DEF Containers
    <3> QED
      BY <1>1, <1>2, <1>3, <3>1 DEF DockerInv, OkMeansStarted
  <2>2. CASE call # "start"
    BY <1>1, <1>2, <1>3, <1>4, <2>2 DEF DockerInv, OkMeansStarted, Follows
  <2> QED
    BY <2>1, <2>2
<1> QED
  BY <1>6, <1>7, <1>8 DEF DockerInv

(* Pulls and removals of images do not touch containers.                    *)
LEMMA ImagesKeep ==
    ASSUME DockerInv, PullImage \/ RemoveImage
    PROVE  DockerInv'
<1>1. /\ job # Idle /\ job.call \in {"pull", "rmi"} /\ job.id = None
      /\ Answer("ok") /\ UNCHANGED <<containers, used>>
  BY DEF PullImage, RemoveImage, Fetch, Drop, Idle, DockerInv, JobInv, Calls
<1>2. /\ told' \in [Ids -> {"nothing", "ok", "error"}]
      /\ job' = Idle /\ reply' \in {"none", "ok", "error"} /\ told' = told
  <2>1. /\ told' \in [Ids -> {"nothing", "ok", "error"}]
        /\ job' = Idle /\ reply' \in {"none", "ok", "error"}
    BY <1>1, AnswerKeeps
  <2> QED
    BY <1>1, <2>1 DEF Answer
<1>3. images' \subseteq Images
  BY ImagesTyped DEF PullImage, RemoveImage
<1> QED
  BY <1>1, <1>2, <1>3 DEF DockerInv, TypeOK, JobInv, FreshInv, OkMeansStarted

(* Exits and restarts of the daemon between any two calls.                  *)
LEMMA HostKeeps ==
    ASSUME DockerInv, (\E i \in Ids : ContainerExits(i)) \/ DockerdRestarts
    PROVE  DockerInv'
<1>1. containers \in [Ids -> Containers \cup {None}]
  BY DEF DockerInv, TypeOK
<1>2. UNCHANGED <<used, images, job, reply, told>>
  BY DEF ContainerExits, DockerdRestarts
<1>3. /\ containers' = [i \in Ids |-> containers'[i]]
      /\ \A i \in Ids : IF containers[i] = None THEN containers'[i] = None
                        ELSE Follows(containers[i], containers'[i])
  <2>1. ASSUME NEW k \in Ids, ContainerExits(k)
        PROVE  /\ containers' = [i \in Ids |-> containers'[i]]
               /\ \A i \in Ids : IF containers[i] = None THEN containers'[i] = None
                                 ELSE Follows(containers[i], containers'[i])
    <3>1. /\ containers' = [containers EXCEPT ![k] = Stopped(containers[k])]
          /\ containers[k] # None
      BY <2>1 DEF ContainerExits
    <3>2. /\ containers' = [i \in Ids |-> containers'[i]]
          /\ \A i \in Ids : containers'[i] = IF i = k THEN Stopped(containers[k])
                                             ELSE containers[i]
      BY <1>1, <3>1
    <3> QED
      BY <1>1, <3>1, <3>2, StoppedFollows
  <2>2. CASE DockerdRestarts
    <3>1. PICK again \in SUBSET Ids : containers' = [i \in Ids |->
            IF containers[i] = None \/ containers[i].state = "created" THEN containers[i]
            ELSE IF i \in again THEN [containers[i] EXCEPT !.state = "running"]
            ELSE Stopped(containers[i])]
      BY <2>2 DEF DockerdRestarts
    <3>2. containers' = [i \in Ids |-> containers'[i]]
      BY <3>1
    <3>3. ASSUME NEW i \in Ids
          PROVE  IF containers[i] = None THEN containers'[i] = None
                 ELSE Follows(containers[i], containers'[i])
      BY <1>1, <3>1, StoppedFollows, AgainFollows
    <3> QED
      BY <3>2, <3>3
  <2> QED
    BY <2>1, <2>2
<1>4. /\ containers' \in [Ids -> Containers \cup {None}]
      /\ FreshInv' /\ OkMeansStarted'
  BY <1>2, <1>3, FollowKeeps
<1> QED
  BY <1>2, <1>4 DEF DockerInv, TypeOK, JobInv

(* Every step of the handlers and of the host keeps the invariant.          *)
LEMMA DockerInductive == DockerInv /\ [Next]_vars => DockerInv'
<1> SUFFICES ASSUME DockerInv, [Next]_vars PROVE DockerInv'
  OBVIOUS
<1>1. ASSUME NEW c \in Commands, Receive(c) PROVE DockerInv'
  BY <1>1, ReceiveKeeps
<1>2. CASE CallFails \/ SlaveCrash
  BY <1>2, FailureKeeps
<1>3. CASE PullImage \/ RemoveImage
  BY <1>3, ImagesKeep
<1>4. ASSUME NEW i \in Ids, Handler(i) PROVE DockerInv'
  <2>1. CASE CreateContainer(i)
    BY <2>1, CreateKeeps
  <2>2. CASE Act("start", i) \/ Act("stop", i) \/ Act("restart", i) \/ Act("remove", i)
    <3>1. {"start", "stop", "restart", "remove"} = Calls
      BY DEF Calls
    <3> QED
      BY <2>2, <3>1, ActKeeps
  <2> QED
    BY <1>4, <2>1, <2>2 DEF Handler, StartContainer, StopContainer, RestartContainer,
       RemoveContainer
<1>5. CASE (\E i \in Ids : ContainerExits(i)) \/ DockerdRestarts
  BY <1>5, HostKeeps
<1>6. CASE UNCHANGED vars
  BY <1>6 DEF vars, DockerInv, TypeOK, JobInv, FreshInv, OkMeansStarted
<1> QED
  BY <1>1, <1>2, <1>3, <1>4, <1>5, <1>6 DEF Next

(* The state of the daemon, the handler and the replies stays well formed,  *)
(* and jobs and ids in step.                                                *)
THEOREM DockerInvariance == Spec => []DockerInv
BY DockerInit, DockerInductive, PTL DEF Spec

(* A create with start that handleDockerContainerCreate answered with "ok"  *)
(* has started its container, for any number of containers and commands.    *)
THEOREM OkMeansStartedThm == Spec => []OkMeansStarted
<1>1. DockerInv => OkMeansStarted
  BY DEF DockerInv
<1> QED
  BY <1>1, DockerInvariance, PTL

=============================================================================
