-------------------------- MODULE DockerLifecycle --------------------------
(***************************************************************************)
(* The containers and images of one slave: the docker.* handlers           *)
(* (src/slave/handlers/docker.go) as calls of the Docker daemon.  The      *)
(* slave runs one handler at a time; a create with start is two calls, and *)
(* any call may fail, a container may exit, the daemon may restart and the *)
(* slave may die between two calls.                                        *)
(*                                                                         *)
(* The pages act on the id a list has shown them, which may be long out of *)
(* date when the command is run: any id that was ever given may come.      *)
(*                                                                         *)
(* What the daemon does with a call is external: ids are never used again, *)
(* names are unique while they are used, a container whose start fails     *)
(* stays, one with AutoRemove vanishes when it stops.                      *)
(***************************************************************************)
CONSTANTS
    Ids,      \* bound: the containers the daemon makes
    Names,    \* names a create may ask for
    Images,
    None      \* no name, no id, no container

ASSUME NoneAssumption == None \notin Ids \cup Names \cup Images

VARIABLES
    containers,  \* each id: its container or None
    used,        \* the ids that were given
    images,      \* the images the daemon has
    job,         \* the command in its handler, the call it is at and the
                 \* container it is about
    reply,       \* the status of the last command reply
    told         \* for each container, what the page of its create was told:
                 \* "nothing", "ok" or "error"; for the properties only

vars == <<containers, used, images, job, reply, told>>

Containers == [name : Names \cup {None}, image : Images, auto : BOOLEAN, wanted : BOOLEAN,
               state : {"created", "running", "exited"}]

Creates == [op : {"create"}, name : Names \cup {None}, image : Images, auto : BOOLEAN,
            start : BOOLEAN]
Acts == [op : {"start", "stop", "restart"}, id : Ids]
Removes == [op : {"remove"}, id : Ids, force : BOOLEAN]
ImageOps == [op : {"pull", "rmi"}, image : Images]
Commands == Creates \cup Acts \cup Removes \cup ImageOps

Idle == [cmd |-> None, call |-> "none", id |-> None]

Init ==
    /\ containers = [i \in Ids |-> None]
    /\ used = {}
    /\ images = {}
    /\ job = Idle
    /\ reply = "none"
    /\ told = [i \in Ids |-> "nothing"]

-----------------------------------------------------------------------------
(* handleNodeCommand *)

Receive(c) ==
    /\ job = Idle
    /\ c.op \in {"start", "stop", "restart", "remove"} => c.id \in used
    /\ job' = [cmd |-> c, call |-> c.op,
               id |-> IF c.op \in {"start", "stop", "restart", "remove"} THEN c.id ELSE None]
    /\ reply' = "none"
    /\ UNCHANGED <<containers, used, images, told>>

Answer(status) ==
    /\ job' = Idle /\ reply' = status
    /\ told' = IF job.cmd.op = "create" /\ job.id # None
               THEN [told EXCEPT ![job.id] = status] ELSE told

Stopped(c) == IF c.auto THEN None ELSE [c EXCEPT !.state = "exited"]

\* What a call makes of its container.
Effect(call, c) ==
    CASE call \in {"start", "restart"} -> [c EXCEPT !.state = "running"]
      [] call = "stop" -> IF c.state = "running" THEN Stopped(c) ELSE c
      [] call = "remove" -> None

\* A container that runs is removed only by force.
Refused(c) == job.call = "remove" /\ c.state = "running" /\ ~job.cmd.force

\* What a call that was cut off may have made of it: its effect, or half of a
\* restart.
CutOff(call, c) ==
    IF Refused(c) THEN {}
    ELSE {Effect(call, c)}
           \cup IF call = "restart" /\ c.state = "running"
                THEN {[c EXCEPT !.state = "exited"]} ELSE {}

\* Create does not pull: without the image, or with a name in use, it fails.
Make(i) ==
    /\ job.call = "create" /\ i \notin used
    /\ job.cmd.image \in images
    /\ job.cmd.name # None =>
          \A j \in Ids : containers[j] # None => containers[j].name # job.cmd.name
    /\ containers' = [containers EXCEPT ![i] =
          [name |-> job.cmd.name, image |-> job.cmd.image, auto |-> job.cmd.auto,
           wanted |-> job.cmd.start, state |-> "created"]]
    /\ used' = used \cup {i}
    /\ UNCHANGED images

Fetch ==
    /\ job.call = "pull"
    /\ images' = images \cup {job.cmd.image}
    /\ UNCHANGED <<containers, used>>

\* Refused while a container runs from it.
Drop ==
    /\ job.call = "rmi" /\ job.cmd.image \in images
    /\ \A i \in Ids : containers[i] # None /\ containers[i].state = "running" =>
          containers[i].image # job.cmd.image
    /\ images' = images \ {job.cmd.image}
    /\ UNCHANGED <<containers, used>>

\* What has become of a call whose success nobody hears of: the daemon refused
\* it, or died or was cut off after it had done it.
Unheard ==
    \/ UNCHANGED <<containers, used, images>>
    \/ \E i \in Ids : Make(i)
    \/ Fetch \/ Drop
    \/ /\ job.id # None /\ containers[job.id] # None
       /\ \E c \in CutOff(job.call, containers[job.id]) :
             containers' = [containers EXCEPT ![job.id] = c]
       /\ UNCHANGED <<used, images>>

\* Mutation of CallFails: the error of the start is not looked at.
StartErrorDropped ==
    /\ job # Idle
    /\ Answer(IF job.cmd.op = "create" /\ job.call = "start" THEN "ok" ELSE "error")
    /\ UNCHANGED <<containers, used, images>>

\* GetClient or the call returns an error, which is the reply.  A container
\* that was created before its start failed stays.
CallFails ==
    /\ job # Idle
    /\ Unheard
    /\ Answer("error")

-----------------------------------------------------------------------------
(* handleDockerContainerCreate *)

CreateContainer(i) ==
    /\ Make(i)
    /\ IF job.cmd.start
       THEN job' = [job EXCEPT !.call = "start", !.id = i] /\ UNCHANGED <<reply, told>>
       ELSE job' = Idle /\ reply' = "ok" /\ told' = [told EXCEPT ![i] = "ok"]

-----------------------------------------------------------------------------
(* The other handlers: one call each, by id *)

\* The daemon does the call for the container with the id of the command.
Act(call, i) ==
    /\ job.call = call
    /\ job.id = i /\ containers[i] # None /\ ~Refused(containers[i])
    /\ containers' = [containers EXCEPT ![i] = Effect(call, @)]
    /\ Answer("ok")
    /\ UNCHANGED <<used, images>>

StartContainer(i) == Act("start", i)
StopContainer(i) == Act("stop", i)
RestartContainer(i) == Act("restart", i)

RemoveContainer(i) == Act("remove", i)

PullImage == Fetch /\ Answer("ok")
RemoveImage == Drop /\ Answer("ok")

-----------------------------------------------------------------------------
(* The host *)

ContainerExits(i) ==
    /\ containers[i] # None /\ containers[i].state = "running"
    /\ containers' = [containers EXCEPT ![i] = Stopped(@)]
    /\ UNCHANGED <<used, images, job, reply, told>>

\* Restart policies decide which containers run again; "always" starts one
\* that had stopped before, too.
DockerdRestarts ==
    /\ \E again \in SUBSET Ids :
        containers' = [i \in Ids |->
            IF containers[i] = None \/ containers[i].state = "created" THEN containers[i]
            ELSE IF i \in again THEN [containers[i] EXCEPT !.state = "running"]
            ELSE Stopped(containers[i])]
    /\ UNCHANGED <<used, images, job, reply, told>>

SlaveCrash ==
    /\ job # Idle
    /\ Unheard
    /\ job' = Idle /\ reply' = "none"
    /\ UNCHANGED told

Handler(i) ==
    \/ CreateContainer(i) \/ StartContainer(i) \/ StopContainer(i)
    \/ RestartContainer(i) \/ RemoveContainer(i)

Next ==
    \/ \E c \in Commands : Receive(c)
    \/ CallFails \/ PullImage \/ RemoveImage
    \/ \E i \in Ids : Handler(i) \/ ContainerExits(i)
    \/ DockerdRestarts \/ SlaveCrash

Spec == Init /\ [][Next]_vars

-----------------------------------------------------------------------------
Ops == {"create", "start", "stop", "restart", "remove", "pull", "rmi"}

TypeOK ==
    /\ containers \in [Ids -> Containers \cup {None}]
    /\ used \subseteq Ids
    /\ images \subseteq Images
    /\ job = Idle \/ (/\ job \in [cmd : Commands, call : Ops, id : Ids \cup {None}]
                      /\ job.call \in {job.cmd.op, "start"})
    /\ reply \in {"none", "ok", "error"}
    /\ told \in [Ids -> {"nothing", "ok", "error"}]

(* A page that asked for a container and its start and was told "ok" has a  *)
(* container that was started: the second call of the create has gone well, *)
(* whatever failed, died or was retried around it.                          *)
OkMeansStarted ==
    \A i \in Ids : containers[i] # None /\ containers[i].wanted /\ told[i] = "ok" =>
        containers[i].state # "created"

=============================================================================
