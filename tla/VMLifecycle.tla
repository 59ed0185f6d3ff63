---------------------------- MODULE VMLifecycle ----------------------------
(***************************************************************************)
(* The virtual machines of one slave: the libvirt.domain.* handlers        *)
(* (src/slave/handlers/libvirt.go, src/slave/libvirt/vm.go) as sequences   *)
(* of libvirt calls.  The slave runs one handler at a time (slave.go), but *)
(* any call may fail, a guest may stop, libvirtd may restart, and the      *)
(* slave or its host may die between two calls.                            *)
(*                                                                         *)
(* What libvirt does with a call is external: names of domains and paths   *)
(* of volumes are unique, undefining a running domain leaves it running    *)
(* without a definition.  Guests do not eject their media.                 *)
(*                                                                         *)
(* The handlers drop the errors of three calls: IsActive, GetXMLDesc and   *)
(* LookupStorageVolByPath.  These fail too; ignored remembers which did,   *)
(* and the properties say what each of them can and cannot break.          *)
(***************************************************************************)
EXTENDS Sequences

CONSTANTS
    Vms,            \* domain names
    Disks,          \* volumes, by the path CreateDiskVolume gives them
    None

VARIABLES
    domains,   \* each domain: its disk, what is defined and what runs
    volumes,   \* the volumes that exist
    conn,      \* g_conn: "nil", "open", or "dead" after a restart of libvirtd
    job,       \* the command in its handler and the calls still to make
    reply,     \* the status of the last command reply
    ignored    \* the dropped errors so far that changed what a handler did

vars == <<domains, volumes, conn, job, reply, ignored>>

Drives == {"none", "empty", "iso"}
Domains == [disk : Disks, persistent : BOOLEAN, running : BOOLEAN,
            autostart : BOOLEAN, cd : Drives, live : Drives]

Creates == [op : {"create"}, vm : Vms, disk : Disks,
            iso : BOOLEAN, autostart : BOOLEAN, start : BOOLEAN]
Deletes == [op : {"delete"}, vm : Vms, force : BOOLEAN, remove : BOOLEAN]
Simple == {"start", "shutdown", "reboot", "destroy", "enable", "disable"}
Actions == [op : Simple \cup {"attach", "detach"}, vm : Vms]
Commands == Creates \cup Deletes \cup Actions

\* None stands for what is not there: no disk, no machine, no command.
ASSUME NoneAssumption == None \notin Disks \cup Domains \cup Commands

Calls == Simple \cup {"volume", "define", "look", "update", "undefine", "remove"}
Jobs == [cmd : Commands \cup {None}, todo : Seq(Calls), active : BOOLEAN,
         paths : SUBSET Disks, disk : Disks \cup {None}]

Idle == [cmd |-> None, todo |-> <<>>, active |-> FALSE, paths |-> {}, disk |-> None]
Busy(call) == job.todo # <<>> /\ Head(job.todo) = call /\ conn = "open"

Only(yes, call) == IF yes THEN <<call>> ELSE <<>>

\* The calls of each handler, as far as they are known when it starts.
Plan(c) ==
    CASE c.op = "create" -> <<"volume", "define">> \o Only(c.autostart, "enable")
                                                   \o Only(c.start, "start")
      [] c.op \in {"attach", "detach"} -> <<"look", "update">>
      [] c.op = "delete" -> <<"look">>
      [] OTHER -> <<c.op>>

Init ==
    /\ domains = [n \in Vms |-> None]
    /\ volumes = {}
    /\ conn = "nil"
    /\ job = Idle
    /\ reply = "none"
    /\ ignored = {}

-----------------------------------------------------------------------------
(* handleNodeCommand *)

\* GetQEMU: the connection is opened, if it can be, and kept for good.
Receive(c) ==
    /\ job = Idle
    /\ job' = [Idle EXCEPT !.cmd = c, !.todo = Plan(c)]
    /\ conn' \in IF conn = "nil" THEN {"nil", "open"} ELSE {conn}
    /\ reply' = "none"
    /\ UNCHANGED <<domains, volumes, ignored>>

Answer(status) == reply' = status /\ job' = Idle

\* The call succeeded: on to the next one, or the reply.
Proceed ==
    IF Len(job.todo) = 1 THEN Answer("ok")
    ELSE job' = [job EXCEPT !.todo = Tail(@)] /\ UNCHANGED reply

\* The handler returns the error of its call; what it did before stays done.
CallFails ==
    /\ job # Idle
    /\ Answer("error")
    /\ UNCHANGED <<domains, volumes, conn, ignored>>

-----------------------------------------------------------------------------
(* handleLibvirtVMCreate *)

CreateVolume ==
    /\ Busy("volume")
    /\ job.cmd.disk \notin volumes
    /\ volumes' = volumes \cup {job.cmd.disk}
    /\ Proceed
    /\ UNCHANGED <<domains, conn, ignored>>

\* Mutation of DefineDomain: the path of the volume was not read.
DefineWithoutDisk ==
    /\ Busy("define")
    /\ domains[job.cmd.vm] = None
    /\ domains' = [domains EXCEPT ![job.cmd.vm] =
                    [disk |-> None, persistent |-> TRUE, running |-> FALSE,
                     autostart |-> FALSE, live |-> "none", cd |-> "none"]]
    /\ Proceed
    /\ UNCHANGED <<volumes, conn, ignored>>

\* BuildDomainXML: there is a CD-ROM drive only if an ISO was given.
DefineDomain ==
    /\ Busy("define")
    /\ domains[job.cmd.vm] = None
    /\ domains' = [domains EXCEPT ![job.cmd.vm] =
                    [disk |-> job.cmd.disk, persistent |-> TRUE, running |-> FALSE,
                     autostart |-> FALSE, live |-> "none",
                     cd |-> IF job.cmd.iso THEN "iso" ELSE "none"]]
    /\ Proceed
    /\ UNCHANGED <<volumes, conn, ignored>>

-----------------------------------------------------------------------------
(* handleDomainAction, handleLibvirtVMSetAutostart *)

Started(d) == [d EXCEPT !.running = TRUE, !.live = d.cd]
Stopped(d) == IF d.persistent THEN [d EXCEPT !.running = FALSE, !.live = "none"] ELSE None

StartDomain(n) ==
    /\ Busy("start") /\ job.cmd.vm = n /\ domains[n] # None
    /\ ~domains[n].running
    /\ domains' = [domains EXCEPT ![n] = Started(@)]
    /\ Proceed
    /\ UNCHANGED <<volumes, conn, ignored>>

\* Shutdown and Reboot only ask the guest, who may do it later (GuestStops).
AskGuest(n) ==
    /\ Busy("shutdown") \/ Busy("reboot")
    /\ job.cmd.vm = n /\ domains[n] # None /\ domains[n].running
    /\ Proceed
    /\ UNCHANGED <<domains, volumes, conn, ignored>>

DestroyDomain(n) ==
    /\ Busy("destroy") /\ job.cmd.vm = n /\ domains[n] # None
    /\ domains[n].running
    /\ domains' = [domains EXCEPT ![n] = Stopped(@)]
    /\ Proceed
    /\ UNCHANGED <<volumes, conn, ignored>>

SetAutostart(n) ==
    /\ Busy("enable") \/ Busy("disable")
    /\ job.cmd.vm = n /\ domains[n] # None /\ domains[n].persistent
    /\ domains' = [domains EXCEPT ![n].autostart = Busy("enable")]
    /\ Proceed
    /\ UNCHANGED <<volumes, conn, ignored>>

-----------------------------------------------------------------------------
(* handleLibvirtVMAttachISO, handleLibvirtVMDetachISO *)

\* IsActive, whose error counts as FALSE.
SeenActive(n) == {domains[n].running, FALSE}

\* The dropped errors behind what was seen of the domain.
Dropped(n, active, paths) ==
    (IF active # domains[n].running THEN {"active"} ELSE {})
        \cup (IF paths # {domains[n].disk} THEN {"paths"} ELSE {})

LookMedia(n) ==
    /\ Busy("look") /\ job.cmd.op \in {"attach", "detach"}
    /\ job.cmd.vm = n /\ domains[n] # None
    /\ \E active \in SeenActive(n) :
          /\ job' = [job EXCEPT !.active = active, !.todo = Tail(@)]
          /\ ignored' = ignored \cup Dropped(n, active, {domains[n].disk})
    /\ UNCHANGED <<domains, volumes, conn, reply>>

Medium == IF job.cmd.op = "attach" THEN "iso" ELSE "empty"

\* Mutation of UpdateDevice: the live flag is never set.
UpdateConfigOnly(n) ==
    /\ Busy("update") /\ job.cmd.vm = n /\ domains[n] # None
    /\ domains[n].persistent /\ domains[n].cd # "none"
    /\ domains' = [domains EXCEPT ![n].cd = Medium]
    /\ Proceed
    /\ UNCHANGED <<volumes, conn, ignored>>

\* DeviceModifyFlags: the definition, and the running machine if there was
\* one; libvirt refuses to change a drive that is not there.
UpdateDevice(n) ==
    /\ Busy("update") /\ job.cmd.vm = n /\ domains[n] # None
    /\ domains[n].persistent /\ domains[n].cd # "none"
    /\ job.active => domains[n].running
    /\ domains' = [domains EXCEPT ![n].cd = Medium,
                                  ![n].live = IF job.active THEN Medium ELSE @]
    /\ Proceed
    /\ UNCHANGED <<volumes, conn, ignored>>

-----------------------------------------------------------------------------
(* handleLibvirtVMDelete *)

\* DescribeDomain drops the error of GetXMLDesc: then no disk is seen.
SeenPaths(n) == {{domains[n].disk}, {}}

\* Mutation of DeletePlan: the volumes are removed before the definition.
RemoveFirstPlan(c, active) ==
    Only(active, "destroy") \o Only(c.remove, "remove") \o <<"undefine">>

DeletePlan(c, active) ==
    Only(active, "destroy") \o <<"undefine">> \o Only(c.remove, "remove")

\* The delete goes on with what it saw of the domain.
GoOn(n, active, paths) ==
    /\ job' = [job EXCEPT !.todo = DeletePlan(job.cmd, active), !.active = active,
                          !.paths = paths, !.disk = domains[n].disk]
    /\ UNCHANGED reply

\* Mutation of LookDelete: the domain's state is not asked for.
LookDeleteUnchecked(n) ==
    /\ Busy("look") /\ job.cmd.op = "delete" /\ job.cmd.vm = n /\ domains[n] # None
    /\ \E paths \in SeenPaths(n) :
          /\ GoOn(n, FALSE, paths)
          /\ ignored' = ignored \cup Dropped(n, domains[n].running, paths)
    /\ UNCHANGED <<domains, volumes, conn>>

\* "domain is running; force stop first"
LookDelete(n) ==
    /\ Busy("look") /\ job.cmd.op = "delete" /\ job.cmd.vm = n /\ domains[n] # None
    /\ \E active \in SeenActive(n), paths \in SeenPaths(n) :
          /\ IF active /\ ~job.cmd.force THEN Answer("error") ELSE GoOn(n, active, paths)
          /\ ignored' = ignored \cup Dropped(n, active, paths)
    /\ UNCHANGED <<domains, volumes, conn>>

UndefineDomain(n) ==
    /\ Busy("undefine") /\ job.cmd.vm = n /\ domains[n] # None
    /\ domains[n].persistent
    /\ domains' = [domains EXCEPT ![n] =
                    IF @.running THEN [@ EXCEPT !.persistent = FALSE] ELSE None]
    /\ Proceed
    /\ UNCHANGED <<volumes, conn, ignored>>

\* Mutation of RemoveVolumes: the paths are read from the domain, which is
\* undefined by now.
RemoveNothing ==
    /\ Busy("remove")
    /\ Proceed
    /\ UNCHANGED <<domains, volumes, conn, ignored>>

\* DeleteDomainVolumes skips a path whose lookup fails.
RemoveVolumes ==
    /\ Busy("remove")
    /\ \/ volumes' = volumes \ job.paths /\ UNCHANGED ignored
       \/ ignored' = ignored \cup {"lookup"} /\ UNCHANGED volumes
    /\ Proceed
    /\ UNCHANGED <<domains, conn>>

-----------------------------------------------------------------------------
(* The host *)

GuestStops(n) ==
    /\ domains[n] # None /\ domains[n].running
    /\ domains' = [domains EXCEPT ![n] = Stopped(@)]
    /\ UNCHANGED <<volumes, conn, job, reply, ignored>>

\* The machines run on; g_conn is not opened again.
LibvirtdRestarts ==
    /\ conn = "open"
    /\ conn' = "dead"
    /\ UNCHANGED <<domains, volumes, job, reply, ignored>>

SlaveDies == job' = Idle /\ conn' = "nil" /\ reply' = "none"

SlaveCrash ==
    /\ SlaveDies
    /\ UNCHANGED <<domains, volumes, ignored>>

Rebooted(d) ==
    IF d = None \/ ~d.persistent THEN None
    ELSE IF d.autostart THEN Started(d) ELSE Stopped(d)

HostReboots ==
    /\ SlaveDies
    /\ domains' = [n \in Vms |-> Rebooted(domains[n])]
    /\ UNCHANGED <<volumes, ignored>>

Handler(n) ==
    \/ StartDomain(n) \/ AskGuest(n) \/ DestroyDomain(n) \/ SetAutostart(n)
    \/ LookMedia(n) \/ UpdateDevice(n)
    \/ LookDelete(n) \/ UndefineDomain(n)

Next ==
    \/ \E c \in Commands : Receive(c)
    \/ CallFails \/ CreateVolume \/ DefineDomain \/ RemoveVolumes
    \/ \E n \in Vms : Handler(n) \/ GuestStops(n)
    \/ LibvirtdRestarts \/ SlaveCrash \/ HostReboots

Spec == Init /\ [][Next]_vars

-----------------------------------------------------------------------------
TypeOK ==
    /\ domains \in [Vms -> Domains \cup {None}]
    /\ volumes \subseteq Disks
    /\ conn \in {"nil", "open", "dead"}
    /\ job \in Jobs
    /\ reply \in {"none", "ok", "error"}
    /\ ignored \subseteq {"active", "paths", "lookup"}

(* Every machine, defined or running, has its disk and shares it with no    *)
(* other, whatever creates and deletes stop half way, see no disk or are    *)
(* repeated after a crash or a timeout.  Only a dropped error of IsActive   *)
(* breaks it: the delete that follows frees the disk of a machine that runs.*)
MachineOwnsDisk ==
    "active" \notin ignored =>
        \A n \in Vms : domains[n] # None =>
            /\ domains[n].disk \in volumes
            /\ \A m \in Vms \ {n} : domains[m] # None => domains[m].disk # domains[n].disk

(* What the handlers put into a drive is what the running machine sees: the *)
(* flags that UpdateDeviceFlags gets are stale only after a dropped error   *)
(* of IsActive.                                                             *)
MediaInStep ==
    "active" \notin ignored =>
        \A n \in Vms : domains[n] # None /\ domains[n].running /\ domains[n].persistent =>
            domains[n].live = domains[n].cd

(* A delete that answers "removed_volumes": true has removed the disk, but  *)
(* for the dropped errors of GetXMLDesc and LookupStorageVolByPath; one of  *)
(* IsActive does not matter here.                                           *)
RemovedMeansRemoved ==
    [][job # Idle /\ job.cmd.op = "delete" /\ reply' = "ok" /\ job.cmd.remove
            => job.disk \notin volumes' \/ ignored' \cap {"paths", "lookup"} # {}]_vars

(* No call of a delete without force_stop stops, changes or undefines a    *)
(* running machine ("domain is running; force stop first"), unless IsActive *)
(* failed unseen.  Guests that stop and hosts that reboot are not its calls.*)
RunningIsKept ==
    [][job # Idle /\ job.cmd.op = "delete" /\ ~job.cmd.force /\ "active" \notin ignored
            /\ job' # job /\ ~SlaveDies =>
        \A n \in Vms : domains[n] # None /\ domains[n].running => domains'[n] = domains[n]]_vars

=============================================================================
