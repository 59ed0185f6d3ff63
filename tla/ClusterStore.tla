---------------------------- MODULE ClusterStore ----------------------------
(***************************************************************************)
(* What the orchestrator knows of the clusters: the masters in memory with *)
(* their time to live (Store, src/orchestrator/registry/registry.go), the  *)
(* allowed clusters in the database (allowed_clusters.go), the whitelist   *)
(* of the configuration (src/main.go), and how the sessions of the masters *)
(* feed them (handleConn, src/orchestrator/tcp/server.go).                 *)
(*                                                                         *)
(* A session is at most one packet deep (OrchSession, AnswersInStep), so   *)
(* the update of a master that is under way is one value.                  *)
(***************************************************************************)
EXTENDS Naturals

CONSTANTS
    Clusters,   \* cluster names; the empty name cannot be configured
    Masters,
    Nodes,      \* slaves
    None,
    Configs,    \* bound: the masterwhitelist settings that are tried
    Homes,      \* bound: the clusters each master may be configured for
    TTL         \* statettlseconds, in ticks

\* A whitelist: the keys of the YAML map and the masters under each key.
Whitelists == [keys : SUBSET Clusters, masters : [Clusters -> SUBSET Masters]]

ASSUME ConfigAssumption == Configs \subseteq Whitelists
ASSUME HomesAssumption == Homes \in [Masters -> SUBSET Clusters]
ASSUME TTLAssumption == TTL \in Nat
ASSUME NoneAssumption == None \notin Clusters /\ \A S \in SUBSET Nodes : S # None

VARIABLES
    config,   \* the orchestrator's whitelist
    rows,     \* the table of allowed clusters; outlives the process
    store,    \* mastersByID: [cluster, nodes, age], or None
    home,     \* the cluster in each master's configuration
    session,  \* the cluster a master's session was authenticated for, or None
    update,   \* the nodes in the master.register or heartbeat under way
    links     \* the slaves registered at each master (listConnectedNodeIDs)

storeVars == <<config, rows, store, home, session, update, links>>

Entries == [cluster : Clusters, nodes : SUBSET Nodes, age : 0..TTL + 1]

-----------------------------------------------------------------------------
(* Queries *)

\* main.go: clusters without a master do not reach the TCP server.
ListedClusters == {c \in config.keys : config.masters[c] # {}}

\* handleConn: an empty whitelist admits every master.
Authorised(m, c) ==
    ListedClusters = {} \/ (c \in ListedClusters /\ m \in config.masters[c])

\* AllowedClusters.IsAllowed: an empty table allows every cluster.
IsAllowed(c) == rows = {} \/ c \in rows

Visible(m) == store[m] # None /\ store[m].age <= TTL

MastersForCluster(c) == {m \in Masters : Visible(m) /\ store[m].cluster = c}

IsClusterOnline(c) == MastersForCluster(c) # {}

NodesForCluster(c) == UNION {store[m].nodes : m \in MastersForCluster(c)}

\* When the database fails (~dbOk) the masters in memory stand in for it.
ActiveClusters(dbOk) == IF dbOk THEN rows ELSE {c \in Clusters : IsClusterOnline(c)}

IsKnownCluster(c, dbOk) == IF dbOk THEN IsAllowed(c) ELSE IsClusterOnline(c)

-----------------------------------------------------------------------------
NoSessions == session' = [m \in Masters |-> None] /\ update' = [m \in Masters |-> None]

EndSession(m) ==
    /\ session' = [session EXCEPT ![m] = None]
    /\ update' = [update EXCEPT ![m] = None]

StoreInit ==
    /\ config \in Configs
    /\ rows \in SUBSET config.keys
    /\ store = [m \in Masters |-> None]
    /\ home \in [Masters -> Clusters] /\ \A m \in Masters : home[m] \in Homes[m]
    /\ session = [m \in Masters |-> None]
    /\ update = [m \in Masters |-> None]
    /\ links = [m \in Masters |-> {}]

\* Mutation of OrchRestart: the table is emptied and seeded again while the
\* masters stay in memory, as a reload without a restart would.
ReloadConfig(cfg) ==
    /\ config' = cfg
    /\ rows' = cfg.keys
    /\ UNCHANGED <<store, session, update, home, links>>

\* The orchestrator starts again, perhaps with another whitelist: the store is
\* empty and the sessions are gone.  EnsureSeed adds the keys to the table; it
\* drops the error of an insertion.
OrchRestart(cfg) ==
    /\ config' = cfg
    /\ \E seeded \in SUBSET cfg.keys : rows' = rows \cup seeded
    /\ store' = [m \in Masters |-> None]
    /\ NoSessions
    /\ UNCHANGED <<home, links>>

\* The handshake of handleConn up to auth.ok.
MasterConnects(m) ==
    /\ session[m] = None
    /\ Authorised(m, home[m])
    /\ session' = [session EXCEPT ![m] = home[m]]
    /\ UNCHANGED <<config, rows, store, home, update, links>>

MasterDisconnects(m) ==
    /\ session[m] # None
    /\ EndSession(m)
    /\ UNCHANGED <<config, rows, store, home, links>>

\* The master starts again, perhaps for another cluster, without its slaves.
\* Its handler ends with it; one that outlives it and still applies an update
\* is in MasterSessions.
MasterRestart(m, c) ==
    /\ c \in Homes[m]
    /\ home' = [home EXCEPT ![m] = c]
    /\ EndSession(m)
    /\ links' = [links EXCEPT ![m] = {}]
    /\ UNCHANGED <<config, rows, store>>

\* buildMasterInfo: a snapshot of the master's slaves.
SendUpdate(m) ==
    /\ session[m] # None /\ update[m] = None
    /\ update' = [update EXCEPT ![m] = links[m]]
    /\ UNCHANGED <<config, rows, store, home, session, links>>

\* Mutation of UpsertMaster: the cluster is not looked up.
UpsertUnchecked(m) ==
    /\ update[m] # None
    /\ store' = [store EXCEPT ![m] = [cluster |-> session[m], nodes |-> update[m], age |-> 0]]
    /\ update' = [update EXCEPT ![m] = None]
    /\ UNCHANGED <<config, rows, home, session, links>>

\* Mutation of UpsertMaster: the nodes are merged into the known ones.
UpsertMerges(m) ==
    /\ update[m] # None
    /\ IsAllowed(session[m])
    /\ store' = [store EXCEPT ![m] =
                    [cluster |-> session[m], age |-> 0,
                     nodes |-> update[m] \cup IF store[m] = None THEN {} ELSE store[m].nodes]]
    /\ update' = [update EXCEPT ![m] = None]
    /\ UNCHANGED <<config, rows, home, session, links>>

\* Mutation of UpsertMaster: the entry has no LastSeen.
UpsertUndated(m) ==
    /\ update[m] # None
    /\ store' = [store EXCEPT ![m] = [cluster |-> session[m], nodes |-> update[m]]]
    /\ update' = [update EXCEPT ![m] = None]
    /\ UNCHANGED <<config, rows, home, session, links>>

UpsertMaster(m) ==
    /\ update[m] # None
    /\ IsAllowed(session[m])
    /\ store' = [store EXCEPT ![m] = [cluster |-> session[m], nodes |-> update[m], age |-> 0]]
    /\ update' = [update EXCEPT ![m] = None]
    /\ UNCHANGED <<config, rows, home, session, links>>

\* The cluster is not in the table, or the database fails; the error ends
\* the master's session.
RejectUpdate(m) ==
    /\ update[m] # None
    /\ EndSession(m)
    /\ UNCHANGED <<config, rows, store, home, links>>

SlaveConnects(n, m) ==
    /\ n \notin links[m]
    /\ links' = [links EXCEPT ![m] = @ \cup {n}]
    /\ UNCHANGED <<config, rows, store, home, session, update>>

SlaveLeaves(n, m) ==
    /\ n \in links[m]
    /\ links' = [links EXCEPT ![m] = @ \ {n}]
    /\ UNCHANGED <<config, rows, store, home, session, update>>

Older(entry) ==
    IF entry = None \/ entry.age > TTL THEN entry ELSE [entry EXCEPT !.age = @ + 1]

\* Time passes; an entry older than TTL is ignored by every query.
Tick ==
    /\ store' = [m \in Masters |-> Older(store[m])]
    /\ UNCHANGED <<config, rows, home, session, update, links>>

Master(m) ==
    \/ MasterConnects(m) \/ MasterDisconnects(m)
    \/ \E c \in Clusters : MasterRestart(m, c)
    \/ SendUpdate(m) \/ UpsertMaster(m) \/ RejectUpdate(m)
    \/ \E n \in Nodes : SlaveConnects(n, m) \/ SlaveLeaves(n, m)

StoreNext ==
    \/ \E cfg \in Configs : OrchRestart(cfg)
    \/ \E m \in Masters : Master(m)
    \/ Tick

\* The clock runs; a session's ticker fires and its updates are handled.
StoreFairness ==
    /\ WF_storeVars(Tick)
    /\ \A m \in Masters :
          WF_storeVars(SendUpdate(m)) /\ WF_storeVars(UpsertMaster(m) \/ RejectUpdate(m))

StoreSpec == StoreInit /\ [][StoreNext]_storeVars /\ StoreFairness

-----------------------------------------------------------------------------
StoreTypeOK ==
    /\ config \in Whitelists
    /\ rows \subseteq Clusters
    /\ store \in [Masters -> Entries \cup {None}]
    /\ home \in [Masters -> Clusters]
    /\ session \in [Masters -> Clusters \cup {None}]
    /\ update \in [Masters -> {None} \cup SUBSET Nodes]
    /\ links \in [Masters -> SUBSET Nodes]

(* A command is only ever routed to a master that the configuration in      *)
(* force admits for that cluster, across restarts of either side and        *)
(* changes of their configurations.                                         *)
RoutedMasterIsAuthorised ==
    \A c \in Clusters : \A m \in MastersForCluster(c) : Authorised(m, c)

(* A cluster with a live master is one the pages admit (IsKnownCluster), and *)
(* it is in the list of clusters unless that list is empty, whether the      *)
(* database answers the web server or not.                                   *)
OnlineClusterIsKnown ==
    \A c \in Clusters, dbOk \in BOOLEAN : IsClusterOnline(c) =>
        /\ IsKnownCluster(c, dbOk)
        /\ ActiveClusters(dbOk) = {} \/ c \in ActiveClusters(dbOk)

\* A slave on the page of a cluster that is connected to no master.
Ghost(n, c) == n \in NodesForCluster(c) /\ \A m \in Masters : n \notin links[m]

(* A slave that has left its master does not stay on the node page: the     *)
(* next heartbeat or the time to live removes it.                           *)
GhostNodeDisappears == \A n \in Nodes : \A c \in Clusters : Ghost(n, c) ~> ~Ghost(n, c)

=============================================================================
