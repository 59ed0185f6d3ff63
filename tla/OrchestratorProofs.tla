------------------------- MODULE OrchestratorProofs -------------------------
(***************************************************************************)
(* The two things the orchestrator keeps between packets.  First the calls *)
(* in the table of a connection (RequestTable), for any set of calls, any  *)
(* number of repeated replies and both variants of the code, so that it is *)
(* also about the master's table of a slave.  Then the store of masters    *)
(* and the allowed clusters (ClusterStore).                                *)
(***************************************************************************)
EXTENDS RequestTable, ClusterStore, TLAPS

\* The reader holds the channel of one call exactly while it sends, and that
\* call is in the table no more.
SendingInv ==
    /\ reader = "sending" <=> sending # NoId
    /\ sending # NoId => /\ sending \notin pend
                         /\ chan[sending] = NoId
                         /\ pc[sending] # "idle"
                         /\ answers[sending] > 0

\* A channel whose id is in the table has never been sent to.
TableInv ==
    \A r \in pend : pc[r] # "idle" /\ chan[r] = NoId

\* Only answers to a call's own id reach its channel.
ChannelInv ==
    \A r \in Requests : chan[r] # NoId =>
        chan[r] = r /\ answers[r] > 0 /\ pc[r] # "idle"

\* Replies in flight answer ids that were written by their callers.
InboxInv ==
    /\ \A i \in 1..Len(inbox) : inbox[i] # NoId => answers[inbox[i]] > 0
    /\ \A r \in Requests : answers[r] > 0 => r \in received
    /\ \A r \in received : pc[r] # "idle"

Correlated ==
    /\ SendingInv
    /\ TableInv
    /\ ChannelInv
    /\ InboxInv
    /\ PendingHasWaiter

IInv == TypeOK /\ Correlated

-----------------------------------------------------------------------------
(* What the reader takes from the connection is a packet id, and the rest   *)
(* of the packets are the ones that were there (ReadPacket).                *)
LEMMA HeadTail ==
    ASSUME TypeOK, inbox # <<>>
    PROVE  /\ Head(inbox) = inbox[1] /\ 1 \in 1..Len(inbox)
           /\ Head(inbox) \in PacketIds
           /\ Tail(inbox) \in Seq(PacketIds)
           /\ \A i \in 1..Len(Tail(inbox)) :
                  i + 1 \in 1..Len(inbox) /\ Tail(inbox)[i] = inbox[i + 1]
BY DEF TypeOK

(* Every step of a caller, the reader, the peer or the network preserves    *)
(* the types of the table's state.                                          *)
LEMMA TypeInductive == TypeOK /\ [Next]_vars => TypeOK'
<1> SUFFICES ASSUME TypeOK, [Next]_vars PROVE TypeOK'
  OBVIOUS
<1> USE NoIdAssumption, BoundsAssumption DEF TypeOK, PacketIds, callVars, peerVars
<1>1. ASSUME NEW r \in Requests, Caller(r) PROVE TypeOK'
  BY <1>1 DEF Caller, Register, WriteOk, WriteError, Receive, Expire, Forget
<1>2. CASE Resolve
  BY <1>2, HeadTail DEF Resolve
<1>3. CASE Deliver \/ StopReading
  BY <1>3 DEF Deliver, StopReading
<1>4a. CASE PeerSpeaks
  BY <1>4a DEF PeerSpeaks
<1>4b. ASSUME NEW r \in Requests, PeerAnswers(r) PROVE TypeOK'
  BY <1>4b DEF PeerAnswers
<1>5. CASE Break
  BY <1>5 DEF Break
<1>6. CASE UNCHANGED vars
  BY <1>6 DEF vars
<1> QED
  BY <1>1, <1>2, <1>3, <1>4a, <1>4b, <1>5, <1>6 DEF Next, Reader, Peer

(* The invariant that relates the table, the channels, the reader and the   *)
(* replies in flight is inductive.                                          *)
LEMMA Inductive == IInv /\ [Next]_vars => IInv'
<1>t. IInv /\ [Next]_vars => TypeOK'
  BY TypeInductive DEF IInv
<1> SUFFICES ASSUME IInv, [Next]_vars PROVE Correlated'
  BY <1>t DEF IInv
<1> USE NoIdAssumption, BoundsAssumption, VariantAssumption
    DEF IInv, TypeOK, Correlated, PacketIds, callVars, peerVars,
        SendingInv, TableInv, ChannelInv, InboxInv, PendingHasWaiter
<1>1. ASSUME NEW r \in Requests, Register(r) PROVE Correlated'
  BY <1>1, <1>t DEF Register
<1>2. ASSUME NEW r \in Requests, WriteOk(r) PROVE Correlated'
  BY <1>2, <1>t DEF WriteOk
<1>3. ASSUME NEW r \in Requests, WriteError(r) PROVE Correlated'
  BY <1>3, <1>t DEF WriteError
<1>4. ASSUME NEW r \in Requests, Receive(r) PROVE Correlated'
  BY <1>4, <1>t DEF Receive
<1>5. ASSUME NEW r \in Requests, Expire(r) PROVE Correlated'
  BY <1>5, <1>t DEF Expire
<1>6. ASSUME NEW r \in Requests, Forget(r) PROVE Correlated'
  BY <1>6, <1>t DEF Forget
<1>7. CASE Resolve
  BY <1>7, <1>t, HeadTail DEF Resolve
<1>8. CASE Deliver
  BY <1>8, <1>t DEF Deliver
<1>9. CASE StopReading
  BY <1>9, <1>t DEF StopReading
<1>10. ASSUME NEW r \in Requests, PeerAnswers(r) PROVE Correlated'
  BY <1>10, <1>t DEF PeerAnswers
<1>11. CASE PeerSpeaks
  BY <1>11, <1>t DEF PeerSpeaks
<1>12. CASE Break
  BY <1>12, <1>t DEF Break
<1>13. CASE UNCHANGED vars
  BY <1>13, <1>t DEF vars
<1> HIDE DEF IInv, TypeOK, Correlated, PacketIds
<1> QED
  BY <1>1, <1>2, <1>3, <1>4, <1>5, <1>6, <1>7, <1>8, <1>9, <1>10, <1>11, <1>12, <1>13
  DEF Next, Caller, Reader, Peer

(* The inductive invariant holds initially. *)
LEMMA InitInv == Init => IInv
BY NoIdAssumption DEF Init, IInv, Correlated, TypeOK, PacketIds, SendingInv, TableInv,
   ChannelInv, InboxInv, PendingHasWaiter

(* The inductive invariant holds throughout sendRequest, resolveReply and   *)
(* the read loop.                                                           *)
THEOREM Invariance == Spec => []IInv
<1>1. QED
  BY InitInv, Inductive, PTL DEF Spec

(* The variables of sendRequest, resolveReply and the read loop keep their  *)
(* types.                                                                   *)
THEOREM TypeCorrect == Spec => []TypeOK
<1>1. IInv => TypeOK
  BY DEF IInv
<1> QED
  BY <1>1, Invariance, PTL

(* However often the peer answers, the reading goroutine's send to a reply  *)
(* channel (resolveReply) never blocks.                                     *)
THEOREM ReaderNeverBlocksThm == Spec => []ReaderNeverBlocks
<1>1. IInv => ReaderNeverBlocks
  BY DEF IInv, Correlated, SendingInv, ReaderNeverBlocks
<1> QED
  BY <1>1, Invariance, PTL

(* No entry of the table outlives its caller, but for the failed writes of  *)
(* masterConn.                                                              *)
THEOREM PendingHasWaiterThm == Spec => []PendingHasWaiter
<1>1. IInv => PendingHasWaiter
  BY DEF IInv, Correlated
<1> QED
  BY <1>1, Invariance, PTL

-----------------------------------------------------------------------------
(* Every step of the table is a step of RequestReply or leaves it alone.    *)
LEMMA StepRefines == IInv /\ [Next]_vars => [Promise!Next]_Promise!vars
<1> SUFFICES ASSUME IInv, [Next]_vars PROVE [Promise!Next]_Promise!vars
  OBVIOUS
<1> USE NoIdAssumption DEF Promise!Next, Promise!vars, IInv, Correlated, TypeOK, PacketIds,
    callVars, peerVars
<1>1. ASSUME NEW r \in Requests, Register(r) PROVE Promise!Call(r)
  BY <1>1 DEF Register, Promise!Call, Outcome
<1>2. ASSUME NEW r \in Requests, WriteOk(r) \/ Expire(r) PROVE UNCHANGED Promise!vars
  BY <1>2 DEF WriteOk, Expire, Outcome
<1>3a. ASSUME NEW r \in Requests, WriteError(r) PROVE Promise!ReturnError(r)
  <2>1. [x \in Requests |-> Outcome(x)]' =
            [[x \in Requests |-> Outcome(x)] EXCEPT ![r] = "failed"]
    BY <1>3a DEF WriteError, Outcome
  <2> QED
    BY <1>3a, <2>1 DEF WriteError, Outcome, Promise!ReturnError
<1>3b. ASSUME NEW r \in Requests, Forget(r) PROVE Promise!ReturnError(r)
  <2>1. [x \in Requests |-> Outcome(x)]' =
            [[x \in Requests |-> Outcome(x)] EXCEPT ![r] = "timeout"]
    BY <1>3b DEF Forget, Outcome
  <2> QED
    BY <1>3b, <2>1 DEF Forget, Outcome, Promise!ReturnError
<1>4. ASSUME NEW r \in Requests, Receive(r) PROVE Promise!ReturnReply(r)
  BY <1>4 DEF Receive, Promise!ReturnReply, Outcome, ChannelInv
<1>5. CASE Reader \/ PeerSpeaks \/ Break \/ UNCHANGED vars
  BY <1>5 DEF Reader, Resolve, Deliver, StopReading, PeerSpeaks, Break, vars, Outcome
<1>6. ASSUME NEW r \in Requests, PeerAnswers(r) PROVE Promise!Answer(r)
  <2>1. {x \in Requests : answers[x] > 0}' = {x \in Requests : answers[x] > 0} \cup {r}
    BY <1>6 DEF PeerAnswers
  <2> QED
    BY <1>6, <2>1 DEF PeerAnswers, Promise!Answer, Outcome, InboxInv
<1> QED
  BY <1>1, <1>2, <1>3a, <1>3b, <1>4, <1>5, <1>6 DEF Next, Caller, Peer

(* sendRequest keeps its promise: a call ends once, and with a reply only   *)
(* if the peer answered that very call.                                     *)
THEOREM ImplementsPromiseThm == Spec => ImplementsPromise
<1>1. Init => Promise!Init
  BY DEF Init, Promise!Init, Outcome
<1> QED
  BY <1>1, StepRefines, Invariance, PTL DEF Spec, Promise!Spec, ImplementsPromise

-----------------------------------------------------------------------------
(***************************************************************************)
(* The store, for any clusters, masters, whitelists and time to live.  It  *)
(* only routes to masters the whitelist in force admits, and an online     *)
(* cluster is a known one.                                                 *)
(*                                                                         *)
(* Neither is inductive alone: UpsertMaster writes the cluster of the      *)
(* session, so the sessions must be authorised too, and an update under    *)
(* way must belong to a session.                                           *)
(***************************************************************************)

\* Every session was admitted by the whitelist in force.
SessionsAuthorised == \A m \in Masters : session[m] # None => Authorised(m, session[m])

\* An update under way belongs to a session.
UpdatesHaveSession == \A m \in Masters : update[m] # None => session[m] # None

\* Every entry, visible or expired, is of an authorised master and of an
\* allowed cluster.
StoreChecked ==
    \A m \in Masters : store[m] # None =>
        Authorised(m, store[m].cluster) /\ IsAllowed(store[m].cluster)

StoreInv == StoreTypeOK /\ SessionsAuthorised /\ UpdatesHaveSession /\ StoreChecked

\* A step of the masters and the clock: the configuration and the table stay.
SameRules == UNCHANGED <<config, rows>>

-----------------------------------------------------------------------------
(* StoreInit establishes the invariant: there are no sessions and no entries. *)
LEMMA StoreInvInit == StoreInit => StoreInv
BY ConfigAssumption
   DEF StoreInit, StoreInv, StoreTypeOK, SessionsAuthorised,
       UpdatesHaveSession, StoreChecked, Whitelists

(* Older changes nothing of an entry but its age, which stays bounded. *)
LEMMA OlderKeeps ==
    ASSUME NEW e \in Entries \cup {None}
    PROVE  /\ Older(e) \in Entries \cup {None}
           /\ e = None => Older(e) = None
           /\ e # None => Older(e).cluster = e.cluster
BY TTLAssumption DEF Older, Entries

(* Every action keeps the types. *)
LEMMA StoreTypeStep ==
    StoreTypeOK /\ UpdatesHaveSession /\ [StoreNext]_storeVars => StoreTypeOK'
<1> SUFFICES ASSUME StoreTypeOK, UpdatesHaveSession, [StoreNext]_storeVars PROVE StoreTypeOK'
  OBVIOUS
<1>1. ASSUME NEW cfg \in Configs, OrchRestart(cfg) PROVE StoreTypeOK'
  BY <1>1, ConfigAssumption DEF StoreTypeOK, OrchRestart, NoSessions, Whitelists
<1>2. ASSUME NEW m \in Masters, MasterConnects(m) PROVE StoreTypeOK'
  BY <1>2 DEF StoreTypeOK, MasterConnects
<1>3. ASSUME NEW m \in Masters, MasterDisconnects(m) PROVE StoreTypeOK'
  BY <1>3 DEF StoreTypeOK, MasterDisconnects, EndSession
<1>4. ASSUME NEW m \in Masters, NEW c \in Clusters, MasterRestart(m, c) PROVE StoreTypeOK'
  BY <1>4 DEF StoreTypeOK, MasterRestart, EndSession
<1>5. ASSUME NEW m \in Masters, SendUpdate(m) PROVE StoreTypeOK'
  BY <1>5 DEF StoreTypeOK, SendUpdate
<1>6. ASSUME NEW m \in Masters, UpsertMaster(m) PROVE StoreTypeOK'
  <2> DEFINE e == [cluster |-> session[m], nodes |-> update[m], age |-> 0]
  <2>1. session[m] \in Clusters /\ update[m] \in SUBSET Nodes
    BY <1>6 DEF StoreTypeOK, UpsertMaster, UpdatesHaveSession
  <2>2. e \in Entries
    BY <2>1, TTLAssumption DEF Entries
  <2>3. store' \in [Masters -> Entries \cup {None}]
    BY <1>6, <2>2 DEF StoreTypeOK, UpsertMaster
  <2> QED
    BY <1>6, <2>3 DEF StoreTypeOK, UpsertMaster
<1>7. ASSUME NEW m \in Masters, RejectUpdate(m) PROVE StoreTypeOK'
  BY <1>7 DEF StoreTypeOK, RejectUpdate, EndSession
<1>8. ASSUME NEW m \in Masters, NEW n \in Nodes,
             SlaveConnects(n, m) \/ SlaveLeaves(n, m)
      PROVE  StoreTypeOK'
  BY <1>8 DEF StoreTypeOK, SlaveConnects, SlaveLeaves
<1>9. CASE Tick
  <2>1. \A m \in Masters : Older(store[m]) \in Entries \cup {None}
    BY OlderKeeps DEF StoreTypeOK
  <2> QED
    BY <1>9, <2>1 DEF StoreTypeOK, Tick
<1>10. CASE UNCHANGED storeVars
  BY <1>10 DEF StoreTypeOK, storeVars
<1> QED
  BY <1>1, <1>2, <1>3, <1>4, <1>5, <1>6, <1>7, <1>8, <1>9, <1>10 DEF StoreNext, Master

(* Without a restart of the orchestrator, what was admitted stays admitted. *)
LEMMA RulesKept ==
    ASSUME SameRules
    PROVE  \A m, c : /\ (Authorised(m, c))' = Authorised(m, c)
                     /\ (IsAllowed(c))' = IsAllowed(c)
BY DEF SameRules, Authorised, IsAllowed, ListedClusters

(* Every action keeps the relation between sessions, updates and entries. *)
LEMMA StoreStep == StoreInv /\ [StoreNext]_storeVars => StoreInv'
<1> SUFFICES ASSUME StoreInv, [StoreNext]_storeVars PROVE StoreInv'
  OBVIOUS
<1> DEFINE Rest == SessionsAuthorised /\ UpdatesHaveSession /\ StoreChecked
<1>0. StoreTypeOK'
  BY StoreTypeStep DEF StoreInv
<1>1. ASSUME NEW cfg \in Configs, OrchRestart(cfg) PROVE Rest'
  BY <1>1 DEF OrchRestart, NoSessions, SessionsAuthorised, UpdatesHaveSession,
              StoreChecked
<1>2. ASSUME NEW m \in Masters, MasterConnects(m) PROVE Rest'
  <2>1. SameRules
    BY <1>2 DEF MasterConnects, SameRules
  <2> QED
    BY <1>2, <2>1, RulesKept
    DEF StoreInv, StoreTypeOK, MasterConnects, SessionsAuthorised,
        UpdatesHaveSession, StoreChecked
<1>3. ASSUME NEW m \in Masters, EndSession(m), SameRules, UNCHANGED store PROVE Rest'
  BY <1>3, RulesKept
  DEF StoreInv, StoreTypeOK, EndSession, SessionsAuthorised, UpdatesHaveSession,
      StoreChecked
<1>4. ASSUME NEW m \in Masters, SendUpdate(m) PROVE Rest'
  <2>1. SameRules
    BY <1>4 DEF SendUpdate, SameRules
  <2> QED
    BY <1>4, <2>1, RulesKept
    DEF StoreInv, StoreTypeOK, SendUpdate, SessionsAuthorised, UpdatesHaveSession,
        StoreChecked
<1>5. ASSUME NEW m \in Masters, UpsertMaster(m) PROVE Rest'
  <2>1. SameRules
    BY <1>5 DEF UpsertMaster, SameRules
  <2>2. Authorised(m, session[m]) /\ IsAllowed(session[m])
    BY <1>5 DEF UpsertMaster, StoreInv, UpdatesHaveSession, SessionsAuthorised
  <2>3. StoreChecked'
    <3> SUFFICES ASSUME NEW k \in Masters, store'[k] # None
                 PROVE  Authorised(k, store'[k].cluster) /\ IsAllowed(store'[k].cluster)
      BY <2>1, RulesKept DEF StoreChecked
    <3>1. CASE k = m
      <4>1. store'[k].cluster = session[m]
        BY <1>5, <3>1 DEF UpsertMaster, StoreInv, StoreTypeOK
      <4> QED
        BY <2>2, <3>1, <4>1
    <3>2. CASE k # m
      <4>1. store'[k] = store[k]
        BY <1>5, <3>2 DEF UpsertMaster, StoreInv, StoreTypeOK
      <4> QED
        BY <4>1 DEF StoreInv, StoreChecked
    <3> QED
      BY <3>1, <3>2
  <2> QED
    BY <1>5, <2>1, <2>3, RulesKept
    DEF StoreInv, StoreTypeOK, UpsertMaster, SessionsAuthorised, UpdatesHaveSession
<1>6. ASSUME NEW m \in Masters, NEW n \in Nodes,
             SlaveConnects(n, m) \/ SlaveLeaves(n, m)
      PROVE  Rest'
  <2>1. SameRules /\ UNCHANGED <<store, session, update>>
    BY <1>6 DEF SlaveConnects, SlaveLeaves, SameRules
  <2> QED
    BY <2>1, RulesKept DEF StoreInv, SessionsAuthorised, UpdatesHaveSession, StoreChecked
<1>7. ASSUME Tick PROVE Rest'
  <2>1. SameRules /\ UNCHANGED <<session, update>>
    BY <1>7 DEF Tick, SameRules
  <2>2. ASSUME NEW m \in Masters, store'[m] # None
        PROVE  store[m] # None /\ store'[m].cluster = store[m].cluster
    BY <1>7, <2>2, OlderKeeps DEF Tick, StoreInv, StoreTypeOK
  <2> QED
    BY <2>1, <2>2, RulesKept DEF StoreInv, SessionsAuthorised, UpdatesHaveSession, StoreChecked
<1>8. ASSUME UNCHANGED storeVars PROVE Rest'
  <2>1. SameRules /\ UNCHANGED <<store, session, update>>
    BY <1>8 DEF storeVars, SameRules
  <2> QED
    BY <2>1, RulesKept DEF StoreInv, SessionsAuthorised, UpdatesHaveSession, StoreChecked
<1>9. ASSUME NEW m \in Masters,
             \/ MasterDisconnects(m) \/ RejectUpdate(m)
             \/ \E c \in Clusters : MasterRestart(m, c)
      PROVE  Rest'
  <2>1. EndSession(m) /\ SameRules /\ UNCHANGED store
    BY <1>9 DEF MasterDisconnects, RejectUpdate, MasterRestart, SameRules
  <2> QED
    BY <2>1, <1>3
<1> HIDE DEF Rest
<1>10. Rest'
  BY <1>1, <1>2, <1>4, <1>5, <1>6, <1>7, <1>8, <1>9 DEF StoreNext, Master
<1> QED
  BY <1>0, <1>10 DEF StoreInv, Rest

(* The invariant holds in every behaviour. *)
LEMMA StoreInvariance == StoreSpec => []StoreInv
BY StoreInvInit, StoreStep, PTL DEF StoreSpec

-----------------------------------------------------------------------------
(* Every state of the orchestrator's store, table and sessions is well      *)
(* formed.                                                                  *)
THEOREM StoreTypeCorrect == StoreSpec => []StoreTypeOK
<1>1. StoreInv => StoreTypeOK
  BY DEF StoreInv
<1> QED
  BY <1>1, StoreInvariance, PTL

(* SendClusterCommandWait only ever picks a master that the whitelist in    *)
(* force admits for the cluster, whatever restarts in whatever order.       *)
THEOREM RoutingAuthorised == StoreSpec => []RoutedMasterIsAuthorised
<1>1. StoreInv => RoutedMasterIsAuthorised
  BY DEF StoreInv, StoreChecked, RoutedMasterIsAuthorised, MastersForCluster,
         Visible
<1> QED
  BY <1>1, StoreInvariance, PTL

(* A cluster with a live master is one IsKnownCluster accepts.              *)
THEOREM OnlineKnown == StoreSpec => []OnlineClusterIsKnown
<1>1. StoreInv => OnlineClusterIsKnown
  BY DEF StoreInv, StoreChecked, OnlineClusterIsKnown, IsClusterOnline,
         MastersForCluster, Visible, IsKnownCluster, IsAllowed, ActiveClusters
<1> QED
  BY <1>1, StoreInvariance, PTL

=============================================================================
