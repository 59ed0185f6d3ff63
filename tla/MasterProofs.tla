---------------------------- MODULE MasterProofs ----------------------------
(***************************************************************************)
(* The table masterConns, for any number of masters, connections and       *)
(* pages: its entries, the reach of a connected master, and the page that  *)
(* finds the only master of its node.                                      *)
(***************************************************************************)
EXTENDS MasterSessions, TLAPS

\* A handler runs for the master that dialled, and past the proof only for a
\* master the whitelist has; after the last call nothing is left of it.
HandlersInv ==
    \A c \in Conns :
        /\ handler[c] = "closed" => peer[c] = None
        /\ handler[c] # "closed" => peer[c] \in Masters
        /\ handler[c] \in {"authed", "open", "leaving"} => peer[c] \in allowed

\* A master dials only when it holds no connection.
ClientInv == \A m \in Masters : client[m] = "backoff" => mcon[m] = None

\* The entries of masterConns.
TableInv ==
    \A m \in Masters : conns[m] # None =>
        handler[conns[m]] \in {"open", "leaving"} /\ peer[conns[m]] = m

\* The handler of a session its master holds and that overlapped none.
Lone(c) == handler[c] # "closed" /\ mcon[peer[c]] = c /\ ~overlap[c]

\* Such a handler is the only one of its master, and once it has registered
\* the table has it.
LoneInv ==
    \A c \in Conns : Lone(c) =>
        /\ \A d \in Conns \ {c} : peer[d] # peer[c]
        /\ handler[c] = "open" => conns[peer[c]] = c

\* A page on its way has a master to go to, the only one of its node if
\* there is only one.
PageInv ==
    \A r \in Pages : page[r] = "routed" =>
        target[r] \in Masters /\ (sole[r] # None => target[r] = sole[r])

MasterInv ==
    /\ TypeOK
    /\ HandlersInv
    /\ ClientInv
    /\ TableInv
    /\ LoneInv
    /\ PageInv

-----------------------------------------------------------------------------
(* Types *)

(* What the master or a handler writes, reads or drops keeps the queues     *)
(* sequences of packets.                                                    *)
LEMMA QueueTypes ==
    ASSUME NEW S, NEW Q, NEW f \in [S -> Seq(Q)], NEW c, NEW p \in Q
    PROVE  /\ [f EXCEPT ![c] = Append(@, p)] \in [S -> Seq(Q)]
           /\ [f EXCEPT ![c] = <<p>>] \in [S -> Seq(Q)]
           /\ [f EXCEPT ![c] = <<>>] \in [S -> Seq(Q)]
           /\ c \in S /\ f[c] # <<>> =>
                 /\ [f EXCEPT ![c] = Tail(@)] \in [S -> Seq(Q)]
                 /\ Head(f[c]) \in Q
<1>1. c \in S => Append(f[c], p) \in Seq(Q)
  OBVIOUS
<1>2. <<p>> \in Seq(Q) /\ <<>> \in Seq(Q)
  OBVIOUS
<1>3. c \in S /\ f[c] # <<>> => Tail(f[c]) \in Seq(Q) /\ Head(f[c]) \in Q
  OBVIOUS
<1> QED
  BY <1>1, <1>2, <1>3

(* The packets of the two directions.                                       *)
LEMMA PacketTypes ==
    /\ Auth \in FromMaster /\ \A nodes \in SUBSET Nodes : Update(nodes) \in FromMaster
    /\ {"challenge", "ok", "error"} \subseteq ToMaster
    /\ \A p \in FromMaster : p.type = "update" => p.nodes \in SUBSET Nodes
<1>1. Auth \in FromMaster /\ \A nodes \in SUBSET Nodes : Update(nodes) \in FromMaster
  BY DEF FromMaster
<1>2. ASSUME NEW p \in FromMaster, p.type = "update" PROVE p.nodes \in SUBSET Nodes
  <2>1. Auth.type = "auth"
    BY DEF Auth
  <2>2. PICK nodes \in SUBSET Nodes : p = Update(nodes)
    BY <1>2, <2>1 DEF FromMaster
  <2>3. Update(nodes).nodes = nodes
    BY DEF Update
  <2> QED
    BY <2>2, <2>3
<1> QED
  BY <1>1, <1>2 DEF ToMaster

(* A write reaches the queue or is lost.                                    *)
LEMMA SendTypes ==
    ASSUME TypeOK, NEW c
    PROVE  /\ \A p \in ToMaster : SendToMaster(c, p) => toMaster' \in [Conns -> Seq(ToMaster)]
           /\ \A p \in FromMaster : SendToOrch(c, p) => toOrch' \in [Conns -> Seq(FromMaster)]
<1>1. toMaster \in [Conns -> Seq(ToMaster)] /\ toOrch \in [Conns -> Seq(FromMaster)]
  BY DEF TypeOK
<1>2. ASSUME NEW p \in ToMaster PROVE [toMaster EXCEPT ![c] = Append(@, p)] \in [Conns -> Seq(ToMaster)]
  BY <1>1, QueueTypes
<1>3. ASSUME NEW p \in FromMaster PROVE [toOrch EXCEPT ![c] = Append(@, p)] \in [Conns -> Seq(FromMaster)]
  BY <1>1, QueueTypes
<1> QED
  BY <1>1, <1>2, <1>3 DEF SendToMaster, SendToOrch

(* A handler consumes packets of a master, or drops them with its           *)
(* connection.                                                              *)
LEMMA ReadTypes ==
    ASSUME TypeOK, NEW c \in Conns
    PROVE  /\ Discard(c) => toOrch' \in [Conns -> Seq(FromMaster)]
           /\ toOrch[c] # <<>> =>
                 /\ Consume(c) => toOrch' \in [Conns -> Seq(FromMaster)]
                 /\ Head(toOrch[c]) \in FromMaster
<1>1. toOrch \in [Conns -> Seq(FromMaster)] /\ Auth \in FromMaster
  BY PacketTypes DEF TypeOK
<1>2. [toOrch EXCEPT ![c] = <<>>] \in [Conns -> Seq(FromMaster)]
  BY <1>1, QueueTypes
<1>3. toOrch[c] # <<>> => /\ [toOrch EXCEPT ![c] = Tail(@)] \in [Conns -> Seq(FromMaster)]
                         /\ Head(toOrch[c]) \in FromMaster
  BY <1>1, QueueTypes
<1> QED
  BY <1>2, <1>3 DEF Discard, Consume

(* A master that leaves closes its connection, one that stays changes its   *)
(* state.                                                                   *)
LEMMA ClientTypes ==
    ASSUME TypeOK, NEW m \in Masters
    PROVE  /\ Leave(m) => /\ client' \in [Masters -> {"backoff", "challenge", "verdict", "await", "idle"}]
                          /\ mcon' \in [Masters -> Conns \cup {None}]
                          /\ toMaster' \in [Conns -> Seq(ToMaster)]
           /\ \A state \in {"verdict", "await", "idle"} : Become(m, state) =>
                 /\ client' \in [Masters -> {"backoff", "challenge", "verdict", "await", "idle"}]
                 /\ mcon' \in [Masters -> Conns \cup {None}]
<1>1. "ok" \in ToMaster
  BY PacketTypes
<1>2. Leave(m) => toMaster' \in [Conns -> Seq(ToMaster)]
  <2>1. toMaster \in [Conns -> Seq(ToMaster)]
    BY DEF TypeOK
  <2>2. [toMaster EXCEPT ![mcon[m]] = <<>>] \in [Conns -> Seq(ToMaster)]
    BY <1>1, <2>1, QueueTypes
  <2> QED
    BY <2>2 DEF Leave
<1> QED
  BY <1>2 DEF TypeOK, Leave, Become

(* The state of a handler changes, or its connection is closed.             *)
LEMMA HandlerTypes ==
    ASSUME TypeOK, NEW c \in Conns, NEW state \in {"authed", "open", "leaving"},
           SetHandler(c, state) \/ Close(c)
    PROVE  /\ handler' \in [Conns -> {"closed", "challenged", "authed", "open", "leaving"}]
           /\ peer' \in [Conns -> Masters \cup {None}]
           /\ cut' \in [Conns -> BOOLEAN] /\ overlap' \in [Conns -> BOOLEAN]
<1>1. CASE SetHandler(c, state)
  <2>1. handler' = [handler EXCEPT ![c] = state] /\ UNCHANGED <<peer, cut, overlap>>
    BY <1>1 DEF SetHandler
  <2> QED
    BY <2>1 DEF TypeOK
<1>2. CASE Close(c)
  <2>1. handler' \in [Conns -> {"closed", "challenged", "authed", "open", "leaving"}]
    BY <1>2 DEF Close, TypeOK
  <2>2. peer' \in [Conns -> Masters \cup {None}]
    BY <1>2 DEF Close, TypeOK
  <2>3. cut' \in [Conns -> BOOLEAN]
    BY <1>2 DEF Close, TypeOK
  <2>4. overlap' \in [Conns -> BOOLEAN]
    BY <1>2 DEF Close, TypeOK
  <2> QED
    BY <2>1, <2>2, <2>3, <2>4
<1> QED
  BY <1>1, <1>2

(* The steps of a master keep the types.                                    *)
LEMMA MasterTypes ==
    ASSUME TypeOK, NEW m \in Masters,
           Master(m) \/ Expire(m) \/ MasterRestarts(m)
    PROVE  TypeOK'
<1>n. NodesOf(m) \in SUBSET Nodes
  BY DEF NodesOf
<1>1. CASE Dial(m)
  <2>1. PICK c \in Conns :
           /\ client' = [client EXCEPT ![m] = "challenge"]
           /\ mcon' = [mcon EXCEPT ![m] = c]
           /\ handler' = [handler EXCEPT ![c] = "challenged"]
           /\ peer' = [peer EXCEPT ![c] = m]
           /\ toMaster' = [toMaster EXCEPT ![c] = <<"challenge">>]
           /\ overlap' = [overlap EXCEPT ![c] = \E d \in Conns : peer[d] = m]
    BY <1>1 DEF Dial
  <2>2. toMaster' \in [Conns -> Seq(ToMaster)]
    BY <2>1, PacketTypes, QueueTypes DEF TypeOK
  <2>3. overlap' \in [Conns -> BOOLEAN]
    BY <2>1 DEF TypeOK
  <2> QED
    BY <1>1, <2>1, <2>2, <2>3 DEF Dial, TypeOK, pageVars
<1>2. CASE MasterReads(m)
  <2> DEFINE c == mcon[m]
  <2>1. c \in Conns /\ toMaster[c] # <<>>
    BY <1>2 DEF MasterReads, TypeOK
  <2>2. toMaster' = [toMaster EXCEPT ![c] = Tail(@)] => toMaster' \in [Conns -> Seq(ToMaster)]
    BY <2>1, PacketTypes, QueueTypes DEF TypeOK
  <2>3. /\ client' \in [Masters -> {"backoff", "challenge", "verdict", "await", "idle"}]
        /\ mcon' \in [Masters -> Conns \cup {None}]
        /\ toMaster' \in [Conns -> Seq(ToMaster)]
    BY <1>2, <2>2, ClientTypes DEF MasterReads
  <2>4. toOrch' \in [Conns -> Seq(FromMaster)]
    BY <1>2, <1>n, PacketTypes, SendTypes DEF MasterReads, TypeOK
  <2> QED
    BY <1>2, <2>3, <2>4 DEF MasterReads, TypeOK, pageVars
<1>3. CASE MasterHeartbeat(m)
  <2>1. /\ client' \in [Masters -> {"backoff", "challenge", "verdict", "await", "idle"}]
        /\ mcon' \in [Masters -> Conns \cup {None}]
        /\ toMaster' \in [Conns -> Seq(ToMaster)]
    BY <1>3, ClientTypes DEF MasterHeartbeat, TypeOK
  <2>2. toOrch' \in [Conns -> Seq(FromMaster)]
    BY <1>3, <1>n, PacketTypes, SendTypes DEF MasterHeartbeat, TypeOK
  <2> QED
    BY <1>3, <2>1, <2>2 DEF MasterHeartbeat, TypeOK, pageVars
<1>4. CASE MasterReadError(m)
  BY <1>4, ClientTypes DEF MasterReadError, TypeOK, pageVars
<1>5. CASE Expire(m)
  BY <1>5, FaultsAssumption DEF Expire, Fault, TypeOK, clientVars, pageVars
<1>6. CASE MasterRestarts(m)
  BY <1>6, ClientTypes, FaultsAssumption DEF MasterRestarts, Fault, TypeOK, pageVars
<1> QED
  BY <1>1, <1>2, <1>3, <1>4, <1>5, <1>6 DEF Master

(* The steps of a handler, and a cut, keep the types.                       *)
LEMMA ConnTypes ==
    ASSUME TypeOK, NEW c \in Conns, Handler(c) \/ Cut(c)
    PROVE  TypeOK'
<1>1. CASE ReadAuth(c)
  <2>1. /\ handler' \in [Conns -> {"closed", "challenged", "authed", "open", "leaving"}]
        /\ peer' \in [Conns -> Masters \cup {None}]
        /\ cut' \in [Conns -> BOOLEAN] /\ overlap' \in [Conns -> BOOLEAN]
    BY <1>1, HandlerTypes DEF ReadAuth
  <2>2. toMaster' \in [Conns -> Seq(ToMaster)]
    BY <1>1, PacketTypes, SendTypes DEF ReadAuth
  <2>3. toOrch' \in [Conns -> Seq(FromMaster)]
    BY <1>1, ReadTypes DEF ReadAuth, HasRead
  <2> QED
    BY <1>1, <2>1, <2>2, <2>3 DEF ReadAuth, TypeOK, clientVars, pageVars
<1>2. CASE RegisterMasterConn(c)
  <2>1. /\ handler' \in [Conns -> {"closed", "challenged", "authed", "open", "leaving"}]
        /\ peer' \in [Conns -> Masters \cup {None}]
        /\ cut' \in [Conns -> BOOLEAN] /\ overlap' \in [Conns -> BOOLEAN]
    BY <1>2, HandlerTypes DEF RegisterMasterConn
  <2> QED
    BY <1>2, <2>1 DEF RegisterMasterConn, TypeOK, clientVars, pageVars
<1>3. CASE ReadUpdate(c)
  <2>1. Head(toOrch[c]).nodes \in SUBSET Nodes /\ toOrch' \in [Conns -> Seq(FromMaster)]
    BY <1>3, PacketTypes, ReadTypes DEF ReadUpdate, HasRead
  <2>2. toMaster' \in [Conns -> Seq(ToMaster)]
    BY <1>3, PacketTypes, SendTypes DEF ReadUpdate
  <2>3. entry' \in [Masters -> {None} \cup SUBSET Nodes] /\ faults' \in 0..MaxFaults
    <3> DEFINE nodes == Head(toOrch[c]).nodes
    <3>1. entry' = [entry EXCEPT ![peer[c]] = nodes] \/ entry' = entry
      BY <1>3 DEF ReadUpdate
    <3>2. faults' = faults \/ Fault
      BY <1>3 DEF ReadUpdate
    <3>3. nodes \in {None} \cup SUBSET Nodes
      BY <2>1
    <3> HIDE DEF nodes
    <3>4. entry' \in [Masters -> {None} \cup SUBSET Nodes]
      BY <3>1, <3>3 DEF TypeOK
    <3> QED
      BY <3>2, <3>4, FaultsAssumption DEF Fault, TypeOK
  <2> QED
    BY <1>3, <2>1, <2>2, <2>3 DEF ReadUpdate, TypeOK, clientVars, pageVars
<1>4. CASE HandlerReadError(c)
  <2>1. /\ handler' \in [Conns -> {"closed", "challenged", "authed", "open", "leaving"}]
        /\ peer' \in [Conns -> Masters \cup {None}]
        /\ cut' \in [Conns -> BOOLEAN] /\ overlap' \in [Conns -> BOOLEAN]
    BY <1>4, HandlerTypes DEF HandlerReadError
  <2>2. toOrch' \in [Conns -> Seq(FromMaster)]
    BY <1>4, ReadTypes DEF HandlerReadError
  <2> QED
    BY <1>4, <2>1, <2>2 DEF HandlerReadError, TypeOK, clientVars, pageVars
<1>5. CASE UnregisterMasterConn(c)
  <2>1. /\ handler' \in [Conns -> {"closed", "challenged", "authed", "open", "leaving"}]
        /\ peer' \in [Conns -> Masters \cup {None}]
        /\ cut' \in [Conns -> BOOLEAN] /\ overlap' \in [Conns -> BOOLEAN]
    BY <1>5, HandlerTypes DEF UnregisterMasterConn
  <2> QED
    BY <1>5, <2>1 DEF UnregisterMasterConn, TypeOK, clientVars, pageVars
<1>6. CASE Cut(c)
  <2>1. toOrch' \in [Conns -> Seq(FromMaster)] /\ toMaster' \in [Conns -> Seq(ToMaster)]
    <3>1. toMaster \in [Conns -> Seq(ToMaster)] /\ "ok" \in ToMaster
      BY PacketTypes DEF TypeOK
    <3>2. [toMaster EXCEPT ![c] = <<>>] \in [Conns -> Seq(ToMaster)]
      BY <3>1, QueueTypes
    <3> QED
      BY <1>6, <3>2, ReadTypes DEF Cut, Discard
  <2>2. cut' \in [Conns -> BOOLEAN]
    BY <1>6 DEF Cut, TypeOK
  <2> QED
    BY <1>6, <2>1, <2>2, FaultsAssumption DEF Cut, Fault, TypeOK, clientVars, pageVars
<1> QED
  BY <1>1, <1>2, <1>3, <1>4, <1>5, <1>6 DEF Handler

(* The one master a page may name is a master.                              *)
LEMMA SoleOwnerType ==
    ASSUME NEW n PROVE SoleOwner(n) \in Masters \cup {None}
BY DEF SoleOwner

(* Every step keeps the types.                                              *)
LEMMA TypeInductive == TypeOK /\ [Next]_vars => TypeOK'
<1> SUFFICES ASSUME TypeOK, [Next]_vars PROVE TypeOK'
  OBVIOUS
<1>1. ASSUME NEW m \in Masters, Master(m) \/ Expire(m) \/ MasterRestarts(m) PROVE TypeOK'
  BY <1>1, MasterTypes
<1>2. ASSUME NEW c \in Conns, Handler(c) \/ Cut(c) PROVE TypeOK'
  BY <1>2, ConnTypes
<1>3. ASSUME NEW r \in Pages, Page(r) PROVE TypeOK'
  <2>1. ASSUME NEW n \in Nodes, Route(r, n) PROVE TypeOK'
    <3>1. sole' \in [Pages -> Masters \cup {None}]
      BY <2>1, SoleOwnerType DEF Route, TypeOK
    <3>2. page' \in [Pages -> {"idle", "routed", "refused"}] /\ target' \in [Pages -> Masters \cup {None}]
      BY <2>1 DEF Route, TypeOK, Listing
    <3> QED
      BY <2>1, <3>1, <3>2 DEF Route, TypeOK, clientVars
  <2>2. CASE Lookup(r)
    BY <2>2 DEF Lookup, TypeOK, clientVars
  <2> QED
    BY <1>3, <2>1, <2>2 DEF Page
<1>4. ASSUME NEW n \in Nodes, NEW m \in Masters \cup {None}, Attach(n, m) PROVE TypeOK'
  BY <1>4, FaultsAssumption DEF Attach, Fault, TypeOK, clientVars, pageVars
<1>5. CASE OrchRestarts
  <2>1. toOrch' \in [Conns -> Seq(FromMaster)]
    <3>1. <<>> \in Seq(FromMaster)
      OBVIOUS
    <3> QED
      BY <1>5, <3>1 DEF OrchRestarts
  <2>2. cut' \in [Conns -> BOOLEAN] /\ overlap' \in [Conns -> BOOLEAN]
    BY <1>5 DEF OrchRestarts
  <2> QED
    BY <1>5, <2>1, <2>2, FaultsAssumption DEF OrchRestarts, Fault, TypeOK, clientVars
<1>6. CASE UNCHANGED vars
  BY <1>6 DEF vars, TypeOK
<1> QED
  BY <1>1, <1>2, <1>3, <1>4, <1>5, <1>6 DEF Next

(* The sessions start with values of the right types.                       *)
LEMMA InitType == Init => TypeOK
<1> SUFFICES ASSUME Init PROVE TypeOK
  OBVIOUS
<1>1. toOrch \in [Conns -> Seq(FromMaster)] /\ toMaster \in [Conns -> Seq(ToMaster)]
  <2>1. <<>> \in Seq(FromMaster) /\ <<>> \in Seq(ToMaster)
    OBVIOUS
  <2> QED
    BY <2>1 DEF Init
<1>2. cut \in [Conns -> BOOLEAN] /\ overlap \in [Conns -> BOOLEAN]
  BY DEF Init
<1> QED
  BY <1>1, <1>2, FaultsAssumption DEF Init, TypeOK

-----------------------------------------------------------------------------
(* The table *)

(* A step of a master that does not dial keeps its state and connection, or *)
(* lets it go.                                                              *)
LEMMA ClientFacts ==
    ASSUME MasterInv, NEW m \in Masters,
           \/ MasterReads(m) \/ MasterHeartbeat(m) \/ MasterReadError(m) \/ MasterRestarts(m)
    PROVE  /\ \A x \in Masters : mcon'[x] = mcon[x] \/ mcon'[x] = None
           /\ ClientInv'
           /\ UNCHANGED <<handler, peer, conns, allowed, overlap, page, target, sole>>
<1>1. Leave(m) \/ \E state \in {"verdict", "await", "idle"} : Become(m, state)
  BY DEF MasterReads, MasterHeartbeat, MasterReadError, MasterRestarts
<1>2. UNCHANGED <<handler, peer, conns, allowed, overlap, page, target, sole>>
  BY DEF MasterReads, MasterHeartbeat, MasterReadError, MasterRestarts, pageVars
<1>3. CASE Leave(m)
  BY <1>2, <1>3 DEF Leave, MasterInv, TypeOK, ClientInv
<1>4. ASSUME NEW state \in {"verdict", "await", "idle"}, Become(m, state)
      PROVE  /\ \A x \in Masters : mcon'[x] = mcon[x] \/ mcon'[x] = None
             /\ ClientInv'
  BY <1>4 DEF Become, MasterInv, TypeOK, ClientInv
<1> QED
  BY <1>1, <1>2, <1>3, <1>4

(* What ends on the master's side leaves the table as it is.                *)
LEMMA ClientKeeps ==
    ASSUME MasterInv, NEW m \in Masters,
           \/ MasterReads(m) \/ MasterHeartbeat(m) \/ MasterReadError(m) \/ MasterRestarts(m)
    PROVE  HandlersInv' /\ ClientInv' /\ TableInv' /\ LoneInv' /\ PageInv'
<1>1. /\ \A x \in Masters : mcon'[x] = mcon[x] \/ mcon'[x] = None
      /\ ClientInv'
      /\ UNCHANGED <<handler, peer, conns, allowed, overlap, page, target, sole>>
  BY ClientFacts
<1>2. HandlersInv' /\ TableInv' /\ PageInv'
  BY <1>1 DEF MasterInv, HandlersInv, TableInv, PageInv
<1>3. \A c \in Conns : Lone(c)' => Lone(c)
  BY <1>1, NoneAssumption DEF MasterInv, HandlersInv, Lone
<1>4. LoneInv'
  BY <1>1, <1>3 DEF MasterInv, LoneInv
<1> QED
  BY <1>1, <1>2, <1>4

(* A dial adds the first handler of a session to a connection nobody holds; *)
(* when no other handler of the master runs, it is the only one.            *)
LEMMA DialKeeps ==
    ASSUME MasterInv, NEW m \in Masters, Dial(m)
    PROVE  HandlersInv' /\ ClientInv' /\ TableInv' /\ LoneInv' /\ PageInv'
<1>1. PICK c \in Conns :
         /\ Free(c) /\ client[m] = "backoff"
         /\ client' = [client EXCEPT ![m] = "challenge"]
         /\ mcon' = [mcon EXCEPT ![m] = c]
         /\ handler' = [handler EXCEPT ![c] = "challenged"]
         /\ peer' = [peer EXCEPT ![c] = m]
         /\ overlap' = [overlap EXCEPT ![c] = \E d \in Conns : peer[d] = m]
  BY DEF Dial
<1>2. UNCHANGED <<conns, allowed, page, target, sole>>
  BY DEF Dial, pageVars
<1>3. /\ handler'[c] = "challenged" /\ peer'[c] = m /\ mcon'[m] = c
      /\ overlap'[c] <=> \E d \in Conns : peer[d] = m
      /\ \A d \in Conns \ {c} : handler'[d] = handler[d] /\ peer'[d] = peer[d] /\ (overlap'[d] <=> overlap[d])
      /\ \A x \in Masters \ {m} : mcon'[x] = mcon[x] /\ client'[x] = client[x]
      /\ client'[m] = "challenge"
  BY <1>1 DEF MasterInv, TypeOK
<1>4. handler[c] = "closed" /\ mcon[m] = None
  BY <1>1 DEF Free, MasterInv, ClientInv
<1>5. HandlersInv' /\ ClientInv' /\ PageInv'
  BY <1>2, <1>3, NoneAssumption DEF MasterInv, HandlersInv, ClientInv, PageInv
<1>6. TableInv'
  <2>1. ASSUME NEW x \in Masters, conns[x] # None PROVE conns[x] \in Conns \ {c}
    <3>1. conns[x] \in Conns
      BY <2>1 DEF MasterInv, TypeOK
    <3>2. handler[conns[x]] \in {"open", "leaving"}
      BY <2>1 DEF MasterInv, TableInv
    <3> QED
      BY <1>4, <3>1, <3>2
  <2> QED
    BY <1>2, <1>3, <2>1 DEF MasterInv, TableInv
<1>7. ASSUME NEW d \in Conns, Lone(d)'
      PROVE  /\ \A e \in Conns \ {d} : peer'[e] # peer'[d]
             /\ handler'[d] = "open" => conns'[peer'[d]] = d
  <2>1. CASE d = c
    <3>1. ~overlap'[c]
      BY <1>7, <2>1 DEF Lone
    <3>2. \A e \in Conns : peer[e] # m
      BY <1>3, <3>1
    <3> QED
      BY <1>3, <2>1, <3>2
  <2>2. CASE d # c
    <3>1. peer[d] \in Masters
      BY <1>3, <1>7, <2>2 DEF Lone, MasterInv, HandlersInv
    <3>2. peer[d] # m
      BY <1>3, <1>7, <2>2 DEF Lone
    <3>3. Lone(d)
      BY <1>3, <1>7, <2>2, <3>1, <3>2 DEF Lone
    <3> QED
      BY <1>2, <1>3, <2>2, <3>2, <3>3 DEF MasterInv, LoneInv
  <2> QED
    BY <2>1, <2>2
<1> QED
  BY <1>5, <1>6, <1>7 DEF LoneInv

(* What a step of a handler may change: its own state and peer, never the   *)
(* masters' ends or the pages.                                              *)
LEMMA HandlerFacts ==
    ASSUME MasterInv, NEW c \in Conns, Handler(c) \/ Cut(c)
    PROVE  /\ UNCHANGED <<client, mcon, allowed, page, target, sole>>
           /\ \A d \in Conns \ {c} :
                 handler'[d] = handler[d] /\ peer'[d] = peer[d] /\ (overlap'[d] <=> overlap[d])
           /\ \/ handler'[c] = "closed" /\ peer'[c] = None
              \/ peer'[c] = peer[c] /\ (overlap'[c] <=> overlap[c])
<1>1. CASE ReadAuth(c)
  BY <1>1 DEF ReadAuth, SetHandler, Close, clientVars, pageVars, MasterInv, TypeOK
<1>2. CASE RegisterMasterConn(c)
  BY <1>2 DEF RegisterMasterConn, SetHandler, clientVars, pageVars, MasterInv, TypeOK
<1>3. CASE ReadUpdate(c)
  BY <1>3 DEF ReadUpdate, clientVars, pageVars
<1>4. CASE HandlerReadError(c)
  BY <1>4 DEF HandlerReadError, SetHandler, Close, clientVars, pageVars, MasterInv, TypeOK
<1>5. CASE UnregisterMasterConn(c)
  BY <1>5 DEF UnregisterMasterConn, Close, clientVars, pageVars, MasterInv, TypeOK
<1>6. CASE Cut(c)
  BY <1>6 DEF Cut, clientVars, pageVars
<1> QED
  BY <1>1, <1>2, <1>3, <1>4, <1>5, <1>6 DEF Handler

(* What each step of a handler does to its state and to the table.          *)
LEMMA HandlerSteps ==
    ASSUME MasterInv, NEW c \in Conns, Handler(c) \/ Cut(c)
    PROVE  \/ handler'[c] = handler[c] /\ conns' = conns /\ peer'[c] = peer[c]
           \/ /\ handler[c] = "challenged" /\ handler'[c] = "authed" /\ peer[c] \in allowed
              /\ conns' = conns /\ peer'[c] = peer[c]
           \/ handler[c] = "challenged" /\ handler'[c] = "closed" /\ peer'[c] = None /\ conns' = conns
           \/ handler[c] = "open" /\ handler'[c] = "leaving" /\ peer'[c] = peer[c] /\ conns' = conns
           \/ /\ handler[c] = "authed" /\ handler'[c] = "open" /\ peer'[c] = peer[c]
              /\ conns' = [conns EXCEPT ![peer[c]] = c]
           \/ /\ handler[c] = "leaving" /\ handler'[c] = "closed" /\ peer'[c] = None
              /\ conns' = [conns EXCEPT ![peer[c]] = None]
<1>1. CASE ReadAuth(c)
  BY <1>1 DEF ReadAuth, HasRead, SetHandler, Close, MasterInv, TypeOK
<1>2. CASE RegisterMasterConn(c)
  BY <1>2 DEF RegisterMasterConn, SetHandler, MasterInv, TypeOK
<1>3. CASE ReadUpdate(c)
  BY <1>3 DEF ReadUpdate
<1>4. CASE HandlerReadError(c)
  BY <1>4 DEF HandlerReadError, SetHandler, Close, MasterInv, TypeOK
<1>5. CASE UnregisterMasterConn(c)
  BY <1>5 DEF UnregisterMasterConn, Close, MasterInv, TypeOK
<1>6. CASE Cut(c)
  BY <1>6 DEF Cut
<1> QED
  BY <1>1, <1>2, <1>3, <1>4, <1>5, <1>6 DEF Handler

(* A handler enters and leaves the table with its own session only.         *)
LEMMA HandlerKeeps ==
    ASSUME MasterInv, NEW c \in Conns, Handler(c) \/ Cut(c)
    PROVE  HandlersInv' /\ ClientInv' /\ TableInv' /\ LoneInv' /\ PageInv'
<1>1. /\ UNCHANGED <<client, mcon, allowed, page, target, sole>>
      /\ \A d \in Conns \ {c} :
            handler'[d] = handler[d] /\ peer'[d] = peer[d] /\ (overlap'[d] <=> overlap[d])
      /\ \/ handler'[c] = "closed" /\ peer'[c] = None
         \/ peer'[c] = peer[c] /\ (overlap'[c] <=> overlap[c])
  BY HandlerFacts
<1>2. ClientInv' /\ PageInv'
  BY <1>1 DEF MasterInv, ClientInv, PageInv
<1>3. /\ handler[c] = "closed" => peer[c] = None
      /\ handler[c] # "closed" => peer[c] \in Masters
      /\ handler[c] \in {"authed", "open", "leaving"} => peer[c] \in allowed
  BY DEF MasterInv, HandlersInv
<1>4. HandlersInv'
  <2>1. /\ handler'[c] = "closed" => peer'[c] = None
        /\ handler'[c] # "closed" => peer'[c] \in Masters
        /\ handler'[c] \in {"authed", "open", "leaving"} => peer'[c] \in allowed
    BY <1>3, HandlerSteps
  <2> QED
    BY <1>1, <2>1 DEF MasterInv, HandlersInv
<1>5. ASSUME NEW m \in Masters, conns'[m] # None
      PROVE  handler'[conns'[m]] \in {"open", "leaving"} /\ peer'[conns'[m]] = m
  <2>1. conns[m] # None => /\ conns[m] \in Conns /\ peer[conns[m]] = m
                          /\ handler[conns[m]] \in {"open", "leaving"}
    BY DEF MasterInv, TypeOK, TableInv
  <2>2. CASE conns'[m] = conns[m] /\ conns[m] # c
    BY <1>1, <1>5, <2>1, <2>2
  <2>3. CASE conns'[m] = conns[m] /\ conns[m] = c
    <3>1. handler[c] \in {"open", "leaving"} /\ peer[c] = m
      BY <1>5, <2>1, <2>3
    <3>2. handler[c] = "leaving" => handler'[c] # "closed"
      BY <1>5, <2>3, <3>1, HandlerSteps DEF MasterInv, TypeOK
    <3>3. handler'[c] \in {"open", "leaving"} /\ peer'[c] = peer[c]
      BY <3>1, <3>2, HandlerSteps
    <3> QED
      BY <2>3, <3>1, <3>3
  <2>4. CASE conns'[m] # conns[m]
    <3>1. m = peer[c] /\ handler'[c] = "open" /\ peer'[c] = peer[c] /\ conns'[m] = c
      BY <1>5, <2>4, HandlerSteps DEF MasterInv, TypeOK
    <3> QED
      BY <3>1
  <2> QED
    BY <2>2, <2>3, <2>4
<1>6. ASSUME NEW d \in Conns, Lone(d)'
      PROVE  /\ \A e \in Conns \ {d} : peer'[e] # peer'[d]
             /\ handler'[d] = "open" => conns'[peer'[d]] = d
  <2>1. handler'[d] # "closed" /\ peer'[d] = peer[d] /\ peer[d] \in Masters
    BY <1>1, <1>4, <1>6 DEF Lone, MasterInv, HandlersInv
  <2>2. handler[d] # "closed"
    BY <2>1, NoneAssumption DEF MasterInv, HandlersInv
  <2>3. Lone(d)
    BY <1>1, <1>6, <2>1, <2>2 DEF Lone
  <2>4. /\ \A e \in Conns \ {d} : peer[e] # peer[d]
        /\ handler[d] = "open" => conns[peer[d]] = d
    BY <2>3 DEF MasterInv, LoneInv
  <2>5. \A e \in Conns \ {d} : peer'[e] # peer'[d]
    BY <1>1, <2>1, <2>4, NoneAssumption
  <2>6. ASSUME handler'[d] = "open" PROVE conns'[peer'[d]] = d
    <3>1. CASE d = c
      <4>1. DOMAIN conns = Masters
        BY DEF MasterInv, TypeOK
      <4>2. \/ handler[c] = "open" /\ conns' = conns
            \/ conns' = [conns EXCEPT ![peer[c]] = c]
        BY <2>6, <3>1, HandlerSteps
      <4> QED
        BY <2>1, <2>4, <3>1, <4>1, <4>2
    <3>2. CASE d # c
      <4>1. handler[d] = "open" /\ peer[c] # peer[d]
        BY <1>1, <2>4, <2>6, <3>2
      <4>2. conns'[peer[d]] = conns[peer[d]]
        BY <2>1, <4>1, HandlerSteps DEF MasterInv, TypeOK
      <4> QED
        BY <2>1, <2>4, <4>1, <4>2
    <3> QED
      BY <3>1, <3>2
  <2> QED
    BY <2>5, <2>6
<1> QED
  BY <1>2, <1>4, <1>5, <1>6 DEF TableInv, LoneInv

(* The only master that lists a node is the one its page goes to.           *)
LEMMA RouteToSole ==
    ASSUME NEW n, NEW m \in Listing(n), SoleOwner(n) # None
    PROVE  SoleOwner(n) = m
<1>1. SoleOwner(n) = IF \E x \in Masters : Listing(n) = {x}
                     THEN CHOOSE x \in Masters : Listing(n) = {x} ELSE None
  BY DEF SoleOwner, Listing
<1>2. PICK x \in Masters : Listing(n) = {x}
  BY <1>1
<1>3. Listing(n) = {SoleOwner(n)}
  BY <1>1, <1>2
<1> QED
  BY <1>3

(* Pages look at the table and the store, and change neither.               *)
LEMMA PageKeeps ==
    ASSUME MasterInv, NEW r \in Pages, Page(r)
    PROVE  HandlersInv' /\ ClientInv' /\ TableInv' /\ LoneInv' /\ PageInv'
<1>1. UNCHANGED <<client, mcon, handler, peer, conns, allowed, overlap>>
  BY DEF Page, Route, Lookup, clientVars
<1>2. HandlersInv' /\ ClientInv' /\ TableInv' /\ LoneInv'
  BY <1>1 DEF MasterInv, HandlersInv, ClientInv, TableInv, LoneInv, Lone
<1>3. ASSUME NEW n \in Nodes, Route(r, n) PROVE PageInv'
  <2>1. /\ \A q \in Pages \ {r} : page'[q] = page[q] /\ target'[q] = target[q] /\ sole'[q] = sole[q]
        /\ sole'[r] = SoleOwner(n)
        /\ page'[r] = "routed" => target'[r] \in Listing(n)
    <3>1. page \in [Pages -> {"idle", "routed", "refused"}] /\ DOMAIN target = Pages /\ DOMAIN sole = Pages
      BY DEF MasterInv, TypeOK
    <3> QED
      BY <1>3, <3>1 DEF Route
  <2>2. Listing(n) \subseteq Masters
    BY DEF Listing
  <2> QED
    BY <2>1, <2>2, RouteToSole DEF MasterInv, PageInv
<1>4. CASE Lookup(r)
  <2>1. DOMAIN page = Pages /\ DOMAIN target = Pages /\ DOMAIN sole = Pages
    BY DEF MasterInv, TypeOK
  <2>2. /\ \A q \in Pages \ {r} : page'[q] = page[q] /\ target'[q] = target[q] /\ sole'[q] = sole[q]
        /\ page'[r] # "routed"
    BY <1>4, <2>1 DEF Lookup
  <2> QED
    BY <1>2, <2>2 DEF MasterInv, PageInv
<1> QED
  BY <1>2, <1>3, <1>4 DEF Page

(* The invariant holds in every state.                                      *)
THEOREM MasterInvariance == Spec => []MasterInv
<1>1. Init => MasterInv
  <2> SUFFICES ASSUME Init PROVE MasterInv
    OBVIOUS
  <2>1. HandlersInv /\ ClientInv /\ TableInv /\ LoneInv /\ PageInv
    BY DEF Init, HandlersInv, ClientInv, TableInv, LoneInv, Lone, PageInv
  <2> QED
    BY <2>1, InitType DEF MasterInv
<1>2. MasterInv /\ [Next]_vars => MasterInv'
  <2> SUFFICES ASSUME MasterInv, [Next]_vars PROVE MasterInv'
    OBVIOUS
  <2>t. TypeOK'
    BY TypeInductive DEF MasterInv
  <2> SUFFICES HandlersInv' /\ ClientInv' /\ TableInv' /\ LoneInv' /\ PageInv'
    BY <2>t DEF MasterInv
  <2>1. ASSUME NEW m \in Masters, Master(m) \/ MasterRestarts(m)
        PROVE  HandlersInv' /\ ClientInv' /\ TableInv' /\ LoneInv' /\ PageInv'
    BY <2>1, DialKeeps, ClientKeeps DEF Master
  <2>2. ASSUME NEW c \in Conns, Handler(c) \/ Cut(c)
        PROVE  HandlersInv' /\ ClientInv' /\ TableInv' /\ LoneInv' /\ PageInv'
    BY <2>2, HandlerKeeps
  <2>3. ASSUME NEW r \in Pages, Page(r)
        PROVE  HandlersInv' /\ ClientInv' /\ TableInv' /\ LoneInv' /\ PageInv'
    BY <2>3, PageKeeps
  <2>4. ASSUME \/ UNCHANGED vars \/ \E m \in Masters : Expire(m)
               \/ \E n \in Nodes, m \in Masters \cup {None} : Attach(n, m)
        PROVE  HandlersInv' /\ ClientInv' /\ TableInv' /\ LoneInv' /\ PageInv'
    <3>1. UNCHANGED <<client, mcon, handler, peer, conns, allowed, overlap, page, target, sole>>
      BY <2>4 DEF vars, Expire, Attach, clientVars, pageVars
    <3> QED
      BY <3>1 DEF MasterInv, HandlersInv, ClientInv, TableInv, LoneInv, Lone, PageInv
  <2>5. ASSUME OrchRestarts
        PROVE  HandlersInv' /\ ClientInv' /\ TableInv' /\ LoneInv' /\ PageInv'
    BY <2>5 DEF OrchRestarts, clientVars, MasterInv, HandlersInv, ClientInv, TableInv,
       LoneInv, Lone, PageInv
  <2> QED
    BY <2>1, <2>2, <2>3, <2>4, <2>5 DEF Next
<1> QED
  BY <1>1, <1>2, PTL DEF Spec

(* The reconnect loops, handlers, table, store and pages keep their types,  *)
(* whatever number of them runs and however many faults there are.          *)
THEOREM MasterTypeCorrect == Spec => []TypeOK
<1>1. MasterInv => TypeOK
  BY DEF MasterInv
<1> QED
  BY <1>1, MasterInvariance, PTL

(* masterConns only ever leads to a handler that still runs, of the master  *)
(* it is asked for, and of one the whitelist has.                           *)
THEOREM TableThm == Spec => []TableHoldsOpenSessions
<1>1. MasterInv => TableHoldsOpenSessions
  <2> SUFFICES ASSUME MasterInv, NEW m \in Masters, conns[m] # None
               PROVE  /\ handler[conns[m]] \in {"open", "leaving"}
                      /\ peer[conns[m]] = m /\ m \in allowed
    BY DEF TableHoldsOpenSessions
  <2>1. conns[m] \in Conns /\ handler[conns[m]] \in {"open", "leaving"} /\ peer[conns[m]] = m
    BY DEF MasterInv, TypeOK, TableInv
  <2> QED
    BY <2>1 DEF MasterInv, HandlersInv
<1> QED
  BY <1>1, MasterInvariance, PTL

(* A master in a session that overlapped no earlier one of its own is in    *)
(* masterConns under that session.                                          *)
THEOREM ReachableThm == Spec => []ConnectedMasterIsReachable
<1>1. MasterInv => ConnectedMasterIsReachable
  BY DEF MasterInv, LoneInv, Lone, Serving, ConnectedMasterIsReachable
<1> QED
  BY <1>1, MasterInvariance, PTL

(* A page is not refused while the only master of its node is in a session  *)
(* that overlapped no earlier one.                                          *)
THEOREM SoleOwnerThm == Spec => SoleOwnerIsReached
<1> DEFINE Reached(r) ==
      /\ page[r] = "routed" /\ sole[r] # None
      /\ \E c \in Conns : Serving(c) /\ ~overlap[c] /\ peer[c] = sole[r]
      => page'[r] # "refused"
<1>1. MasterInv /\ [Next]_vars => [\A r \in Pages : Reached(r)]_vars
  <2> SUFFICES ASSUME MasterInv, Next, NEW r \in Pages, page[r] = "routed", sole[r] # None,
                      NEW c \in Conns, Serving(c), ~overlap[c], peer[c] = sole[r]
               PROVE  page'[r] # "refused"
    OBVIOUS
  <2>1. target[r] = peer[c] /\ conns[peer[c]] = c /\ c # None
    BY NoneAssumption DEF MasterInv, PageInv, LoneInv, Lone, Serving
  <2>2. ASSUME NEW q \in Pages, Page(q) PROVE page'[r] # "refused"
    <3>1. CASE q = r
      BY <2>1, <2>2, <3>1 DEF Page, Route, Lookup, MasterInv, TypeOK
    <3>2. CASE q # r
      BY <2>2, <3>2 DEF Page, Route, Lookup, MasterInv, TypeOK
    <3> QED
      BY <3>1, <3>2
  <2>3. ASSUME NEW m \in Masters, Master(m) \/ Expire(m) \/ MasterRestarts(m)
        PROVE  page' = page
    BY <2>3 DEF Master, Dial, MasterReads, MasterHeartbeat, MasterReadError, Expire,
       MasterRestarts, pageVars
  <2>4. ASSUME NEW d \in Conns, Handler(d) \/ Cut(d) PROVE page' = page
    BY <2>4, HandlerFacts
  <2>5. ASSUME NEW n \in Nodes, NEW m \in Masters \cup {None}, Attach(n, m) PROVE page' = page
    BY <2>5 DEF Attach, pageVars
  <2>6. ASSUME OrchRestarts PROVE page'[r] = "idle"
    BY <2>6 DEF OrchRestarts
  <2> QED
    BY <2>2, <2>3, <2>4, <2>5, <2>6 DEF Next
<1>2. SoleOwnerIsReached <=> [][\A r \in Pages : Reached(r)]_vars
  BY DEF SoleOwnerIsReached
<1> QED
  BY <1>1, <1>2, MasterInvariance, PTL DEF Spec

=============================================================================
