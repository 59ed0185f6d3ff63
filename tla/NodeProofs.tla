----------------------------- MODULE NodeProofs -----------------------------
(***************************************************************************)
(* What NodeSession promises of the registry, the handshake and the        *)
(* heartbeats, for any slaves, connections, whitelist and keys.            *)
(*                                                                         *)
(* The inductive invariant says how far apart the two ends of a connection *)
(* can be: what waits in each direction, given the state of its reader     *)
(* (SlaveQueue, MasterQueue), and which states the two ends can be in at   *)
(* once (InStep); and that a session that did not overlap an earlier one   *)
(* of its slave is the only one that can touch the slave's entry (Alone).  *)
(***************************************************************************)
EXTENDS NodeSession, Integers, TLAPS

States == {"closed", "hello", "challenged", "authed", "due", "waiting", "sleeping",
           "leaving", "closing"}
FromSlave == Slaves \cup {"proof", "reply"}
FromMaster == {"challenge", "ok", "error", "heartbeat"}

Live == {"authed", "due", "waiting", "sleeping", "leaving"}
Registered == {"due", "waiting", "sleeping", "leaving"}

\* What a slave in state p has yet to read.
SlaveQueue(p, q) ==
    /\ p = "hello" => Len(q) = 0 \/ (Len(q) = 1 /\ q[1] \in {"challenge", "error"})
    /\ p = "proof" => \/ Len(q) = 0
                      \/ Len(q) = 1 /\ q[1] = "error"
                      \/ Len(q) >= 1 /\ q[1] = "ok" /\ \A i \in 2..Len(q) : q[i] = "heartbeat"
    /\ p = "running" => \A i \in 1..Len(q) : q[i] = "heartbeat"

\* What a handler in state h has yet to read.
MasterQueue(h, q) ==
    /\ h = "hello" => Len(q) = 0 \/ (Len(q) = 1 /\ q[1] \in Slaves)
    /\ h = "challenged" => Len(q) = 0 \/ (Len(q) = 1 /\ q[1] = "proof")
    /\ h \in Live => \A i \in 1..Len(q) : q[i] = "reply"

\* The states of a slave and its handler while the connection holds.
InStep(p, h, toS, toM) ==
    /\ h = "hello" => p = "hello" /\ Len(toS) = 0
    /\ h = "challenged" => \/ p = "hello" /\ Len(toM) = 0
                           \/ p = "proof" /\ Len(toS) = 0
    /\ h \in Live => \/ p = "proof" /\ Len(toS) > 0 /\ toS[1] = "ok"
                     \/ p = "running"

\* Who a handler believes its peer to be.
Known(h, w) ==
    /\ h \in {"challenged"} \cup Live => w \in Slaves /\ IsAllowed(w)
    /\ h \in Live => w \in GoodKeys

EndsInv ==
    /\ \A s \in Slaves : scon[s] = None <=> proc[s] \in {"down", "zombie"}
    /\ \A s, x \in Slaves : scon[s] # None /\ scon[s] = scon[x] => s = x

PeerOK(c) ==
    \A s \in Slaves : scon[s] = c =>
        /\ SlaveQueue(proc[s], toSlave[c])
        /\ cut[c] \/ InStep(proc[s], handler[c], toSlave[c], toMaster[c])

ConnOK(c) ==
    /\ MasterQueue(handler[c], toMaster[c]) /\ Known(handler[c], who[c])
    /\ cut[c] => Len(toMaster[c]) = 0 /\ Len(toSlave[c]) = 0

ConnInv == \A c \in Conns : PeerOK(c) /\ ConnOK(c)

RegInv == \A s \in Slaves : nodes[s] # None => handler[nodes[s]] \in Registered /\ who[nodes[s]] = s

\* No other handler has to do with the slave of a session that did not overlap.
Alone ==
    \A s \in Slaves : scon[s] # None /\ ~overlap[scon[s]] =>
        \A d \in Conns \ {scon[s]} : ~HandlerOf(d, s)

Entered ==
    \A c \in Conns : handler[c] \in Registered \ {"leaving"} /\ scon[who[c]] = c /\ ~overlap[c]
        => nodes[who[c]] = c

NodeInv == TypeOK /\ EndsInv /\ ConnInv /\ RegInv /\ Alone /\ Entered

-----------------------------------------------------------------------------
(* Queues *)

\* A packet at the end of a queue.
LEMMA AppendFacts ==
    ASSUME NEW S, NEW q \in Seq(S), NEW e \in S
    PROVE  /\ Append(q, e) \in Seq(S) /\ Len(Append(q, e)) = Len(q) + 1
           /\ Append(q, e)[Len(q) + 1] = e
           /\ \A i \in 1..Len(q) : Append(q, e)[i] = q[i]
OBVIOUS

\* The first packet of a queue and what is behind it.
LEMMA TailFacts ==
    ASSUME NEW S, NEW q \in Seq(S), q # <<>>
    PROVE  /\ Len(q) \in Nat /\ Len(q) >= 1 /\ Head(q) = q[1] /\ q[1] \in S
           /\ Tail(q) \in Seq(S) /\ Len(Tail(q)) = Len(q) - 1
           /\ \A i \in 1..(Len(q) - 1) : Tail(q)[i] = q[i + 1]
OBVIOUS

\* A queue is empty or not.
LEMMA EmptyFacts ==
    ASSUME NEW S
    PROVE  /\ <<>> \in Seq(S) /\ Len(<<>>) = 0
           /\ \A q \in Seq(S) : Len(q) \in Nat /\ (Len(q) = 0 <=> q = <<>>)
OBVIOUS

\* What the slave finds, and what it leaves.
LEMMA SlaveTakes ==
    ASSUME NEW q \in Seq(FromMaster), q # <<>>, NEW p, SlaveQueue(p, q)
    PROVE  /\ p = "hello" => /\ q[1] \in {"challenge", "error"} /\ Len(Tail(q)) = 0
                             /\ SlaveQueue("proof", Tail(q))
           /\ p = "proof" => /\ q[1] \in {"ok", "error"}
                             /\ q[1] = "ok" => SlaveQueue("running", Tail(q))
           /\ p = "running" => q[1] = "heartbeat" /\ SlaveQueue("running", Tail(q))
<1> DEFINE t == Tail(q)
<1>1. /\ Len(q) \in Nat /\ Len(q) >= 1 /\ t \in Seq(FromMaster) /\ Len(t) = Len(q) - 1
      /\ \A i \in 1..(Len(q) - 1) : t[i] = q[i + 1]
  BY TailFacts
<1> HIDE DEF t
<1>2. CASE p = "hello"
  BY <1>1, <1>2 DEF SlaveQueue, t
<1>3. CASE p = "proof"
  <2>1. q[1] \in {"ok", "error"}
    BY <1>1, <1>3 DEF SlaveQueue
  <2>2. ASSUME q[1] = "ok", NEW i \in 1..Len(t) PROVE t[i] = "heartbeat"
    BY <1>1, <1>3, <2>2 DEF SlaveQueue
  <2> QED
    BY <1>3, <2>1, <2>2 DEF SlaveQueue, t
<1>4. CASE p = "running"
  <2>1. q[1] = "heartbeat"
    BY <1>1, <1>4 DEF SlaveQueue
  <2>2. ASSUME NEW i \in 1..Len(t) PROVE t[i] = "heartbeat"
    BY <1>1, <1>4 DEF SlaveQueue
  <2> QED
    BY <1>4, <2>1, <2>2 DEF SlaveQueue, t
<1> QED
  BY <1>2, <1>3, <1>4

\* What the handler finds, and what it leaves.
LEMMA MasterTakes ==
    ASSUME NEW q \in Seq(FromSlave), q # <<>>, NEW h, MasterQueue(h, q)
    PROVE  /\ h = "hello" => q[1] \in Slaves /\ Len(Tail(q)) = 0
           /\ h = "challenged" => q[1] = "proof" /\ Len(Tail(q)) = 0
           /\ h \in Live => /\ q[1] = "reply"
                            /\ \A i \in 1..Len(Tail(q)) : Tail(q)[i] = "reply"
<1> DEFINE t == Tail(q)
<1>1. /\ Len(q) \in Nat /\ Len(q) >= 1 /\ t \in Seq(FromSlave) /\ Len(t) = Len(q) - 1
      /\ \A i \in 1..(Len(q) - 1) : t[i] = q[i + 1]
  BY TailFacts
<1> HIDE DEF t
<1>2. /\ h = "hello" => q[1] \in Slaves /\ Len(t) = 0
      /\ h = "challenged" => q[1] = "proof" /\ Len(t) = 0
  BY <1>1 DEF MasterQueue
<1>3. ASSUME h \in Live PROVE q[1] = "reply" /\ \A i \in 1..Len(t) : t[i] = "reply"
  BY <1>1, <1>3 DEF MasterQueue
<1> QED
  BY <1>2, <1>3 DEF t

-----------------------------------------------------------------------------
(* A step on one connection *)

\* The other connections are left alone.
Elsewhere(c) ==
    \A d \in Conns \ {c} : /\ handler'[d] = handler[d] /\ who'[d] = who[d]
                           /\ toMaster'[d] = toMaster[d] /\ toSlave'[d] = toSlave[d]

\* The ends of one connection move on, and stay in step with one another.
LEMMA ConnStep ==
    ASSUME NodeInv, TypeOK', NEW c \in Conns, Elsewhere(c), UNCHANGED <<scon, cut, overlap>>,
           \A s \in Slaves : /\ scon[s] # c => proc'[s] = proc[s]
                             /\ proc'[s] \in {"down", "zombie"} <=> proc[s] \in {"down", "zombie"},
           PeerOK(c)', ConnOK(c)',
           \A s \in Slaves : HandlerOf(c, s)' => HandlerOf(c, s)
    PROVE  EndsInv' /\ ConnInv' /\ Alone'
<1> USE DEF NodeInv
<1>1. EndsInv'
  BY DEF EndsInv
<1>2. ASSUME NEW d \in Conns \ {c} PROVE PeerOK(d)'
  <2> SUFFICES ASSUME NEW s \in Slaves, scon[s] = d
               PROVE  /\ SlaveQueue(proc[s], toSlave[d])
                      /\ cut[d] \/ InStep(proc[s], handler[d], toSlave[d], toMaster[d])
    BY DEF PeerOK, Elsewhere, SlaveQueue, InStep
  <2> QED
    BY DEF ConnInv, PeerOK
<1>3. ASSUME NEW d \in Conns \ {c} PROVE ConnOK(d)'
  BY <1>3 DEF ConnInv, ConnOK, Elsewhere, MasterQueue, Known, IsAllowed
<1>4. ConnInv'
  BY <1>2, <1>3 DEF ConnInv
<1>5. ASSUME NEW d \in Conns, NEW s \in Slaves, HandlerOf(d, s)' PROVE HandlerOf(d, s)
  <2>1. CASE d = c
    BY <1>5, <2>1
  <2>2. CASE d # c
    BY <1>5, <2>2 DEF HandlerOf, Elsewhere
  <2> QED
    BY <2>1, <2>2
<1>6. Alone'
  BY <1>5 DEF Alone
<1> QED
  BY <1>1, <1>4, <1>6

\* The handler moves on, the slave does not.
LEMMA HandlerStep ==
    ASSUME NodeInv, TypeOK', NEW c \in Conns, Elsewhere(c), UNCHANGED <<proc, scon, cut, overlap>>,
           PeerOK(c)', ConnOK(c)',
           \A s \in Slaves : HandlerOf(c, s)' => HandlerOf(c, s)
    PROVE  EndsInv' /\ ConnInv' /\ Alone'
BY ConnStep

\* A handler that neither registers nor unregisters leaves the registry true.
LEMMA EntriesStep ==
    ASSUME NodeInv, NEW c \in Conns, Elsewhere(c), UNCHANGED <<scon, overlap, nodes>>,
           handler[c] \in Registered => handler'[c] \in Registered /\ who'[c] = who[c],
           handler'[c] \in Registered \ {"leaving"} =>
               handler[c] \in Registered \ {"leaving"} /\ who'[c] = who[c]
    PROVE  RegInv' /\ Entered'
<1> USE DEF NodeInv
<1>1. ASSUME NEW s \in Slaves, nodes[s] # None
      PROVE  handler'[nodes[s]] \in Registered /\ who'[nodes[s]] = s
  <2>1. nodes[s] \in Conns /\ handler[nodes[s]] \in Registered /\ who[nodes[s]] = s
    BY <1>1 DEF RegInv, TypeOK
  <2>2. CASE nodes[s] = c
    BY <2>1, <2>2
  <2>3. CASE nodes[s] # c
    BY <2>1, <2>3 DEF Elsewhere
  <2> QED
    BY <2>2, <2>3
<1>2. ASSUME NEW d \in Conns, handler'[d] \in Registered \ {"leaving"},
             scon[who'[d]] = d, ~overlap[d]
      PROVE  nodes[who'[d]] = d
  <2>1. handler[d] \in Registered \ {"leaving"} /\ who'[d] = who[d]
    BY <1>2 DEF Elsewhere
  <2> QED
    BY <1>2, <2>1 DEF Entered
<1> QED
  BY <1>1, <1>2 DEF RegInv, Entered

\* A connection's own part of the invariant.
LEMMA OwnFacts ==
    ASSUME NodeInv, NEW c \in Conns
    PROVE  /\ handler[c] \in States /\ who[c] \in Slaves \cup {None}
           /\ toMaster[c] \in Seq(FromSlave) /\ toSlave[c] \in Seq(FromMaster)
           /\ MasterQueue(handler[c], toMaster[c]) /\ Known(handler[c], who[c])
           /\ cut[c] => Len(toMaster[c]) = 0 /\ Len(toSlave[c]) = 0
           /\ \A s \in Slaves : scon[s] = c =>
                /\ SlaveQueue(proc[s], toSlave[c])
                /\ cut[c] \/ InStep(proc[s], handler[c], toSlave[c], toMaster[c])
BY DEF NodeInv, TypeOK, ConnInv, PeerOK, ConnOK, States, FromSlave, FromMaster

\* A packet for the slave, if somebody still reads the connection.
LEMMA SendFacts ==
    ASSUME TypeOK, NEW c \in Conns, NEW p \in FromMaster, SendToSlave(c, p)
    PROVE  \E toS \in Seq(FromMaster) :
              /\ toSlave' = [toSlave EXCEPT ![c] = toS]
              /\ cut[c] => toS = toSlave[c]
              /\ \A s \in Slaves : scon[s] = c /\ ~cut[c] => toS = Append(toSlave[c], p)
<1>1. toSlave[c] \in Seq(FromMaster)
  BY DEF TypeOK, FromMaster
<1>2. Append(toSlave[c], p) \in Seq(FromMaster)
  BY <1>1, AppendFacts
<1>3. CASE Gone(c)
  <2>1. toSlave' = [toSlave EXCEPT ![c] = toSlave[c]]
    BY <1>3 DEF SendToSlave, TypeOK
  <2>2. \A s \in Slaves : ~(scon[s] = c /\ ~cut[c])
    BY <1>3 DEF Gone
  <2> QED
    BY <1>1, <2>1, <2>2
<1>4. CASE ~Gone(c)
  <2>1. toSlave' = [toSlave EXCEPT ![c] = Append(toSlave[c], p)] /\ ~cut[c]
    BY <1>4 DEF SendToSlave, Gone
  <2> QED
    BY <1>2, <2>1
<1> QED
  BY <1>3, <1>4

-----------------------------------------------------------------------------
(* handleConnection *)

\* The id is heard, and the challenge or the refusal is the slave's to read.
LEMMA ReadAuthHelloKeeps == ASSUME NodeInv, NEW c \in Conns, ReadAuthHello(c) PROVE NodeInv'
<1>1. /\ handler[c] = "hello" /\ toMaster[c] # <<>>
      /\ toMaster' = [toMaster EXCEPT ![c] = Tail(toMaster[c])]
      /\ UNCHANGED <<proc, scon, nodes, cut, overlap>>
  BY DEF ReadAuthHello, slaveVars, NodeInv, TypeOK
<1>2. PICK s : s = Head(toMaster[c])
  OBVIOUS
<1>3. PICK toM \in Seq(FromSlave) : toM = Tail(toMaster[c])
  BY <1>1, OwnFacts, TailFacts
<1>4. s \in Slaves /\ Len(toM) = 0 /\ toM = <<>> /\ HandlerOf(c, s) /\ ~cut[c]
  <2>1. toMaster[c][1] \in Slaves /\ Len(toM) = 0
    BY <1>1, <1>3, OwnFacts, MasterTakes
  <2>2. s = toMaster[c][1]
    BY <1>1, <1>2, OwnFacts, TailFacts
  <2>3. toM = <<>> /\ ~cut[c]
    BY <1>1, <2>1, OwnFacts, EmptyFacts
  <2> QED
    BY <1>1, <1>2, <2>1, <2>2, <2>3 DEF HandlerOf
<1>5. PICK h \in States, w \in Slaves \cup {None}, p \in FromMaster :
         /\ handler' = [handler EXCEPT ![c] = h] /\ who' = [who EXCEPT ![c] = w]
         /\ SendToSlave(c, p)
         /\ \/ h = "challenged" /\ w = s /\ p = "challenge" /\ IsAllowed(s)
            \/ h = "closing" /\ w = who[c] /\ p = "error"
  <2>1. CASE IsAllowed(s)
    <3>1. /\ handler' = [handler EXCEPT ![c] = "challenged"] /\ who' = [who EXCEPT ![c] = s]
          /\ SendToSlave(c, "challenge")
      BY <1>2, <1>4, <2>1 DEF ReadAuthHello, SetHandler
    <3> QED
      BY <1>4, <2>1, <3>1 DEF States, FromMaster
  <2>2. CASE ~IsAllowed(s)
    <3>1. /\ handler' = [handler EXCEPT ![c] = "closing"] /\ who' = who
          /\ SendToSlave(c, "error")
      BY <1>2, <1>4, <2>2 DEF ReadAuthHello, SetHandler
    <3>2. who = [who EXCEPT ![c] = who[c]]
      BY DEF NodeInv, TypeOK
    <3> QED
      BY <3>1, <3>2, OwnFacts DEF States, FromMaster
  <2> QED
    BY <2>1, <2>2
<1>6. PICK toS \in Seq(FromMaster) :
         /\ toSlave' = [toSlave EXCEPT ![c] = toS]
         /\ \A x \in Slaves : scon[x] = c => toS = Append(toSlave[c], p)
  BY <1>4, <1>5, SendFacts DEF NodeInv
<1>7. TypeOK'
  BY <1>1, <1>3, <1>5, <1>6 DEF NodeInv, TypeOK, States, FromSlave, FromMaster
<1>8. /\ Elsewhere(c) /\ handler'[c] = h /\ who'[c] = w
      /\ toMaster'[c] = toM /\ toSlave'[c] = toS
  BY <1>1, <1>3, <1>5, <1>6 DEF NodeInv, TypeOK, Elsewhere
<1>9. ConnOK(c)'
  BY <1>1, <1>4, <1>5, <1>8 DEF ConnOK, MasterQueue, Known, Live, IsAllowed
<1>10. ASSUME NEW x \in Slaves, scon[x] = c
      PROVE  SlaveQueue(proc[x], toS) /\ InStep(proc[x], h, toS, toM)
  <2>1. proc[x] = "hello" /\ Len(toSlave[c]) = 0
    BY <1>1, <1>4, <1>10, OwnFacts DEF InStep
  <2>2. Len(toS) = 1 /\ toS[1] = p
    <3>1. toSlave[c] \in Seq(FromMaster) /\ toS = Append(toSlave[c], p)
      BY <1>6, <1>10, OwnFacts
    <3> QED
      BY <2>1, <3>1, AppendFacts
  <2> QED
    BY <1>4, <1>5, <2>1, <2>2 DEF SlaveQueue, InStep, Live
<1>11. PeerOK(c)'
  BY <1>1, <1>8, <1>10 DEF PeerOK, SlaveQueue, InStep
<1>12. ASSUME NEW x \in Slaves, HandlerOf(c, x)' PROVE HandlerOf(c, x)
  BY <1>1, <1>4, <1>5, <1>8, <1>12 DEF HandlerOf
<1>13. EndsInv' /\ ConnInv' /\ Alone'
  BY <1>1, <1>7, <1>8, <1>9, <1>11, <1>12, HandlerStep
<1>14. RegInv' /\ Entered'
  BY <1>1, <1>5, <1>8, EntriesStep DEF Registered
<1> QED
  BY <1>7, <1>13, <1>14 DEF NodeInv

\* The proof is heard, and the verdict is the slave's to read.
LEMMA ReadProofKeeps == ASSUME NodeInv, NEW c \in Conns, ReadProof(c) PROVE NodeInv'
<1>1. /\ handler[c] = "challenged" /\ toMaster[c] # <<>>
      /\ toMaster' = [toMaster EXCEPT ![c] = Tail(toMaster[c])]
      /\ UNCHANGED <<proc, scon, who, nodes, cut, overlap>>
  BY DEF ReadProof, slaveVars, NodeInv, TypeOK
<1>2. PICK toM \in Seq(FromSlave) : toM = Tail(toMaster[c])
  BY <1>1, OwnFacts, TailFacts
<1>3. Len(toM) = 0 /\ toM = <<>> /\ ~cut[c] /\ Len(toMaster[c]) # 0
  <2>1. Len(toM) = 0
    BY <1>1, <1>2, OwnFacts, MasterTakes
  <2> QED
    BY <1>1, <2>1, OwnFacts, EmptyFacts
<1>4. PICK h \in States, p \in FromMaster :
         /\ handler' = [handler EXCEPT ![c] = h] /\ SendToSlave(c, p)
         /\ \/ h = "authed" /\ p = "ok" /\ who[c] \in GoodKeys
            \/ h = "closing" /\ p = "error"
  BY DEF ReadProof, SetHandler, States, FromMaster
<1>5. PICK toS \in Seq(FromMaster) :
         /\ toSlave' = [toSlave EXCEPT ![c] = toS]
         /\ \A x \in Slaves : scon[x] = c => toS = Append(toSlave[c], p)
  BY <1>3, <1>4, SendFacts DEF NodeInv
<1>6. TypeOK'
  BY <1>1, <1>2, <1>4, <1>5 DEF NodeInv, TypeOK, States, FromSlave, FromMaster
<1>7. /\ Elsewhere(c) /\ handler'[c] = h /\ who'[c] = who[c]
      /\ toMaster'[c] = toM /\ toSlave'[c] = toS
  BY <1>1, <1>2, <1>4, <1>5 DEF NodeInv, TypeOK, Elsewhere
<1>8. ConnOK(c)'
  <2>1. who[c] \in Slaves /\ IsAllowed(who[c])
    BY <1>1, OwnFacts DEF Known
  <2> QED
    BY <1>1, <1>3, <1>4, <1>7, <2>1 DEF ConnOK, MasterQueue, Known, Live, IsAllowed
<1>9. ASSUME NEW x \in Slaves, scon[x] = c
      PROVE  SlaveQueue(proc[x], toS) /\ InStep(proc[x], h, toS, toM)
  <2>1. proc[x] = "proof" /\ Len(toSlave[c]) = 0
    BY <1>1, <1>3, <1>9, OwnFacts DEF InStep
  <2>2. Len(toS) = 1 /\ toS[1] = p
    <3>1. toSlave[c] \in Seq(FromMaster) /\ toS = Append(toSlave[c], p)
      BY <1>5, <1>9, OwnFacts
    <3> QED
      BY <2>1, <3>1, AppendFacts
  <2> QED
    BY <1>3, <1>4, <2>1, <2>2 DEF SlaveQueue, InStep, Live
<1>10. PeerOK(c)'
  BY <1>1, <1>7, <1>9 DEF PeerOK, SlaveQueue, InStep
<1>11. ASSUME NEW x \in Slaves, HandlerOf(c, x)' PROVE HandlerOf(c, x)
  BY <1>1, <1>3, <1>7, <1>11 DEF HandlerOf
<1>12. EndsInv' /\ ConnInv' /\ Alone'
  BY <1>1, <1>6, <1>7, <1>8, <1>10, <1>11, HandlerStep
<1>13. RegInv' /\ Entered'
  BY <1>1, <1>4, <1>7, EntriesStep DEF Registered
<1> QED
  BY <1>6, <1>12, <1>13 DEF NodeInv

\* A handler that moves on by itself, within its session or out of it.
LEMMA OnlyHandler ==
    ASSUME NodeInv, NEW c \in Conns, NEW h \in States, handler' = [handler EXCEPT ![c] = h],
           handler[c] # "closed", h = "closing" \/ (h \in Live /\ handler[c] \in Live),
           UNCHANGED <<proc, scon, who, toMaster, toSlave, cut, overlap>>,
           nodes' \in [Slaves -> Conns \cup {None}]
    PROVE  /\ TypeOK' /\ EndsInv' /\ ConnInv' /\ Alone' /\ Elsewhere(c) /\ handler'[c] = h
<1>1. TypeOK'
  BY DEF NodeInv, TypeOK, States
<1>2. Elsewhere(c) /\ handler'[c] = h
  BY DEF NodeInv, TypeOK, Elsewhere
<1>3. ConnOK(c)'
  BY <1>2, OwnFacts DEF ConnOK, MasterQueue, Known, Live, IsAllowed
<1>4. ASSUME NEW x \in Slaves, scon[x] = c
      PROVE  SlaveQueue(proc[x], toSlave[c]) /\ (cut[c] \/ InStep(proc[x], h, toSlave[c], toMaster[c]))
  BY <1>4, OwnFacts DEF InStep, Live
<1>5. PeerOK(c)'
  BY <1>2, <1>4 DEF PeerOK, SlaveQueue, InStep
<1>6. ASSUME NEW x \in Slaves, HandlerOf(c, x)' PROVE HandlerOf(c, x)
  BY <1>6 DEF HandlerOf
<1> QED
  BY <1>1, <1>2, <1>3, <1>5, <1>6, HandlerStep

\* The peer is gone during the handshake, a heartbeat times out, the next is due.
LEMMA MovesOnKeeps ==
    ASSUME NodeInv, NEW c \in Conns,
           HandshakeReadError(c) \/ HeartbeatTimesOut(c) \/ WakeUp(c)
    PROVE  NodeInv'
<1>1. PICK h \in States :
         /\ handler' = [handler EXCEPT ![c] = h]
         /\ \/ handler[c] \in {"hello", "challenged"} /\ h = "closing"
            \/ handler[c] = "waiting" /\ h = "leaving"
            \/ handler[c] = "sleeping" /\ h = "due"
  BY DEF HandshakeReadError, HeartbeatTimesOut, WakeUp, SetHandler, States
<1>2. UNCHANGED <<proc, scon, who, nodes, toMaster, toSlave, cut, overlap>>
  BY DEF HandshakeReadError, HeartbeatTimesOut, WakeUp, slaveVars
<1>3. nodes' \in [Slaves -> Conns \cup {None}]
  BY <1>2 DEF NodeInv, TypeOK
<1>4. TypeOK' /\ EndsInv' /\ ConnInv' /\ Alone' /\ Elsewhere(c) /\ handler'[c] = h
  BY <1>1, <1>2, <1>3, OnlyHandler DEF Live
<1>5. RegInv' /\ Entered'
  BY <1>1, <1>2, <1>4, EntriesStep DEF Registered
<1> QED
  BY <1>4, <1>5 DEF NodeInv

\* The entry of the id is the new session's; another one that is alone with
\* its slave has another id.
LEMMA RegisterNodeKeeps == ASSUME NodeInv, NEW c \in Conns, RegisterNode(c) PROVE NodeInv'
<1>1. /\ handler[c] = "authed" /\ handler' = [handler EXCEPT ![c] = "due"]
      /\ nodes' = [nodes EXCEPT ![who[c]] = c]
      /\ UNCHANGED <<proc, scon, who, toMaster, toSlave, cut, overlap>>
  BY DEF RegisterNode, SetHandler, slaveVars
<1>2. PICK s \in Slaves : s = who[c]
  BY <1>1, OwnFacts DEF Known, Live
<1>3. /\ nodes' \in [Slaves -> Conns \cup {None}] /\ nodes'[s] = c
      /\ \A x \in Slaves \ {s} : nodes'[x] = nodes[x]
  BY <1>1, <1>2 DEF NodeInv, TypeOK
<1>4. TypeOK' /\ EndsInv' /\ ConnInv' /\ Alone' /\ Elsewhere(c) /\ handler'[c] = "due"
  BY <1>1, <1>3, OnlyHandler DEF Live, States
<1>5. ASSUME NEW x \in Slaves, nodes'[x] # None
      PROVE  handler'[nodes'[x]] \in Registered /\ who[nodes'[x]] = x
  <2>1. CASE x = s
    BY <1>2, <1>3, <1>4, <2>1 DEF Registered
  <2>2. CASE x # s
    <3>1. nodes[x] \in Conns /\ handler[nodes[x]] \in Registered /\ who[nodes[x]] = x
      BY <1>3, <1>5, <2>2 DEF NodeInv, RegInv, TypeOK
    <3>2. nodes[x] # c
      BY <1>1, <3>1 DEF Registered
    <3> QED
      BY <1>3, <1>4, <2>2, <3>1, <3>2 DEF Elsewhere
  <2> QED
    BY <2>1, <2>2
<1>6. ASSUME NEW d \in Conns, handler'[d] \in Registered \ {"leaving"},
             scon[who[d]] = d, ~overlap[d]
      PROVE  nodes'[who[d]] = d
  <2>1. CASE d = c
    BY <1>2, <1>3, <2>1
  <2>2. CASE d # c
    <3>1. handler[d] = handler'[d] /\ nodes[who[d]] = d
      BY <1>4, <1>6, <2>2 DEF Elsewhere, NodeInv, Entered
    <3>2. who[d] \in Slaves
      BY <1>6, <3>1, OwnFacts DEF Known, Live, Registered
    <3>3. who[d] # s
      <4>1. HandlerOf(c, s)
        BY <1>1, <1>2 DEF HandlerOf
      <4>2. d # None
        BY NoneAssumption
      <4> QED
        BY <1>6, <2>2, <4>1, <4>2 DEF NodeInv, Alone
    <3> QED
      BY <1>3, <3>1, <3>2, <3>3
  <2> QED
    BY <2>1, <2>2
<1> QED
  BY <1>1, <1>4, <1>5, <1>6 DEF NodeInv, RegInv, Entered

\* The entry that goes is the handler's own, or that of a session that overlaps it.
LEMMA UnregisterNodeKeeps == ASSUME NodeInv, NEW c \in Conns, UnregisterNode(c) PROVE NodeInv'
<1>1. /\ handler[c] = "leaving" /\ handler' = [handler EXCEPT ![c] = "closing"]
      /\ nodes' = [nodes EXCEPT ![who[c]] = None]
      /\ UNCHANGED <<proc, scon, who, toMaster, toSlave, cut, overlap>>
  BY DEF UnregisterNode, SetHandler, slaveVars
<1>2. PICK s \in Slaves : s = who[c]
  BY <1>1, OwnFacts DEF Known, Live
<1>3. /\ nodes' \in [Slaves -> Conns \cup {None}] /\ nodes'[s] = None
      /\ \A x \in Slaves \ {s} : nodes'[x] = nodes[x]
  BY <1>1, <1>2 DEF NodeInv, TypeOK
<1>4. TypeOK' /\ EndsInv' /\ ConnInv' /\ Alone' /\ Elsewhere(c) /\ handler'[c] = "closing"
  BY <1>1, <1>3, OnlyHandler DEF Live, States
<1>5. ASSUME NEW x \in Slaves, nodes'[x] # None
      PROVE  handler'[nodes'[x]] \in Registered /\ who[nodes'[x]] = x
  <2>1. x # s /\ nodes'[x] = nodes[x]
    BY <1>3, <1>5
  <2>2. nodes[x] \in Conns /\ handler[nodes[x]] \in Registered /\ who[nodes[x]] = x
    BY <1>5, <2>1 DEF NodeInv, RegInv, TypeOK
  <2>3. nodes[x] # c
    BY <1>2, <2>1, <2>2
  <2> QED
    BY <1>4, <2>1, <2>2, <2>3 DEF Elsewhere
<1>6. ASSUME NEW d \in Conns, handler'[d] \in Registered \ {"leaving"},
             scon[who[d]] = d, ~overlap[d]
      PROVE  nodes'[who[d]] = d
  <2>1. d # c
    BY <1>4, <1>6 DEF Registered
  <2>2. handler[d] = handler'[d] /\ nodes[who[d]] = d
    BY <1>4, <1>6, <2>1 DEF Elsewhere, NodeInv, Entered
  <2>3. who[d] \in Slaves
    BY <1>6, <2>2, OwnFacts DEF Known, Live, Registered
  <2>4. who[d] # s
    <3>1. HandlerOf(c, s)
      BY <1>1, <1>2 DEF HandlerOf
    <3>2. d # None
      BY NoneAssumption
    <3> QED
      BY <1>6, <2>1, <3>1, <3>2 DEF NodeInv, Alone
  <2> QED
    BY <1>3, <2>2, <2>3, <2>4
<1> QED
  BY <1>1, <1>4, <1>5, <1>6 DEF NodeInv, RegInv, Entered

\* A heartbeat goes behind the verdict and the heartbeats before it.
LEMMA SendHeartbeatKeeps == ASSUME NodeInv, NEW c \in Conns, SendHeartbeat(c) PROVE NodeInv'
<1>1. /\ handler[c] = "due"
      /\ UNCHANGED <<proc, scon, who, nodes, toMaster, cut, overlap>>
  BY DEF SendHeartbeat, slaveVars
<1>2. nodes' \in [Slaves -> Conns \cup {None}]
  BY <1>1 DEF NodeInv, TypeOK
<1>3. CASE handler' = [handler EXCEPT ![c] = "leaving"] /\ UNCHANGED toSlave
  <2>1. TypeOK' /\ EndsInv' /\ ConnInv' /\ Alone' /\ Elsewhere(c) /\ handler'[c] = "leaving"
    BY <1>1, <1>2, <1>3, OnlyHandler DEF Live, States
  <2>2. RegInv' /\ Entered'
    BY <1>1, <2>1, EntriesStep DEF Registered
  <2> QED
    BY <2>1, <2>2 DEF NodeInv
<1>4. CASE handler' = [handler EXCEPT ![c] = "waiting"] /\ SendToSlave(c, "heartbeat")
  <2>1. PICK toS \in Seq(FromMaster) :
         /\ toSlave' = [toSlave EXCEPT ![c] = toS]
         /\ cut[c] => toS = toSlave[c]
         /\ \A x \in Slaves : scon[x] = c /\ ~cut[c] => toS = Append(toSlave[c], "heartbeat")
    <3>1. "heartbeat" \in FromMaster
      BY DEF FromMaster
    <3> QED
      BY <1>4, <3>1, SendFacts DEF NodeInv
  <2>2. TypeOK'
    BY <1>1, <1>4, <2>1 DEF NodeInv, TypeOK, FromMaster
  <2>3. /\ Elsewhere(c) /\ handler'[c] = "waiting" /\ who'[c] = who[c]
        /\ toMaster'[c] = toMaster[c] /\ toSlave'[c] = toS
    BY <1>1, <1>4, <2>1 DEF NodeInv, TypeOK, Elsewhere
  <2>4. ConnOK(c)'
    BY <1>1, <2>1, <2>3, OwnFacts DEF ConnOK, MasterQueue, Known, Live, IsAllowed
  <2>5. ASSUME NEW x \in Slaves, scon[x] = c, ~cut[c]
        PROVE  SlaveQueue(proc[x], toS) /\ InStep(proc[x], "waiting", toS, toMaster[c])
    <3>1. /\ toSlave[c] \in Seq(FromMaster) /\ toS = Append(toSlave[c], "heartbeat")
          /\ "heartbeat" \in FromMaster
      BY <2>1, <2>5, OwnFacts DEF FromMaster
    <3>2. /\ Len(toSlave[c]) \in Nat /\ Len(toS) = Len(toSlave[c]) + 1
          /\ toS[Len(toSlave[c]) + 1] = "heartbeat"
          /\ \A i \in 1..Len(toSlave[c]) : toS[i] = toSlave[c][i]
      BY <3>1, AppendFacts
    <3>3. SlaveQueue(proc[x], toSlave[c]) /\ InStep(proc[x], "due", toSlave[c], toMaster[c])
      BY <1>1, <2>5, OwnFacts
    <3>4. CASE proc[x] = "running"
      BY <3>2, <3>3, <3>4 DEF SlaveQueue, InStep
    <3>5. CASE proc[x] = "proof" /\ Len(toSlave[c]) > 0 /\ toSlave[c][1] = "ok"
      <4>1. toS[1] = "ok" /\ Len(toS) > 0
        BY <3>2, <3>5
      <4>2. ASSUME NEW i \in 2..Len(toS) PROVE toS[i] = "heartbeat"
        BY <3>2, <3>3, <3>5 DEF SlaveQueue
      <4> QED
        BY <3>2, <3>5, <4>1, <4>2 DEF SlaveQueue, InStep
    <3> QED
      BY <3>3, <3>4, <3>5 DEF InStep, Live
  <2>6. ASSUME NEW x \in Slaves, scon[x] = c
        PROVE  SlaveQueue(proc[x], toS) /\ (cut[c] \/ InStep(proc[x], "waiting", toS, toMaster[c]))
    BY <2>1, <2>5, <2>6, OwnFacts
  <2>7. PeerOK(c)'
    BY <1>1, <2>3, <2>6 DEF PeerOK, SlaveQueue, InStep
  <2>8. ASSUME NEW x \in Slaves, HandlerOf(c, x)' PROVE HandlerOf(c, x)
    BY <1>1, <2>3, <2>8 DEF HandlerOf
  <2>9. EndsInv' /\ ConnInv' /\ Alone'
    BY <1>1, <2>2, <2>3, <2>4, <2>7, <2>8, HandlerStep
  <2>10. RegInv' /\ Entered'
    BY <1>1, <2>3, EntriesStep DEF Registered
  <2> QED
    BY <2>2, <2>9, <2>10 DEF NodeInv
<1> QED
  BY <1>3, <1>4 DEF SendHeartbeat, SetHandler

\* A reply is taken from the queue; only replies are behind it.
LEMMA ReadReplyKeeps == ASSUME NodeInv, NEW c \in Conns, ReadReply(c) PROVE NodeInv'
<1>1. /\ handler[c] \in Live /\ toMaster[c] # <<>>
      /\ toMaster' = [toMaster EXCEPT ![c] = Tail(toMaster[c])]
      /\ UNCHANGED <<proc, scon, who, nodes, toSlave, cut, overlap>>
  BY DEF ReadReply, LiveHandler, Live, slaveVars, NodeInv, TypeOK
<1>2. PICK toM \in Seq(FromSlave) : toM = Tail(toMaster[c])
  BY <1>1, OwnFacts, TailFacts
<1>3. PICK h \in Live :
         /\ handler' = [handler EXCEPT ![c] = h]
         /\ h = handler[c] \/ (handler[c] = "waiting" /\ h = "sleeping")
  <2>1. handler = [handler EXCEPT ![c] = handler[c]]
    BY DEF NodeInv, TypeOK
  <2> QED
    BY <1>1, <2>1 DEF ReadReply, Live
<1>4. ~cut[c] /\ \A i \in 1..Len(toM) : toM[i] = "reply"
  <2>1. Len(toMaster[c]) # 0
    BY <1>1, OwnFacts, EmptyFacts
  <2> QED
    BY <1>1, <1>2, <2>1, OwnFacts, MasterTakes
<1>5. TypeOK'
  BY <1>1, <1>2, <1>3 DEF NodeInv, TypeOK, Live, FromSlave
<1>6. /\ Elsewhere(c) /\ handler'[c] = h /\ who'[c] = who[c]
      /\ toMaster'[c] = toM /\ toSlave'[c] = toSlave[c]
  BY <1>1, <1>2, <1>3 DEF NodeInv, TypeOK, Elsewhere
<1>7. ConnOK(c)'
  <2>1. who[c] \in Slaves /\ IsAllowed(who[c]) /\ who[c] \in GoodKeys
    BY <1>1, OwnFacts DEF Known
  <2> QED
    BY <1>1, <1>4, <1>6, <2>1 DEF ConnOK, MasterQueue, Known, Live, IsAllowed
<1>8. ASSUME NEW x \in Slaves, scon[x] = c
      PROVE  SlaveQueue(proc[x], toSlave[c]) /\ InStep(proc[x], h, toSlave[c], toM)
  BY <1>1, <1>3, <1>4, <1>8, OwnFacts DEF InStep, Live
<1>9. PeerOK(c)'
  BY <1>1, <1>6, <1>8 DEF PeerOK, SlaveQueue, InStep
<1>10. ASSUME NEW x \in Slaves, HandlerOf(c, x)' PROVE HandlerOf(c, x)
  <2>1. toM = <<>> \/ Head(toM) = "reply"
    <3>1. CASE toM = <<>>
      BY <3>1
    <3>2. CASE toM # <<>>
      <4>1. 1 \in 1..Len(toM) /\ Head(toM) = toM[1]
        BY <3>2, TailFacts
      <4> QED
        BY <1>4, <4>1
    <3> QED
      BY <3>1, <3>2
  <2> QED
    BY <1>1, <1>6, <1>10, <2>1, PacketAssumption DEF HandlerOf, Live
<1>11. EndsInv' /\ ConnInv' /\ Alone'
  BY <1>1, <1>5, <1>6, <1>7, <1>9, <1>10, HandlerStep
<1>12. RegInv' /\ Entered'
  BY <1>1, <1>3, <1>6, EntriesStep DEF Registered
<1> QED
  BY <1>5, <1>11, <1>12 DEF NodeInv

\* A handler that has unregistered, or never registered, ends.
LEMMA CloseConnKeeps == ASSUME NodeInv, NEW c \in Conns, CloseConn(c) PROVE NodeInv'
<1>1. /\ handler[c] = "closing" /\ handler' = [handler EXCEPT ![c] = "closed"]
      /\ toMaster' = [toMaster EXCEPT ![c] = <<>>] /\ who' = [who EXCEPT ![c] = None]
      /\ UNCHANGED <<proc, scon, nodes, toSlave, cut, overlap>>
  BY DEF CloseConn, SetHandler, slaveVars
<1>2. <<>> \in Seq(Slaves \cup {"proof", "reply"}) /\ Len(<<>>) = 0
  BY EmptyFacts
<1>3. TypeOK'
  BY <1>1, <1>2 DEF NodeInv, TypeOK
<1>4. /\ Elsewhere(c) /\ handler'[c] = "closed" /\ who'[c] = None
      /\ toMaster'[c] = <<>> /\ toSlave'[c] = toSlave[c]
  BY <1>1 DEF NodeInv, TypeOK, Elsewhere
<1>5. ConnOK(c)'
  BY <1>1, <1>2, <1>4, OwnFacts DEF ConnOK, MasterQueue, Known, Live
<1>6. PeerOK(c)'
  BY <1>1, <1>4, OwnFacts DEF PeerOK, SlaveQueue, InStep, Live
<1>7. ASSUME NEW x \in Slaves, HandlerOf(c, x)' PROVE HandlerOf(c, x)
  BY <1>4, <1>7 DEF HandlerOf
<1>8. EndsInv' /\ ConnInv' /\ Alone'
  BY <1>1, <1>3, <1>4, <1>5, <1>6, <1>7, HandlerStep
<1>9. RegInv' /\ Entered'
  BY <1>1, <1>4, EntriesStep DEF Registered
<1> QED
  BY <1>3, <1>8, <1>9 DEF NodeInv

-----------------------------------------------------------------------------
(* The network and the master's process *)

\* A connection that is cut is silent, and its ends need not be in step.
LEMMA CutKeeps == ASSUME NodeInv, NEW c \in Conns, Cut(c) PROVE NodeInv'
<1>1. /\ cut' = [cut EXCEPT ![c] = TRUE] /\ handler[c] # "closed"
      /\ toMaster' = [toMaster EXCEPT ![c] = <<>>] /\ toSlave' = [toSlave EXCEPT ![c] = <<>>]
      /\ UNCHANGED <<proc, scon, handler, who, nodes, overlap>>
  BY DEF Cut, slaveVars
<1>2. /\ <<>> \in Seq(Slaves \cup {"proof", "reply"}) /\ Len(<<>>) = 0
      /\ <<>> \in Seq({"challenge", "ok", "error", "heartbeat"})
  BY EmptyFacts
<1>3. TypeOK'
  BY <1>1, <1>2 DEF NodeInv, TypeOK
<1>4. /\ cut'[c] /\ toMaster'[c] = <<>> /\ toSlave'[c] = <<>>
      /\ \A d \in Conns \ {c} : cut'[d] = cut[d] /\ toMaster'[d] = toMaster[d]
                                /\ toSlave'[d] = toSlave[d]
  BY <1>1 DEF NodeInv, TypeOK
<1>5. PeerOK(c)' /\ ConnOK(c)'
  <2>1. PeerOK(c)'
    BY <1>2, <1>4 DEF PeerOK, SlaveQueue
  <2>2. ConnOK(c)'
    BY <1>1, <1>2, <1>4, OwnFacts DEF ConnOK, MasterQueue, Known, IsAllowed
  <2> QED
    BY <2>1, <2>2
<1>6. ASSUME NEW d \in Conns \ {c} PROVE PeerOK(d)' /\ ConnOK(d)'
  <2>1. PeerOK(d) /\ ConnOK(d)
    BY DEF NodeInv, ConnInv
  <2>2. PeerOK(d)'
    BY <1>1, <1>4, <2>1 DEF PeerOK, SlaveQueue, InStep
  <2>3. ConnOK(d)'
    BY <1>1, <1>4, <2>1 DEF ConnOK, MasterQueue, Known, IsAllowed
  <2> QED
    BY <2>2, <2>3
<1>7. EndsInv' /\ ConnInv' /\ RegInv' /\ Entered'
  BY <1>1, <1>5, <1>6 DEF NodeInv, EndsInv, ConnInv, RegInv, Entered
<1>8. ASSUME NEW d \in Conns, NEW s \in Slaves, HandlerOf(d, s)' PROVE HandlerOf(d, s)
  BY <1>1, <1>4, <1>8 DEF HandlerOf
<1>9. Alone'
  BY <1>1, <1>8 DEF NodeInv, Alone
<1> QED
  BY <1>3, <1>7, <1>9 DEF NodeInv

\* No handler is left, no entry and nothing to read for the master.
LEMMA MasterRestartKeeps == ASSUME NodeInv, MasterRestart PROVE NodeInv'
<1>1. /\ handler' = [c \in Conns |-> "closed"] /\ nodes' = [s \in Slaves |-> None]
      /\ toMaster' = [c \in Conns |-> <<>>] /\ who' = [c \in Conns |-> None]
      /\ UNCHANGED <<proc, scon, toSlave, cut, overlap>>
  BY DEF MasterRestart, slaveVars
<1>2. <<>> \in Seq(Slaves \cup {"proof", "reply"}) /\ Len(<<>>) = 0
  BY EmptyFacts
<1>3. TypeOK'
  BY <1>1, <1>2 DEF NodeInv, TypeOK
<1>4. ASSUME NEW c \in Conns PROVE PeerOK(c)' /\ ConnOK(c)'
  <2>1. handler'[c] = "closed" /\ toMaster'[c] = <<>> /\ who'[c] = None
    BY <1>1
  <2>2. PeerOK(c)'
    BY <1>1, <2>1, OwnFacts DEF PeerOK, SlaveQueue, InStep, Live
  <2>3. ConnOK(c)'
    BY <1>1, <1>2, <2>1, OwnFacts DEF ConnOK, MasterQueue, Known, Live
  <2> QED
    BY <2>2, <2>3
<1>5. EndsInv' /\ ConnInv' /\ RegInv' /\ Entered'
  BY <1>1, <1>4 DEF NodeInv, EndsInv, ConnInv, RegInv, Entered, Registered
<1>6. Alone'
  BY <1>1 DEF Alone, HandlerOf, NodeInv, TypeOK
<1> QED
  BY <1>3, <1>5, <1>6 DEF NodeInv

-----------------------------------------------------------------------------
(* The slave *)

\* A new session; the handlers it overlaps are known when it starts.
LEMMA DialKeeps == ASSUME NodeInv, NEW s \in Slaves, NEW c \in Conns, Dial(s, c) PROVE NodeInv'
<1>1. /\ proc[s] = "down" /\ handler[c] = "closed" /\ (\A x \in Slaves : scon[x] # c)
      /\ proc' = [proc EXCEPT ![s] = "hello"] /\ scon' = [scon EXCEPT ![s] = c]
      /\ handler' = [handler EXCEPT ![c] = "hello"] /\ who' = [who EXCEPT ![c] = None]
      /\ toMaster' = [toMaster EXCEPT ![c] = <<s>>] /\ toSlave' = [toSlave EXCEPT ![c] = <<>>]
      /\ cut' = [cut EXCEPT ![c] = FALSE] /\ nodes' = nodes
  BY DEF Dial
<1>2. /\ overlap' \in [Conns -> BOOLEAN]
      /\ ~overlap'[c] => \A d \in Conns : ~HandlerOf(d, s)
      /\ \A d \in Conns \ {c} : overlap'[d] = overlap[d]
  <2>1. CASE \E d \in Conns : HandlerOf(d, s)
    <3>1. overlap' = [overlap EXCEPT ![c] = TRUE]
      BY <2>1 DEF Dial
    <3> QED
      BY <3>1 DEF NodeInv, TypeOK
  <2>2. CASE ~\E d \in Conns : HandlerOf(d, s)
    <3>1. overlap' = [overlap EXCEPT ![c] = FALSE]
      BY <2>2 DEF Dial
    <3>2. /\ overlap' \in [Conns -> BOOLEAN]
          /\ \A d \in Conns \ {c} : overlap'[d] = overlap[d]
      BY <3>1 DEF NodeInv, TypeOK
    <3> QED
      BY <2>2, <3>2
  <2> QED
    BY <2>1, <2>2
<1>3. PICK hello \in Seq(Slaves \cup {"proof", "reply"}) :
         hello = <<s>> /\ Len(hello) = 1 /\ hello[1] = s /\ hello # <<>> /\ Head(hello) = s
  <2>1. /\ <<s>> \in Seq(Slaves \cup {"proof", "reply"}) /\ Len(<<s>>) = 1
        /\ <<s>>[1] = s /\ Head(<<s>>) = s
    OBVIOUS
  <2>2. <<s>> # <<>>
    OBVIOUS
  <2> QED
    BY <2>1, <2>2
<1>4. PICK none \in Seq({"challenge", "ok", "error", "heartbeat"}) : none = <<>> /\ Len(none) = 0
  BY EmptyFacts
<1>5. toMaster' = [toMaster EXCEPT ![c] = hello] /\ toSlave' = [toSlave EXCEPT ![c] = none]
  BY <1>1, <1>3, <1>4
<1>6. TypeOK'
  <2>1. overlap' \in [Conns -> BOOLEAN]
    BY <1>2
  <2>2. /\ proc' \in [Slaves -> {"down", "hello", "proof", "running", "zombie"}]
        /\ scon' \in [Slaves -> Conns \cup {None}] /\ cut' \in [Conns -> BOOLEAN]
    BY <1>1 DEF NodeInv, TypeOK
  <2>3. /\ handler' \in [Conns -> States] /\ who' \in [Conns -> Slaves \cup {None}]
        /\ nodes' \in [Slaves -> Conns \cup {None}]
    BY <1>1 DEF NodeInv, TypeOK, States
  <2>4. /\ toMaster' \in [Conns -> Seq(Slaves \cup {"proof", "reply"})]
        /\ toSlave' \in [Conns -> Seq({"challenge", "ok", "error", "heartbeat"})]
    BY <1>5 DEF NodeInv, TypeOK
  <2> QED
    BY <2>1, <2>2, <2>3, <2>4 DEF TypeOK, States
<1>7. /\ proc'[s] = "hello" /\ scon'[s] = c
      /\ \A x \in Slaves \ {s} : proc'[x] = proc[x] /\ scon'[x] = scon[x]
  BY <1>1 DEF NodeInv, TypeOK
<1>8. /\ Elsewhere(c) /\ handler'[c] = "hello" /\ who'[c] = None
      /\ toMaster'[c] = hello /\ toSlave'[c] = none
  BY <1>1, <1>5 DEF NodeInv, TypeOK, Elsewhere
<1>9. ~cut'[c] /\ \A d \in Conns \ {c} : cut'[d] = cut[d]
  BY <1>1 DEF NodeInv, TypeOK
<1>10. c # None
  BY NoneAssumption
<1>11. EndsInv'
  BY <1>1, <1>7, <1>10 DEF NodeInv, EndsInv
<1>12. PeerOK(c)'
  <2> SUFFICES ASSUME NEW x \in Slaves, scon'[x] = c
               PROVE  /\ SlaveQueue(proc'[x], toSlave'[c])
                      /\ InStep(proc'[x], handler'[c], toSlave'[c], toMaster'[c])
    BY DEF PeerOK, SlaveQueue, InStep
  <2>1. x = s
    BY <1>1, <1>7
  <2> QED
    BY <2>1, <1>4, <1>7, <1>8 DEF SlaveQueue, InStep, Live
<1>13. ConnOK(c)'
  BY <1>3, <1>8, <1>9 DEF ConnOK, MasterQueue, Known, Live
<1>14. ASSUME NEW d \in Conns \ {c} PROVE PeerOK(d)' /\ ConnOK(d)'
  <2>1. PeerOK(d) /\ ConnOK(d)
    BY DEF NodeInv, ConnInv
  <2>2. PeerOK(d)'
    <3> SUFFICES ASSUME NEW x \in Slaves, scon'[x] = d
                 PROVE  /\ SlaveQueue(proc'[x], toSlave'[d])
                        /\ cut'[d] \/ InStep(proc'[x], handler'[d], toSlave'[d], toMaster'[d])
      BY DEF PeerOK, SlaveQueue, InStep
    <3>1. x # s /\ proc'[x] = proc[x] /\ scon[x] = d
      BY <1>7
    <3> QED
      BY <1>8, <1>9, <2>1, <3>1 DEF PeerOK, Elsewhere
  <2>3. ConnOK(d)'
    BY <1>8, <1>9, <2>1 DEF ConnOK, Elsewhere, MasterQueue, Known, IsAllowed
  <2> QED
    BY <2>2, <2>3
<1>15. ConnInv'
  BY <1>12, <1>13, <1>14 DEF ConnInv
<1>16. RegInv'
  <2> SUFFICES ASSUME NEW x \in Slaves, nodes[x] # None
               PROVE  handler'[nodes[x]] \in Registered /\ who'[nodes[x]] = x
    BY <1>1 DEF RegInv
  <2>1. nodes[x] \in Conns /\ handler[nodes[x]] \in Registered /\ who[nodes[x]] = x
    BY DEF NodeInv, RegInv, TypeOK
  <2>2. nodes[x] # c
    BY <1>1, <2>1 DEF Registered
  <2> QED
    BY <1>8, <2>1, <2>2 DEF Elsewhere
<1>17. ASSUME NEW x \in Slaves, scon'[x] # None, ~overlap'[scon'[x]],
              NEW d \in Conns \ {scon'[x]}
       PROVE  ~HandlerOf(d, x)'
  <2>1. CASE x = s
    <3>1. ~HandlerOf(d, s) /\ d # c
      BY <1>2, <1>7, <1>17, <2>1
    <3> QED
      BY <1>8, <2>1, <3>1 DEF HandlerOf, Elsewhere
  <2>2. CASE x # s
    <3>1. scon[x] \in Conns \ {c} /\ scon'[x] = scon[x] /\ ~overlap[scon[x]]
      BY <1>1, <1>2, <1>7, <1>17, <2>2 DEF NodeInv, TypeOK
    <3>2. ~HandlerOf(d, x)
      BY <1>17, <3>1, NoneAssumption DEF NodeInv, Alone
    <3>3. CASE d = c
      BY <1>3, <1>8, <2>2, <3>3, NoneAssumption DEF HandlerOf
    <3>4. CASE d # c
      BY <1>8, <3>2, <3>4 DEF HandlerOf, Elsewhere
    <3> QED
      BY <3>3, <3>4
  <2> QED
    BY <2>1, <2>2
<1>18. Alone'
  BY <1>17 DEF Alone
<1>19. ASSUME NEW d \in Conns, handler'[d] \in Registered \ {"leaving"},
              scon'[who'[d]] = d, ~overlap'[d]
       PROVE  nodes[who'[d]] = d
  <2>1. d # c
    BY <1>8, <1>19 DEF Registered
  <2>2. handler[d] = handler'[d] /\ who'[d] = who[d] /\ ~overlap[d]
    BY <1>2, <1>8, <1>19, <2>1 DEF Elsewhere
  <2>3. who[d] \in Slaves
    BY <1>19, <2>2, OwnFacts DEF Known, Live, Registered
  <2>4. who[d] # s /\ scon[who[d]] = d
    BY <1>7, <1>19, <2>1, <2>2, <2>3
  <2> QED
    BY <1>19, <2>2, <2>4 DEF NodeInv, Entered
<1>20. Entered'
  BY <1>1, <1>19 DEF Entered
<1> QED
  BY <1>6, <1>11, <1>15, <1>16, <1>18, <1>20 DEF NodeInv

\* The slave closes its end, with whatever it had yet to read.
LEMMA LeaveKeeps ==
    ASSUME NodeInv, NEW s \in Slaves, NEW how \in {"down", "zombie"}, Leave(s, how),
           UNCHANGED <<handler, who, nodes, toMaster, cut, overlap>>,
           toSlave' \in [Conns -> Seq({"challenge", "ok", "error", "heartbeat"})],
           \A d \in Conns : toSlave'[d] = toSlave[d] \/ (d = scon[s] /\ ~cut[d])
    PROVE  NodeInv'
<1>1. /\ proc'[s] = how /\ scon'[s] = None
      /\ \A x \in Slaves \ {s} : proc'[x] = proc[x] /\ scon'[x] = scon[x]
  BY DEF Leave, NodeInv, TypeOK
<1>2. TypeOK'
  BY DEF Leave, NodeInv, TypeOK
<1>3. EndsInv'
  BY <1>1 DEF NodeInv, EndsInv
<1>4. ASSUME NEW d \in Conns PROVE PeerOK(d)' /\ ConnOK(d)'
  <2>1. PeerOK(d) /\ ConnOK(d)
    BY DEF NodeInv, ConnInv
  <2>2. PeerOK(d)'
    <3> SUFFICES ASSUME NEW x \in Slaves, scon'[x] = d
                 PROVE  /\ SlaveQueue(proc'[x], toSlave'[d])
                        /\ cut[d] \/ InStep(proc'[x], handler[d], toSlave'[d], toMaster[d])
      BY DEF PeerOK, SlaveQueue, InStep
    <3>1. x # s /\ proc'[x] = proc[x] /\ scon[x] = d
      BY <1>1, NoneAssumption
    <3>2. d # scon[s]
      BY <3>1, NoneAssumption DEF NodeInv, EndsInv
    <3> QED
      BY <2>1, <3>1, <3>2 DEF PeerOK
  <2>3. ConnOK(d)'
    BY <2>1 DEF ConnOK, MasterQueue, Known, IsAllowed
  <2> QED
    BY <2>2, <2>3
<1>5. ConnInv' /\ RegInv'
  BY <1>4 DEF NodeInv, ConnInv, RegInv
<1>6. Alone'
  <2>1. ASSUME NEW x \in Slaves, scon'[x] # None PROVE scon[x] = scon'[x]
    BY <1>1, <2>1
  <2>2. ASSUME NEW x \in Slaves, NEW d \in Conns, HandlerOf(d, x)' PROVE HandlerOf(d, x)
    BY <2>2 DEF HandlerOf
  <2> QED
    BY <2>1, <2>2 DEF NodeInv, Alone
<1>7. Entered'
  <2> SUFFICES ASSUME NEW d \in Conns, handler[d] \in Registered \ {"leaving"},
                      scon'[who[d]] = d, ~overlap[d]
               PROVE  nodes[who[d]] = d
    BY DEF Entered
  <2>1. who[d] \in Slaves
    BY OwnFacts DEF Known, Live, Registered
  <2>2. scon[who[d]] = d
    BY <1>1, <2>1, NoneAssumption
  <2> QED
    BY <2>2 DEF NodeInv, Entered
<1> QED
  BY <1>2, <1>3, <1>5, <1>6, <1>7 DEF NodeInv

\* The slave reads a packet and stays.
LEMMA StayKeeps ==
    ASSUME NodeInv, TypeOK', NEW s \in Slaves, NEW c \in Conns, scon[s] = c, ~cut[c],
           UNCHANGED <<scon, handler, who, nodes, cut, overlap>>,
           \A x \in Slaves \ {s} : proc'[x] = proc[x],
           \A d \in Conns \ {c} : toMaster'[d] = toMaster[d] /\ toSlave'[d] = toSlave[d],
           proc[s] \in {"hello", "proof", "running"}, proc'[s] \in {"hello", "proof", "running"},
           SlaveQueue(proc'[s], toSlave'[c]), MasterQueue(handler[c], toMaster'[c]),
           InStep(proc'[s], handler[c], toSlave'[c], toMaster'[c]),
           toMaster'[c] = toMaster[c] \/ toMaster'[c] = <<>> \/ Head(toMaster'[c]) \notin Slaves
               \/ (toMaster[c] # <<>> /\ Head(toMaster'[c]) = Head(toMaster[c]))
    PROVE  NodeInv'
<1>1. Elsewhere(c)
  BY DEF Elsewhere
<1>2. ASSUME NEW x \in Slaves
      PROVE  /\ scon[x] # c => proc'[x] = proc[x]
             /\ proc'[x] \in {"down", "zombie"} <=> proc[x] \in {"down", "zombie"}
  <2>1. CASE x = s
    BY <2>1
  <2>2. CASE x # s
    BY <2>2
  <2> QED
    BY <2>1, <2>2
<1>3. PeerOK(c)'
  <2> SUFFICES ASSUME NEW x \in Slaves, scon[x] = c
               PROVE  /\ SlaveQueue(proc'[x], toSlave'[c])
                      /\ InStep(proc'[x], handler[c], toSlave'[c], toMaster'[c])
    BY DEF PeerOK, SlaveQueue, InStep
  <2>1. x = s
    BY NoneAssumption DEF NodeInv, EndsInv
  <2> QED
    BY <2>1
<1>4. ConnOK(c)'
  BY OwnFacts DEF ConnOK, MasterQueue, Known, IsAllowed
<1>5. ASSUME NEW x \in Slaves, HandlerOf(c, x)' PROVE HandlerOf(c, x)
  BY <1>5 DEF HandlerOf
<1>6. EndsInv' /\ ConnInv' /\ Alone'
  BY <1>1, <1>2, <1>3, <1>4, <1>5, ConnStep
<1>7. RegInv' /\ Entered'
  BY DEF NodeInv, RegInv, Entered
<1> QED
  BY <1>6, <1>7 DEF NodeInv

\* The answer of a slave goes behind what the handler has yet to read.
LEMMA AnswerFacts ==
    ASSUME NodeInv, NEW s \in Slaves, NEW c \in Conns, ~cut[c],
           NEW p \in {"proof", "reply"}, Answer(s, c, p)
    PROVE  /\ toMaster' \in [Conns -> Seq(Slaves \cup {"proof", "reply"})]
           /\ \A d \in Conns \ {c} : toMaster'[d] = toMaster[d]
           /\ \/ handler[c] = "closed" /\ toMaster'[c] = toMaster[c]
              \/ /\ Len(toMaster'[c]) = Len(toMaster[c]) + 1
                 /\ toMaster'[c][Len(toMaster[c]) + 1] = p
                 /\ \A i \in 1..Len(toMaster[c]) : toMaster'[c][i] = toMaster[c][i]
           /\ \/ toMaster'[c] = toMaster[c] \/ Head(toMaster'[c]) \notin Slaves
              \/ toMaster[c] # <<>> /\ Head(toMaster'[c]) = Head(toMaster[c])
<1>1. toMaster[c] \in Seq(FromSlave) /\ p \in FromSlave
  BY OwnFacts DEF FromSlave
<1>2. CASE Unheard(c)
  BY <1>2 DEF Answer, Unheard, NodeInv, TypeOK
<1>3. CASE ~Unheard(c)
  <2> DEFINE q == Append(toMaster[c], p)
  <2>1. /\ q \in Seq(FromSlave) /\ Len(q) = Len(toMaster[c]) + 1
        /\ q[Len(toMaster[c]) + 1] = p
        /\ \A i \in 1..Len(toMaster[c]) : q[i] = toMaster[c][i]
    BY <1>1, AppendFacts
  <2>2. toMaster' = [toMaster EXCEPT ![c] = q]
    BY <1>3 DEF Answer
  <2> HIDE DEF q
  <2>3. /\ toMaster' \in [Conns -> Seq(Slaves \cup {"proof", "reply"})] /\ toMaster'[c] = q
        /\ \A d \in Conns \ {c} : toMaster'[d] = toMaster[d]
    BY <2>1, <2>2 DEF NodeInv, TypeOK, FromSlave
  <2>4. Head(q) \notin Slaves \/ (toMaster[c] # <<>> /\ Head(q) = Head(toMaster[c]))
    <3>1. q # <<>>
      <4>1. Len(toMaster[c]) \in Nat
        BY <1>1, EmptyFacts
      <4> QED
        BY <2>1, <4>1, EmptyFacts
    <3>2. Head(q) = q[1]
      BY <3>1, TailFacts
    <3>3. CASE toMaster[c] = <<>>
      <4>1. Len(toMaster[c]) = 0
        BY <1>1, <3>3, EmptyFacts
      <4>2. q[1] = p
        BY <2>1, <4>1
      <4> QED
        BY <3>2, <4>2, PacketAssumption
    <3>4. CASE toMaster[c] # <<>>
      <4>1. Len(toMaster[c]) \in Nat /\ Len(toMaster[c]) >= 1 /\ Head(toMaster[c]) = toMaster[c][1]
        BY <1>1, <3>4, TailFacts
      <4>2. q[1] = toMaster[c][1]
        BY <2>1, <4>1
      <4> QED
        BY <3>2, <3>4, <4>1, <4>2
    <3> QED
      BY <3>3, <3>4
  <2> QED
    BY <2>1, <2>3, <2>4
<1> QED
  BY <1>2, <1>3

\* The slave reads what it expects in its state, and answers what is expected.
LEMMA SlaveReadsKeeps == ASSUME NodeInv, NEW s \in Slaves, SlaveReads(s) PROVE NodeInv'
<1>1. PICK c \in Conns : c = scon[s]
  BY DEF SlaveReads, NodeInv, TypeOK
<1>2. PICK p : p = Head(toSlave[c])
  OBVIOUS
<1>3. /\ toSlave[c] # <<>> /\ toSlave' = [toSlave EXCEPT ![c] = Tail(toSlave[c])]
      /\ SlaveReadsChallenge(s, c, p) \/ SlaveReadsVerdict(s, c, p) \/ SlaveHandles(s, c, p)
      /\ UNCHANGED <<handler, who, nodes, cut, overlap>>
  BY <1>1, <1>2 DEF SlaveReads
<1>4. PICK toS \in Seq(FromMaster) : toS = Tail(toSlave[c])
  BY <1>3, OwnFacts, TailFacts
<1>5. /\ toSlave' \in [Conns -> Seq({"challenge", "ok", "error", "heartbeat"})]
      /\ toSlave'[c] = toS /\ \A d \in Conns \ {c} : toSlave'[d] = toSlave[d]
  BY <1>3, <1>4 DEF NodeInv, TypeOK, FromMaster
<1>6. ~cut[c] /\ Len(toSlave[c]) # 0 /\ p = toSlave[c][1]
  BY <1>2, <1>3, OwnFacts, EmptyFacts, TailFacts
<1>7. /\ SlaveQueue(proc[s], toSlave[c])
      /\ InStep(proc[s], handler[c], toSlave[c], toMaster[c])
  BY <1>1, <1>6, OwnFacts
<1>8. /\ proc[s] = "hello" => p \in {"challenge", "error"} /\ Len(toS) = 0 /\ SlaveQueue("proof", toS)
      /\ proc[s] = "proof" => p \in {"ok", "error"} /\ (p = "ok" => SlaveQueue("running", toS))
      /\ proc[s] = "running" => p = "heartbeat" /\ SlaveQueue("running", toS)
  BY <1>3, <1>4, <1>6, <1>7, OwnFacts, SlaveTakes
<1>9. ASSUME NEW how \in {"down", "zombie"}, Leave(s, how), UNCHANGED toMaster PROVE NodeInv'
  <2>1. \A d \in Conns : toSlave'[d] = toSlave[d] \/ (d = scon[s] /\ ~cut[d])
    BY <1>1, <1>5, <1>6
  <2> QED
    BY <1>3, <1>5, <1>9, <2>1, LeaveKeeps
<1>10. MasterQueue(handler[c], toMaster[c]) /\ toMaster[c] \in Seq(FromSlave)
       /\ Len(toMaster[c]) \in Nat
  BY OwnFacts, EmptyFacts
<1>11. CASE SlaveReadsChallenge(s, c, p)
  <2>1. proc[s] = "hello" /\ handler[c] \notin {"hello"} \cup Live
    BY <1>6, <1>7, <1>11 DEF SlaveReadsChallenge, InStep
  <2>2. CASE p # "challenge"
    BY <1>9, <1>11, <2>2 DEF SlaveReadsChallenge
  <2>3. CASE p = "challenge"
    <3>1. /\ proc' = [proc EXCEPT ![s] = "proof"] /\ Answer(s, c, "proof") /\ scon' = scon
      BY <1>11, <2>3 DEF SlaveReadsChallenge, Answer
    <3>2. /\ proc'[s] = "proof" /\ \A x \in Slaves \ {s} : proc'[x] = proc[x]
      BY <3>1 DEF NodeInv, TypeOK
    <3>3. /\ toMaster' \in [Conns -> Seq(Slaves \cup {"proof", "reply"})]
          /\ \A d \in Conns \ {c} : toMaster'[d] = toMaster[d]
          /\ \/ handler[c] = "closed" /\ toMaster'[c] = toMaster[c]
             \/ /\ Len(toMaster'[c]) = Len(toMaster[c]) + 1
                /\ toMaster'[c][Len(toMaster[c]) + 1] = "proof"
          /\ \/ toMaster'[c] = toMaster[c] \/ Head(toMaster'[c]) \notin Slaves
             \/ toMaster[c] # <<>> /\ Head(toMaster'[c]) = Head(toMaster[c])
      BY <1>6, <3>1, AnswerFacts
    <3>4. TypeOK'
      BY <1>3, <1>5, <3>1, <3>3 DEF NodeInv, TypeOK
    <3>5. MasterQueue(handler[c], toMaster'[c])
      <4>1. handler[c] = "challenged" => Len(toMaster[c]) = 0
        BY <1>7, <2>1 DEF InStep
      <4>2. CASE handler[c] = "challenged"
        <5>1. handler[c] # "closed" /\ Len(toMaster[c]) = 0
          BY <4>1, <4>2
        <5>2. /\ Len(toMaster'[c]) = Len(toMaster[c]) + 1
              /\ toMaster'[c][Len(toMaster[c]) + 1] = "proof"
          BY <3>3, <5>1
        <5>3. Len(toMaster'[c]) = 1 /\ toMaster'[c][1] = "proof"
          BY <5>1, <5>2
        <5> QED
          BY <4>2, <5>3 DEF MasterQueue, Live
      <4>3. CASE handler[c] # "challenged"
        BY <2>1, <4>3 DEF MasterQueue
      <4> QED
        BY <4>2, <4>3
    <3>6. SlaveQueue(proc'[s], toSlave'[c]) /\ InStep(proc'[s], handler[c], toSlave'[c], toMaster'[c])
      BY <1>5, <1>8, <2>1, <3>2 DEF InStep
    <3> QED
      BY <1>1, <1>3, <1>5, <1>6, <2>1, <3>1, <3>2, <3>3, <3>4, <3>5, <3>6, StayKeeps
  <2> QED
    BY <2>2, <2>3
<1>12. CASE SlaveReadsVerdict(s, c, p)
  <2>1. proc[s] = "proof" /\ handler[c] \notin {"hello", "challenged"} /\ toMaster' = toMaster
    BY <1>6, <1>7, <1>12 DEF SlaveReadsVerdict, InStep
  <2>2. CASE p # "ok"
    BY <1>9, <1>12, <2>1, <2>2 DEF SlaveReadsVerdict
  <2>3. CASE p = "ok"
    <3>1. proc' = [proc EXCEPT ![s] = "running"] /\ scon' = scon
      BY <1>12, <2>3 DEF SlaveReadsVerdict
    <3>2. /\ proc'[s] = "running" /\ \A x \in Slaves \ {s} : proc'[x] = proc[x]
      BY <3>1 DEF NodeInv, TypeOK
    <3>3. TypeOK'
      BY <1>3, <1>5, <2>1, <3>1 DEF NodeInv, TypeOK
    <3>4. SlaveQueue(proc'[s], toSlave'[c]) /\ InStep(proc'[s], handler[c], toSlave'[c], toMaster'[c])
      BY <1>5, <1>8, <2>1, <2>3, <3>2 DEF InStep
    <3>5. MasterQueue(handler[c], toMaster'[c])
      BY <1>10, <2>1
    <3> QED
      BY <1>1, <1>3, <1>5, <1>6, <2>1, <3>1, <3>2, <3>3, <3>4, <3>5, StayKeeps
  <2> QED
    BY <2>2, <2>3
<1>13. CASE SlaveHandles(s, c, p)
  <2>1. proc[s] = "running" /\ handler[c] \notin {"hello", "challenged"} /\ p = "heartbeat"
    BY <1>7, <1>8, <1>13 DEF SlaveHandles, InStep
  <2>2. CASE Leave(s, "zombie") /\ UNCHANGED toMaster
    BY <1>9, <2>2
  <2>3. CASE Answer(s, c, "reply") /\ UNCHANGED proc
    <3>1. scon' = scon
      BY <2>3 DEF Answer
    <3>2. /\ toMaster' \in [Conns -> Seq(Slaves \cup {"proof", "reply"})]
          /\ \A d \in Conns \ {c} : toMaster'[d] = toMaster[d]
          /\ \/ handler[c] = "closed" /\ toMaster'[c] = toMaster[c]
             \/ /\ Len(toMaster'[c]) = Len(toMaster[c]) + 1
                /\ toMaster'[c][Len(toMaster[c]) + 1] = "reply"
                /\ \A i \in 1..Len(toMaster[c]) : toMaster'[c][i] = toMaster[c][i]
          /\ \/ toMaster'[c] = toMaster[c] \/ Head(toMaster'[c]) \notin Slaves
             \/ toMaster[c] # <<>> /\ Head(toMaster'[c]) = Head(toMaster[c])
      BY <1>6, <2>3, AnswerFacts
    <3>3. TypeOK'
      BY <1>3, <1>5, <2>3, <3>1, <3>2 DEF NodeInv, TypeOK
    <3>4. SlaveQueue(proc'[s], toSlave'[c]) /\ InStep(proc'[s], handler[c], toSlave'[c], toMaster'[c])
      BY <1>5, <1>8, <2>1, <2>3 DEF InStep
    <3>5. MasterQueue(handler[c], toMaster'[c])
      <4>1. CASE handler[c] \in Live
        <5>1. \A i \in 1..Len(toMaster[c]) : toMaster[c][i] = "reply"
          BY <1>10, <4>1 DEF MasterQueue
        <5>2. handler[c] # "closed"
          BY <4>1 DEF Live
        <5>3. ASSUME NEW i \in 1..Len(toMaster'[c]) PROVE toMaster'[c][i] = "reply"
          BY <1>10, <3>2, <5>1, <5>2
        <5> QED
          BY <2>1, <5>3 DEF MasterQueue
      <4>2. CASE handler[c] \notin Live
        BY <2>1, <4>2 DEF MasterQueue
      <4> QED
        BY <4>1, <4>2
    <3> QED
      BY <1>1, <1>3, <1>5, <1>6, <2>1, <2>3, <3>1, <3>2, <3>3, <3>4, <3>5, StayKeeps
  <2> QED
    BY <1>13, <2>1, <2>2, <2>3 DEF SlaveHandles
<1> QED
  BY <1>3, <1>11, <1>12, <1>13

\* The slave finds the connection closed or cut, or dies.
LEMMA SlaveEndsKeeps ==
    ASSUME NodeInv, NEW s \in Slaves, SlaveReadError(s) \/ SlaveCrash(s) PROVE NodeInv'
<1>1. PICK how \in {"down", "zombie"} : Leave(s, how)
  BY DEF SlaveReadError, SlaveCrash
<1>2. UNCHANGED <<handler, who, nodes, toMaster, toSlave, cut, overlap>>
  BY DEF SlaveReadError, SlaveCrash
<1>3. toSlave' \in [Conns -> Seq({"challenge", "ok", "error", "heartbeat"})]
  BY <1>2 DEF NodeInv, TypeOK
<1>4. \A d \in Conns : toSlave'[d] = toSlave[d] \/ (d = scon[s] /\ ~cut[d])
  BY <1>2
<1> QED
  BY <1>1, <1>2, <1>3, <1>4, LeaveKeeps

-----------------------------------------------------------------------------
(* The theorems *)

\* Nobody is connected.
LEMMA InitInv == Init => NodeInv
<1> SUFFICES ASSUME Init PROVE NodeInv
  OBVIOUS
<1>1. /\ <<>> \in Seq(Slaves \cup {"proof", "reply"}) /\ Len(<<>>) = 0
      /\ <<>> \in Seq({"challenge", "ok", "error", "heartbeat"})
  BY EmptyFacts
<1>2. TypeOK
  BY <1>1 DEF Init, TypeOK
<1>3. EndsInv /\ RegInv /\ Alone
  BY DEF Init, EndsInv, RegInv, Alone
<1>4. ASSUME NEW c \in Conns PROVE PeerOK(c) /\ ConnOK(c)
  BY <1>1, NoneAssumption DEF Init, PeerOK, ConnOK, MasterQueue, Known, Live
<1>5. ConnInv /\ Entered
  BY <1>4 DEF Init, ConnInv, Entered, Registered
<1> QED
  BY <1>2, <1>3, <1>5 DEF NodeInv

\* Every step keeps the invariant.
LEMMA NextKeeps == NodeInv /\ [Next]_vars => NodeInv'
<1> SUFFICES ASSUME NodeInv, [Next]_vars PROVE NodeInv'
  OBVIOUS
<1>1. ASSUME NEW s \in Slaves, Slave(s) PROVE NodeInv'
  BY <1>1, DialKeeps, SlaveReadsKeeps, SlaveEndsKeeps DEF Slave
<1>2. ASSUME NEW c \in Conns, Handler(c) PROVE NodeInv'
  BY <1>2, ReadAuthHelloKeeps, ReadProofKeeps, MovesOnKeeps, RegisterNodeKeeps,
     SendHeartbeatKeeps, ReadReplyKeeps, UnregisterNodeKeeps, CloseConnKeeps DEF Handler
<1>3. ASSUME NEW c \in Conns, Cut(c) PROVE NodeInv'
  BY <1>3, CutKeeps
<1>4. CASE MasterRestart
  BY <1>4, MasterRestartKeeps
<1>5. CASE UNCHANGED vars
  <2>1. /\ UNCHANGED <<proc, scon, handler, who, nodes, toMaster, toSlave, cut, overlap>>
    BY <1>5 DEF vars
  <2>2. TypeOK' /\ EndsInv' /\ RegInv' /\ Entered'
    BY <2>1 DEF NodeInv, TypeOK, EndsInv, RegInv, Entered
  <2>3. ConnInv'
    BY <2>1 DEF NodeInv, ConnInv, PeerOK, ConnOK, SlaveQueue, InStep, MasterQueue, Known, IsAllowed
  <2>4. Alone'
    BY <2>1 DEF NodeInv, Alone, HandlerOf
  <2> QED
    BY <2>2, <2>3, <2>4 DEF NodeInv
<1> QED
  BY <1>1, <1>2, <1>3, <1>4, <1>5 DEF Next

(* However slaves, master and network fail, the two ends of a connection    *)
(* stay in step, and the registry follows the handlers.                     *)
THEOREM NodeInvariance == Spec => []NodeInv
<1>1. Init /\ [][Next]_vars => []NodeInv
  BY InitInv, NextKeeps, PTL
<1> QED
  BY <1>1, PTL DEF Spec

(* Processes, handlers, queues and the registry are well formed.            *)
THEOREM NodeTypeCorrect == Spec => []TypeOK
<1>1. NodeInv => TypeOK
  BY DEF NodeInv
<1> QED
  BY <1>1, NodeInvariance, PTL

(* For any slaves, whitelist and keys: what the registry holds is a live    *)
(* session of that slave, and the slave was admitted.                       *)
THEOREM RegistryThm == Spec => []RegistryHoldsLiveSessions
<1>1. NodeInv => RegistryHoldsLiveSessions
  <2> SUFFICES ASSUME NodeInv, NEW s \in Slaves, nodes[s] # None
               PROVE  /\ LiveHandler(nodes[s]) /\ who[nodes[s]] = s
                      /\ IsAllowed(s) /\ s \in GoodKeys
    BY DEF RegistryHoldsLiveSessions
  <2>1. nodes[s] \in Conns /\ handler[nodes[s]] \in Registered /\ who[nodes[s]] = s
    BY DEF NodeInv, RegInv, TypeOK
  <2> QED
    BY <2>1, OwnFacts DEF Known, Live, Registered, LiveHandler
<1> QED
  BY <1>1, NodeInvariance, PTL

(* Neither end reads a packet it does not expect in its state.              *)
THEOREM PacketsInOrderThm == Spec => []PacketsInOrder
<1>1. NodeInv => PacketsInOrder
  <2> SUFFICES ASSUME NodeInv PROVE PacketsInOrder
    OBVIOUS
  <2>1. ASSUME NEW s \in Slaves, scon[s] # None, toSlave[scon[s]] # <<>>
        PROVE  CASE proc[s] = "hello" -> Head(toSlave[scon[s]]) \in {"challenge", "error"}
                 [] proc[s] = "proof" -> Head(toSlave[scon[s]]) \in {"ok", "error"}
                 [] OTHER -> Head(toSlave[scon[s]]) = "heartbeat"
    <3>1. PICK c \in Conns : c = scon[s]
      BY <2>1 DEF NodeInv, TypeOK
    <3>2. toSlave[c] \in Seq(FromMaster) /\ toSlave[c] # <<>> /\ SlaveQueue(proc[s], toSlave[c])
      BY <2>1, <3>1, OwnFacts
    <3>3. proc[s] \in {"hello", "proof", "running"}
      BY <2>1 DEF NodeInv, EndsInv, TypeOK
    <3>4. Head(toSlave[c]) = toSlave[c][1]
      BY <3>2, TailFacts
    <3> QED
      BY <3>1, <3>2, <3>3, <3>4, SlaveTakes
  <2>2. ASSUME NEW c \in Conns, toMaster[c] # <<>>
        PROVE  CASE handler[c] = "hello" -> Head(toMaster[c]) \in Slaves
                 [] handler[c] = "challenged" -> Head(toMaster[c]) = "proof"
                 [] LiveHandler(c) -> Head(toMaster[c]) = "reply"
                 [] OTHER -> TRUE
    <3>1. toMaster[c] \in Seq(FromSlave) /\ MasterQueue(handler[c], toMaster[c])
      BY OwnFacts
    <3>2. Head(toMaster[c]) = toMaster[c][1]
      BY <2>2, <3>1, TailFacts
    <3>3. LiveHandler(c) <=> handler[c] \in Live
      BY DEF LiveHandler, Live
    <3>4. /\ handler[c] = "hello" => Head(toMaster[c]) \in Slaves
          /\ handler[c] = "challenged" => Head(toMaster[c]) = "proof"
          /\ LiveHandler(c) => Head(toMaster[c]) = "reply"
      BY <2>2, <3>1, <3>2, <3>3, MasterTakes
    <3> QED
      BY <3>4
  <2> QED
    BY <2>1, <2>2 DEF PacketsInOrder
<1> QED
  BY <1>1, NodeInvariance, PTL

(* A slave that serves a session is listed and reached under it, unless it  *)
(* dialled before the handler of its previous session had ended.            *)
THEOREM ConnectedNodeThm == Spec => []ConnectedNodeIsRegistered
<1>1. NodeInv => ConnectedNodeIsRegistered
  BY DEF NodeInv, Entered, ConnectedNodeIsRegistered, Serving, Registered
<1> QED
  BY <1>1, NodeInvariance, PTL

=============================================================================
