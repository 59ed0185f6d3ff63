------------------------- MODULE CommandPathProofs -------------------------
(***************************************************************************)
(* CommandPath implements CommandPromise and keeps the order of a session, *)
(* for any pages and any number of sessions on either link.                *)
(***************************************************************************)
EXTENDS CommandPath, Functions, TLAPS

\* The command that the reader of a session has read and not yet written.
Held(c) == IF reader[c] = "found" THEN {serving[c]} ELSE {}

\* The commands that have not yet come to the slave's connection.
AtMaster == {r \in Commands : \E c \in Upper : r \in Range(toMaster[c]) \cup Held(c)}

\* The commands the slave has still to read, and those it has run.
AtSlave == {r \in Commands : \E d \in Lower : r \in Range(toSlave[d])}
Ran == Range(done)

Unwritten == {r \in Commands : page[r] \in {"idle", "routed"}}

\* Nothing carries the command any more, and it was not run.
Dead(r) == r \notin AtMaster \cup AtSlave \cup Ran \cup Unwritten

\* Only the session that the slave's process reads carries anything to it.
SlaveInv ==
    /\ alive \subseteq {slave}
    /\ \A d \in Lower : d # slave => toSlave[d] = <<>>

\* A command stays in the session in which it was written.
SessionInv ==
    \A c \in Upper :
        /\ \A r \in Range(toMaster[c]) : via[r] = c
        /\ reader[c] \in {"found", "wait"} =>
              /\ serving[c] \in Commands \ Unwritten /\ via[serving[c]] = c
              /\ serving[c] \notin Range(toMaster[c])

\* It is in one place at most, and in none before it is written.
OnceInv ==
    /\ \A c \in Upper : IsInjective(toMaster[c])
    /\ \A d \in Lower : IsInjective(toSlave[d])
    /\ AtMaster \cap (AtSlave \cup Ran) = {} /\ AtSlave \cap Ran = {}
    /\ Unwritten \cap (AtMaster \cup AtSlave \cup Ran \cup Range(sent)) = {}

\* What a reply says of its command is true, and stays true.
Truth(r, how) ==
    /\ how = "replied" => r \in Ran
    /\ how = "refused" => Dead(r)

ReplyInv ==
    /\ \A r \in Commands : Truth(r, page[r])
    /\ \A c \in Upper : \A m \in Range(toOrch[c]) : Truth(m.cmd, m.how)
    /\ \A d \in Lower : Range(toNode[d]) \subseteq Ran
    /\ job # None => job \in Ran

\* A command never overtakes one that was written before it.
Behind(a, b) ==
    /\ \A c \in Upper : /\ ~Before(toMaster[c], b, a)
                        /\ b \in Held(c) => a \notin Range(toMaster[c])
    /\ \A d \in Lower : ~Before(toSlave[d], b, a)
    /\ ~Before(done, b, a)
    /\ b \in AtSlave => a \notin AtMaster
    /\ b \in Ran => a \notin AtMaster \cup AtSlave

OrderInv ==
    \A a, b \in Commands : Before(sent, a, b) /\ via[a] = via[b] => Behind(a, b)

PathInv == TypeOK /\ SlaveInv /\ SessionInv /\ OnceInv /\ ReplyInv /\ OrderInv

-----------------------------------------------------------------------------
(* What is in a queue after a packet was written to it.                     *)
LEMMA AppendFacts ==
    ASSUME NEW S, NEW s \in Seq(S), NEW x \in S
    PROVE  /\ Append(s, x) \in Seq(S)
           /\ Range(Append(s, x)) = Range(s) \cup {x}
           /\ IsInjective(s) /\ x \notin Range(s) => IsInjective(Append(s, x))
           /\ \A a, b : Before(Append(s, x), a, b) => Before(s, a, b) \/ (a \in Range(s) /\ b = x)
<1>1. /\ Append(s, x) \in Seq(S)
      /\ Len(Append(s, x)) = Len(s) + 1 /\ Len(s) \in Nat
      /\ DOMAIN Append(s, x) = 1..(Len(s) + 1) /\ DOMAIN s = 1..Len(s)
      /\ \A i \in 1..Len(s) : Append(s, x)[i] = s[i]
      /\ Append(s, x)[Len(s) + 1] = x
  OBVIOUS
<1>2. Range(Append(s, x)) = Range(s) \cup {x}
  BY <1>1 DEF Range
<1>3. IsInjective(s) /\ x \notin Range(s) => IsInjective(Append(s, x))
  BY <1>1 DEF IsInjective, Range
<1>4. \A a, b : Before(Append(s, x), a, b) => Before(s, a, b) \/ (a \in Range(s) /\ b = x)
  <2> SUFFICES ASSUME NEW a, NEW b, NEW i \in 1..Len(Append(s, x)), NEW j \in 1..Len(Append(s, x)),
                      i < j, Append(s, x)[i] = a, Append(s, x)[j] = b
               PROVE  Before(s, a, b) \/ (a \in Range(s) /\ b = x)
    BY DEF Before
  <2>1. i \in 1..Len(s) /\ a = s[i] /\ a \in Range(s)
    BY <1>1 DEF Range
  <2>2. CASE j = Len(s) + 1
    BY <1>1, <2>1, <2>2
  <2>3. CASE j \in 1..Len(s)
    BY <1>1, <2>1, <2>3 DEF Before
  <2> QED
    BY <1>1, <2>2, <2>3
<1> QED
  BY <1>1, <1>2, <1>3, <1>4

(* What is in a queue before and after its oldest packet was read.          *)
LEMMA TailFacts ==
    ASSUME NEW S, NEW s \in Seq(S), s # <<>>
    PROVE  /\ Head(s) \in S /\ Tail(s) \in Seq(S)
           /\ Range(s) = Range(Tail(s)) \cup {Head(s)}
           /\ IsInjective(s) => IsInjective(Tail(s)) /\ Head(s) \notin Range(Tail(s))
           /\ \A a, b : Before(Tail(s), a, b) => Before(s, a, b)
           /\ \A b \in Range(Tail(s)) : Before(s, Head(s), b)
<1>1. /\ Head(s) \in S /\ Tail(s) \in Seq(S)
      /\ Len(s) \in Nat /\ Len(s) > 0 /\ Len(Tail(s)) = Len(s) - 1
      /\ DOMAIN Tail(s) = 1..(Len(s) - 1) /\ DOMAIN s = 1..Len(s)
      /\ Head(s) = s[1]
      /\ \A i \in 1..(Len(s) - 1) : Tail(s)[i] = s[i + 1]
  OBVIOUS
<1>2. Range(s) = Range(Tail(s)) \cup {Head(s)}
  <2>1. \A i \in 1..Len(s) : i = 1 \/ (i - 1 \in 1..(Len(s) - 1) /\ Tail(s)[i - 1] = s[i])
    BY <1>1
  <2>2. \A i \in 1..(Len(s) - 1) : i + 1 \in 1..Len(s)
    BY <1>1
  <2>3. ASSUME NEW x \in Range(s), x # Head(s) PROVE x \in Range(Tail(s))
    <3>1. PICK i \in 1..Len(s) : x = s[i]
      BY <1>1 DEF Range
    <3>2. i - 1 \in DOMAIN Tail(s) /\ Tail(s)[i - 1] = x
      BY <1>1, <2>1, <2>3, <3>1
    <3> QED
      BY <3>2 DEF Range
  <2>4. Head(s) \in Range(s) /\ \A x \in Range(Tail(s)) : x \in Range(s)
    BY <1>1, <2>2 DEF Range
  <2> QED
    BY <2>3, <2>4
<1>3. IsInjective(s) => IsInjective(Tail(s)) /\ Head(s) \notin Range(Tail(s))
  BY <1>1 DEF IsInjective, Range
<1>4. \A a, b : Before(Tail(s), a, b) => Before(s, a, b)
  BY <1>1 DEF Before
<1>5. \A b \in Range(Tail(s)) : Before(s, Head(s), b)
  BY <1>1 DEF Before, Range
<1> QED
  BY <1>1, <1>2, <1>3, <1>4, <1>5

(* An empty queue holds nothing.                                            *)
LEMMA EmptyFacts ==
    /\ \A S : <<>> \in Seq(S)
    /\ Range(<<>>) = {} /\ IsInjective(<<>>)
    /\ \A a, b : ~Before(<<>>, a, b)
BY DEF Range, IsInjective, Before

(* Of two packets in a queue one is before the other.                       *)
LEMMA BeforeFacts ==
    ASSUME NEW S, NEW s \in Seq(S), NEW a, NEW b, Before(s, a, b)
    PROVE  a \in Range(s) /\ b \in Range(s)
BY DEF Before, Range

-----------------------------------------------------------------------------
(* The two sorts of session numbers.                                        *)
LEMMA SessionNumbers ==
    /\ Upper \subseteq 0..MaxUpper /\ 0 \notin Upper /\ 0 \in 0..MaxUpper
    /\ Lower \subseteq 0..MaxLower /\ 0 \notin Lower /\ 0 \in 0..MaxLower
    /\ \A c \in 0..MaxUpper : c # 0 => c \in Upper
    /\ \A d \in 0..MaxLower : d # 0 => d \in Lower
    /\ \A c \in 0..MaxUpper : c < MaxUpper => c + 1 \in Upper
    /\ \A d \in 0..MaxLower : d < MaxLower => d + 1 \in Lower
BY BoundsAssumption DEF Upper, Lower

(* A reply that the reader of a session writes keeps the types, for the     *)
(* command it answers.                                                      *)
LEMMA ReturnType ==
    ASSUME TypeOK, NEW c \in Upper, NEW r \in Commands,
           NEW how \in {"replied", "refused", "unknown"}, Return(c, r, how)
    PROVE  /\ toOrch' \in [Upper -> Seq(Replies)]
           /\ reader' \in [Upper -> {"ended", "read", "found", "wait"}]
           /\ serving' \in [Upper -> Commands \cup {None}] /\ on' \in [Upper -> 0..MaxLower]
<1>1. [cmd |-> r, how |-> how] \in Replies /\ toOrch[c] \in Seq(Replies)
  BY DEF Replies, TypeOK
<1>2. Append(toOrch[c], [cmd |-> r, how |-> how]) \in Seq(Replies)
  BY <1>1, AppendFacts
<1>3. toOrch' \in [Upper -> Seq(Replies)]
  BY <1>2 DEF TypeOK, Return
<1> QED
  BY <1>3, SessionNumbers DEF TypeOK, Return, SetReader

(* Every step of the pages, the readers, the slave and the sessions keeps   *)
(* the types.                                                               *)
LEMMA PathType == TypeOK /\ SessionInv /\ [Next]_vars => TypeOK'
<1> SUFFICES ASSUME TypeOK, SessionInv, [Next]_vars PROVE TypeOK'
  OBVIOUS
<1> USE DEF pageVars, upperVars, readerVars, lowerVars, slaveVars
<1>e. <<>> \in Seq(Commands) /\ <<>> \in Seq(Replies) /\ 0 \in 0..MaxUpper /\ 0 \in 0..MaxLower
  BY EmptyFacts, SessionNumbers
<1>1. ASSUME NEW r \in Commands, PageRoutes(r) PROVE TypeOK'
  BY <1>1 DEF PageRoutes, SetPage, TypeOK
<1>2. ASSUME NEW r \in Commands, PageWrites(r) PROVE TypeOK'
  <2>1. CASE via[r] \in live
    <3>1. via[r] \in Upper /\ toMaster[via[r]] \in Seq(Commands) /\ sent \in Seq(Commands)
      BY <2>1 DEF TypeOK
    <3>2. /\ Append(toMaster[via[r]], r) \in Seq(Commands)
          /\ Append(sent, r) \in Seq(Commands)
      BY <3>1, AppendFacts
    <3> QED
      BY <1>2, <2>1, <3>1, <3>2 DEF PageWrites, SetPage, TypeOK
  <2>2. CASE via[r] \notin live
    BY <1>2, <2>2 DEF PageWrites, SetPage, TypeOK
  <2> QED
    BY <2>1, <2>2
<1>3. ASSUME NEW r \in Commands, PageTimesOut(r) PROVE TypeOK'
  BY <1>3 DEF PageTimesOut, SetPage, TypeOK
<1>4. ASSUME NEW c \in Upper, OrchReads(c) PROVE TypeOK'
  <2>1. Head(toOrch[c]) \in Replies /\ Tail(toOrch[c]) \in Seq(Replies)
    BY <1>4, TailFacts DEF OrchReads, TypeOK
  <2>2. /\ Head(toOrch[c]).cmd \in Commands
        /\ Head(toOrch[c]).how \in {"replied", "refused", "unknown"}
    BY <2>1 DEF Replies
  <2>3. toOrch' \in [Upper -> Seq(Replies)]
    BY <1>4, <2>1 DEF OrchReads, TypeOK
  <2> QED
    BY <1>4, <2>2, <2>3 DEF OrchReads, SetPage, TypeOK
<1>5. ASSUME NEW c \in Upper, ReadCommand(c) PROVE TypeOK'
  <2>1. Head(toMaster[c]) \in Commands /\ Tail(toMaster[c]) \in Seq(Commands)
    BY <1>5, TailFacts DEF ReadCommand, TypeOK
  <2>2. toMaster' \in [Upper -> Seq(Commands)]
    BY <1>5, <2>1 DEF ReadCommand, TypeOK
  <2>3. CASE node = 0
    <3>1. Return(c, Head(toMaster[c]), "refused")
      BY <1>5, <2>3 DEF ReadCommand
    <3> QED
      BY <1>5, <2>1, <2>2, <3>1, ReturnType DEF ReadCommand, TypeOK
  <2>4. CASE node # 0
    <3> DEFINE r == Head(toMaster[c])
    <3>1. SetReader(c, "found", r, node) /\ toOrch' = toOrch
      BY <1>5, <2>4 DEF ReadCommand
    <3>2. r \in Commands
      BY <2>1
    <3> HIDE DEF r
    <3>3. /\ reader' \in [Upper -> {"ended", "read", "found", "wait"}]
          /\ serving' \in [Upper -> Commands \cup {None}] /\ on' \in [Upper -> 0..MaxLower]
      BY <3>1, <3>2 DEF SetReader, TypeOK
    <3> QED
      BY <1>5, <2>2, <3>1, <3>3 DEF ReadCommand, TypeOK
  <2> QED
    BY <2>3, <2>4
<1>6. ASSUME NEW c \in Upper, WriteCommand(c) PROVE TypeOK'
  <2>1. serving[c] \in Commands
    BY <1>6 DEF WriteCommand, SessionInv
  <2>2. CASE Return(c, serving[c], "refused") /\ UNCHANGED toSlave
    BY <1>6, <2>1, <2>2, ReturnType DEF WriteCommand, TypeOK
  <2>3. CASE /\ toSlave' = IF on[c] \in alive THEN [toSlave EXCEPT ![on[c]] = Append(@, serving[c])]
                           ELSE toSlave
             /\ SetReader(c, "wait", serving[c], on[c])
             /\ UNCHANGED toOrch
    <3>1. toSlave' \in [Lower -> Seq(Commands)]
      BY <2>1, <2>3, AppendFacts DEF TypeOK
    <3> QED
      BY <1>6, <2>3, <3>1 DEF WriteCommand, SetReader, TypeOK
  <2> QED
    BY <1>6, <2>2, <2>3 DEF WriteCommand
<1>7. ASSUME NEW c \in Upper, NodeTimesOut(c) PROVE TypeOK'
  <2>1. serving[c] \in Commands /\ Return(c, serving[c], "unknown")
    BY <1>7 DEF NodeTimesOut, SessionInv
  <2> QED
    BY <1>7, <2>1, ReturnType DEF NodeTimesOut, TypeOK
<1>8. ASSUME NEW d \in Lower, NodeReplies(d) PROVE TypeOK'
  <2>1. toNode' \in [Lower -> Seq(Commands)]
    BY <1>8, TailFacts DEF NodeReplies, TypeOK
  <2>2. ASSUME NEW c \in Upper, reader[c] = "wait", Return(c, serving[c], "replied") PROVE TypeOK'
    <3>1. serving[c] \in Commands
      BY <2>2 DEF SessionInv
    <3> QED
      BY <1>8, <2>1, <2>2, <3>1, ReturnType DEF NodeReplies, TypeOK
  <2>3. CASE UNCHANGED <<toOrch, reader, serving, on>>
    BY <1>8, <2>1, <2>3 DEF NodeReplies, TypeOK
  <2> QED
    BY <1>8, <2>2, <2>3 DEF NodeReplies
<1>9. ASSUME NEW c \in Upper, ReaderEnds(c) PROVE TypeOK'
  BY <1>9, <1>e DEF ReaderEnds, SetReader, TypeOK
<1>10. CASE SlaveRuns
  <2>1. slave \in Lower /\ toSlave[slave] # <<>>
    BY <1>10, SessionNumbers DEF SlaveRuns, TypeOK
  <2>2. Head(toSlave[slave]) \in Commands /\ Tail(toSlave[slave]) \in Seq(Commands)
    BY <2>1, TailFacts DEF TypeOK
  <2>3. done' \in Seq(Commands)
    BY <1>10, <2>2, AppendFacts DEF SlaveRuns, TypeOK
  <2> QED
    BY <1>10, <2>1, <2>2, <2>3 DEF SlaveRuns, TypeOK
<1>11. CASE SlaveReplies
  <2>1. job \in Commands
    BY <1>11 DEF SlaveReplies, TypeOK
  <2>2. toNode' \in [Lower -> Seq(Commands)]
    BY <1>11, <2>1, AppendFacts DEF SlaveReplies, TypeOK
  <2> QED
    BY <1>11, <2>2 DEF SlaveReplies, TypeOK
<1>12. CASE SlaveStops
  <2>1. slave \in Lower
    BY <1>12, SessionNumbers DEF SlaveStops, TypeOK
  <2> QED
    BY <1>12, <1>e, <2>1 DEF SlaveStops, TypeOK
<1>13. CASE UpperBegins
  <2>1. upper + 1 \in Upper /\ upper + 1 \in 0..MaxUpper
    BY <1>13, SessionNumbers DEF UpperBegins, TypeOK
  <2> QED
    BY <1>13, <2>1 DEF UpperBegins, TypeOK
<1>14. CASE LowerBegins
  <2>1. lower + 1 \in Lower /\ lower + 1 \in 0..MaxLower
    BY <1>14, SessionNumbers DEF LowerBegins, TypeOK
  <2> QED
    BY <1>14, <2>1 DEF LowerBegins, TypeOK
<1>15. ASSUME NEW c \in Upper, DropUpper(c) PROVE TypeOK'
  BY <1>15 DEF DropUpper, TypeOK
<1>16. ASSUME NEW c \in Upper, UpperEnds(c) PROVE TypeOK'
  BY <1>16, <1>e DEF UpperEnds, TypeOK
<1>17. ASSUME NEW d \in Lower, DropLower(d) PROVE TypeOK'
  BY <1>17 DEF DropLower, TypeOK
<1>18. ASSUME NEW d \in Lower, LowerEnds(d) PROVE TypeOK'
  BY <1>18, <1>e DEF LowerEnds, TypeOK
<1>19. CASE MasterRestarts
  BY <1>19, <1>e DEF MasterRestarts, TypeOK
<1>20. CASE OrchRestarts
  BY <1>20, <1>e DEF OrchRestarts, TypeOK
<1>21. CASE UNCHANGED vars
  BY <1>21 DEF vars, TypeOK
<1> QED
  BY <1>1, <1>2, <1>3, <1>4, <1>5, <1>6, <1>7, <1>8, <1>9, <1>10, <1>11, <1>12, <1>13, <1>14,
     <1>15, <1>16, <1>17, <1>18, <1>19, <1>20, <1>21
  DEF Next, Page, Reader, Slave

-----------------------------------------------------------------------------
\* A queue after packets were read from it or lost.
Fewer(t, s) ==
    /\ Range(t) \subseteq Range(s)
    /\ IsInjective(s) => IsInjective(t)
    /\ \A a, b : Before(t, a, b) => Before(s, a, b)

\* A reader that takes no new command.
ReaderDrops(c) ==
    \/ reader'[c] \in {"read", "ended"}
    \/ serving'[c] = serving[c] /\ reader'[c] = reader[c]
    \/ serving'[c] = serving[c] /\ reader[c] = "found" /\ reader'[c] = "wait"

\* A page that writes nothing, and is told nothing but the truth.
PageHears(r) ==
    \/ page'[r] = page[r]
    \/ page'[r] = "routed" /\ r \in Unwritten
    \/ page'[r] \notin {"idle", "routed"} /\ Truth(r, page'[r])
    \/ page'[r] \in {"waiting", "refused", "unknown"} /\ r \in Unwritten

(* A queue that is empty, unchanged or has lost its oldest packet.          *)
LEMMA FewerFacts ==
    ASSUME NEW S, NEW s \in Seq(S)
    PROVE  Fewer(s, s) /\ Fewer(<<>>, s) /\ (s # <<>> => Fewer(Tail(s), s))
<1>1. Fewer(s, s)
  BY DEF Fewer
<1>2. Fewer(<<>>, s)
  BY EmptyFacts DEF Fewer
<1>3. s # <<>> => Fewer(Tail(s), s)
  BY TailFacts DEF Fewer
<1> QED
  BY <1>1, <1>2, <1>3

(* A step that moves no command forward keeps the invariant, as long as the *)
(* replies it adds are true: pages that give up or are refused, sessions    *)
(* that begin, are dropped or end, processes that die.                      *)
LEMMA LossKeeps ==
    ASSUME PathInv, TypeOK', SlaveInv', done' = done, sent' = sent,
           \A r \in Commands : r \in Unwritten \/ via'[r] = via[r],
           \A r \in Commands : PageHears(r),
           \A c \in Upper : Fewer(toMaster'[c], toMaster[c]) /\ ReaderDrops(c),
           \A d \in Lower : Fewer(toSlave'[d], toSlave[d]),
           \A c \in Upper : \A m \in Range(toOrch'[c]) :
               m \in Range(toOrch[c]) \/ Truth(m.cmd, m.how)',
           \A d \in Lower : Range(toNode'[d]) \subseteq Ran,
           job' # None => job' \in Ran
    PROVE  PathInv'
<1>1. \A c \in Upper : Held(c)' \subseteq Held(c)
  BY DEF ReaderDrops, Held
<1>2. AtMaster' \subseteq AtMaster
  BY <1>1 DEF AtMaster, Fewer
<1>3. AtSlave' \subseteq AtSlave
  BY DEF AtSlave, Fewer
<1>4. Ran' = Ran
  BY DEF Ran
<1>5. Unwritten' \subseteq Unwritten
  BY DEF Unwritten, PageHears
<1>6. /\ \A c \in Upper : Range(toMaster[c]) \subseteq AtMaster
      /\ Range(sent) \subseteq Commands \ Unwritten
      /\ AtMaster \subseteq Commands \ Unwritten
  <2>1. \A c \in Upper : Range(toMaster[c]) \subseteq Commands
    BY SMTT(20) DEF PathInv, TypeOK, Range
  <2>2. Range(sent) \subseteq Commands
    BY DEF PathInv, TypeOK, Range
  <2> QED
    BY <2>1, <2>2 DEF AtMaster, PathInv, OnceInv
<1>7. SessionInv'
  <2> SUFFICES ASSUME NEW c \in Upper
               PROVE  /\ \A r \in Range(toMaster'[c]) : via'[r] = c
                      /\ reader'[c] \in {"found", "wait"} =>
                            /\ serving'[c] \in Commands \ Unwritten' /\ via'[serving'[c]] = c
                            /\ serving'[c] \notin Range(toMaster'[c])
    BY DEF SessionInv
  <2>1. \A r \in Range(toMaster'[c]) : via'[r] = c
    BY <1>6 DEF Fewer, PathInv, SessionInv
  <2>2. ASSUME reader'[c] \in {"found", "wait"}
        PROVE  /\ serving'[c] \in Commands \ Unwritten' /\ via'[serving'[c]] = c
               /\ serving'[c] \notin Range(toMaster'[c])
    <3>1. serving'[c] = serving[c] /\ reader[c] \in {"found", "wait"}
      BY <2>2 DEF ReaderDrops
    <3> QED
      BY <1>5, <3>1 DEF Fewer, PathInv, SessionInv
  <2> QED
    BY <2>1, <2>2
<1>8. OnceInv'
  BY <1>2, <1>3, <1>4, <1>5 DEF PathInv, OnceInv, Fewer
<1>9. \A r : Dead(r) => Dead(r)'
  BY <1>2, <1>3, <1>4, <1>5 DEF Dead
<1>10. \A r, how : Truth(r, how) => Truth(r, how)'
  BY <1>4, <1>9 DEF Truth
<1>11. ReplyInv'
  <2>1. ASSUME NEW r \in Commands PROVE Truth(r, page[r])'
    <3>1. CASE page'[r] \in {"idle", "routed", "waiting", "unknown"}
      BY <3>1 DEF Truth
    <3>2. CASE page'[r] \in {"replied", "refused"} /\ (page'[r] = page[r] \/ Truth(r, page'[r]))
      <4>1. Truth(r, page'[r])
        BY <3>2 DEF PathInv, ReplyInv
      <4>2. Truth(r, page'[r]) => (Truth(r, page[r]))'
        BY <1>4, <1>9 DEF Truth
      <4> QED
        BY <4>1, <4>2
    <3>3. CASE page'[r] = "refused" /\ r \in Unwritten
      <4>1. r \notin Unwritten'
        BY <3>3 DEF Unwritten
      <4>2. r \notin AtMaster \cup AtSlave \cup Ran
        BY <3>3 DEF PathInv, OnceInv
      <4>3. Dead(r)'
        BY <1>2, <1>3, <1>4, <4>1, <4>2 DEF Dead
      <4> QED
        BY <3>3, <4>3 DEF Truth
    <3>4. page'[r] \in {"idle", "routed", "waiting", "replied", "refused", "unknown"}
      BY DEF TypeOK
    <3> QED
      BY <3>1, <3>2, <3>3, <3>4 DEF PageHears
  <2>2. ASSUME NEW c \in Upper, NEW m \in Range(toOrch'[c]) PROVE Truth(m.cmd, m.how)'
    BY <1>10 DEF PathInv, ReplyInv
  <2> QED
    BY <1>4, <2>1, <2>2 DEF ReplyInv
<1>12. OrderInv'
  <2> SUFFICES ASSUME NEW a \in Commands, NEW b \in Commands,
                      Before(sent, a, b), via'[a] = via'[b]
               PROVE  Behind(a, b)'
    BY DEF OrderInv
  <2>1. a \in Range(sent) /\ b \in Range(sent)
    BY BeforeFacts DEF PathInv, TypeOK
  <2>2. via[a] = via[b]
    BY <1>6, <2>1
  <2>3. Behind(a, b)
    BY <2>2 DEF PathInv, OrderInv
  <2> QED
    BY <1>1, <1>2, <1>3, <1>4, <2>3 DEF Behind, Fewer
<1> QED
  BY <1>7, <1>8, <1>11, <1>12 DEF PathInv

(* What is left of the queues when packets are read or lost.                *)
LEMMA QueueFacts ==
    ASSUME TypeOK
    PROVE  /\ \A c \in Upper : /\ Fewer(toMaster[c], toMaster[c]) /\ Fewer(<<>>, toMaster[c])
                               /\ toMaster[c] # <<>> => Fewer(Tail(toMaster[c]), toMaster[c])
                               /\ toOrch[c] # <<>> => /\ Head(toOrch[c]) \in Range(toOrch[c])
                                                      /\ Fewer(Tail(toOrch[c]), toOrch[c])
           /\ \A d \in Lower : /\ Fewer(toSlave[d], toSlave[d]) /\ Fewer(<<>>, toSlave[d])
                               /\ toNode[d] # <<>> => Fewer(Tail(toNode[d]), toNode[d])
                               /\ toNode[d] # <<>> => Head(toNode[d]) \in Range(toNode[d])
<1>1. ASSUME NEW c \in Upper
      PROVE  /\ Fewer(toMaster[c], toMaster[c]) /\ Fewer(<<>>, toMaster[c])
             /\ toMaster[c] # <<>> => Fewer(Tail(toMaster[c]), toMaster[c])
             /\ toOrch[c] # <<>> => /\ Head(toOrch[c]) \in Range(toOrch[c])
                                    /\ Fewer(Tail(toOrch[c]), toOrch[c])
  <2>1. toMaster[c] \in Seq(Commands) /\ toOrch[c] \in Seq(Replies)
    BY DEF TypeOK
  <2> QED
    BY <2>1, FewerFacts, TailFacts
<1>2. ASSUME NEW d \in Lower
      PROVE  /\ Fewer(toSlave[d], toSlave[d]) /\ Fewer(<<>>, toSlave[d])
             /\ toNode[d] # <<>> => Fewer(Tail(toNode[d]), toNode[d])
             /\ toNode[d] # <<>> => Head(toNode[d]) \in Range(toNode[d])
  <2>1. toSlave[d] \in Seq(Commands) /\ toNode[d] \in Seq(Commands)
    BY DEF TypeOK
  <2> QED
    BY <2>1, FewerFacts, TailFacts
<1> QED
  BY <1>1, <1>2

(* A page is routed, refused, told of an outcome or gives up.               *)
LEMMA PageLossKeeps ==
    ASSUME PathInv, TypeOK', NEW r \in Commands,
           PageRoutes(r) \/ PageTimesOut(r) \/ (PageWrites(r) /\ via[r] \notin live)
    PROVE  PathInv'
<1> USE DEF pageVars, upperVars, readerVars, lowerVars, slaveVars
<1>1. /\ UNCHANGED <<done, sent, toMaster, reader, serving, toSlave, toOrch, toNode, job, alive,
                     slave>>
      /\ \A x \in Commands : x \in Unwritten \/ via'[x] = via[x]
      /\ \A x \in Commands : PageHears(x)
  <2>1. CASE PageRoutes(r)
    BY <2>1 DEF PageRoutes, SetPage, PageHears, Unwritten, PathInv, TypeOK
  <2>2. CASE PageTimesOut(r)
    BY <2>2 DEF PageTimesOut, SetPage, PageHears, Truth, PathInv, TypeOK
  <2>3. CASE PageWrites(r) /\ via[r] \notin live
    BY <2>3 DEF PageWrites, SetPage, PageHears, Unwritten, PathInv, TypeOK
  <2> QED
    BY <2>1, <2>2, <2>3
<1>2. SlaveInv'
  BY <1>1 DEF PathInv, SlaveInv
<1>3. \A c \in Upper : Fewer(toMaster'[c], toMaster[c]) /\ ReaderDrops(c)
  BY <1>1, QueueFacts DEF PathInv, ReaderDrops
<1>4. \A d \in Lower : Fewer(toSlave'[d], toSlave[d])
  BY <1>1, QueueFacts DEF PathInv
<1>5. /\ \A d \in Lower : Range(toNode'[d]) \subseteq Ran
      /\ job' # None => job' \in Ran
  BY <1>1 DEF PathInv, ReplyInv
<1> QED
  BY <1>1, <1>2, <1>3, <1>4, <1>5, LossKeeps

(* The orchestrator reads a reply, for a page that waits or for none.       *)
LEMMA OrchReadsKeeps ==
    ASSUME PathInv, TypeOK', NEW c \in Upper, OrchReads(c)
    PROVE  PathInv'
<1> USE DEF pageVars, upperVars, readerVars, lowerVars, slaveVars
<1>1. UNCHANGED <<done, sent, via, toMaster, reader, serving, toSlave, toNode, job, alive, slave>>
  BY DEF OrchReads
<1> DEFINE m == Head(toOrch[c])
<1>2. /\ m \in Range(toOrch[c]) /\ m \in Replies
      /\ Range(Tail(toOrch[c])) \subseteq Range(toOrch[c])
  <2>1. toOrch[c] \in Seq(Replies) /\ toOrch[c] # <<>>
    BY DEF OrchReads, PathInv, TypeOK
  <2> QED
    BY <2>1, TailFacts
<1>3. \A e \in Upper : Range(toOrch'[e]) \subseteq Range(toOrch[e])
  BY <1>2 DEF OrchReads, PathInv, TypeOK
<1>4. \A x \in Commands : PageHears(x)
  <2>1. Truth(m.cmd, m.how) /\ m.cmd \in Commands /\ m.how \notin {"idle", "routed"}
    BY <1>2 DEF PathInv, ReplyInv, Replies
  <2>2. page' = page \/ page' = [page EXCEPT ![m.cmd] = m.how]
    BY DEF OrchReads, SetPage
  <2> QED
    BY <2>1, <2>2 DEF PageHears, PathInv, TypeOK
<1>5. SlaveInv'
  BY <1>1 DEF PathInv, SlaveInv
<1>6. \A e \in Upper : Fewer(toMaster'[e], toMaster[e]) /\ ReaderDrops(e)
  BY <1>1, QueueFacts DEF PathInv, ReaderDrops
<1>7. \A d \in Lower : Fewer(toSlave'[d], toSlave[d])
  BY <1>1, QueueFacts DEF PathInv
<1>8. /\ \A d \in Lower : Range(toNode'[d]) \subseteq Ran
      /\ job' # None => job' \in Ran
  BY <1>1 DEF PathInv, ReplyInv
<1> QED
  BY <1>1, <1>3, <1>4, <1>5, <1>6, <1>7, <1>8, LossKeeps

(* A session or a process begins, ends or dies.                             *)
LEMMA SessionsKeep ==
    ASSUME PathInv, TypeOK',
           \/ UpperBegins \/ LowerBegins \/ MasterRestarts \/ OrchRestarts \/ SlaveStops
           \/ \E c \in Upper : ReaderEnds(c) \/ DropUpper(c) \/ UpperEnds(c)
           \/ \E d \in Lower : DropLower(d) \/ LowerEnds(d)
           \/ UNCHANGED vars
    PROVE  PathInv'
<1> USE DEF pageVars, upperVars, readerVars, lowerVars, slaveVars
<1> DEFINE Loses == /\ UNCHANGED <<done, sent, via>> /\ job' \in {job, None}
                    /\ \A r \in Commands : page'[r] \in {page[r], "unknown"}
                    /\ \A c \in Upper : /\ toMaster'[c] \in {toMaster[c], <<>>}
                                        /\ toOrch'[c] \in {toOrch[c], <<>>}
                                        /\ \/ reader'[c] \in {"read", "ended"}
                                           \/ reader'[c] = reader[c] /\ serving'[c] = serving[c]
                    /\ \A d \in Lower : /\ toSlave'[d] \in {toSlave[d], <<>>}
                                        /\ toNode'[d] \in {toNode[d], <<>>}
<1>1. ASSUME UpperBegins PROVE Loses /\ SlaveInv'
  <2>1. Loses
    BY <1>1 DEF UpperBegins, PathInv, TypeOK
  <2>2. SlaveInv'
    BY <1>1 DEF UpperBegins, PathInv, SlaveInv
  <2> QED
    BY <2>1, <2>2
<1>2. ASSUME LowerBegins PROVE Loses /\ SlaveInv'
  <2>1. Loses
    BY <1>2 DEF LowerBegins
  <2>2. SlaveInv'
    BY <1>2, SessionNumbers DEF LowerBegins, PathInv, SlaveInv, TypeOK
  <2> QED
    BY <2>1, <2>2
<1>3. ASSUME MasterRestarts PROVE Loses /\ SlaveInv'
  <2>1. Loses
    BY <1>3 DEF MasterRestarts
  <2>2. SlaveInv'
    BY <1>3 DEF MasterRestarts, PathInv, SlaveInv
  <2> QED
    BY <2>1, <2>2
<1>4. ASSUME OrchRestarts PROVE Loses /\ SlaveInv'
  <2>1. Loses
    BY <1>4 DEF OrchRestarts
  <2>2. SlaveInv'
    BY <1>4 DEF OrchRestarts, PathInv, SlaveInv
  <2> QED
    BY <2>1, <2>2
<1>5. ASSUME SlaveStops PROVE Loses /\ SlaveInv'
  <2>1. Loses
    BY <1>5 DEF SlaveStops, PathInv, TypeOK
  <2>2. SlaveInv'
    BY <1>5 DEF SlaveStops, PathInv, SlaveInv, TypeOK
  <2> QED
    BY <2>1, <2>2
<1>6. ASSUME NEW c \in Upper, ReaderEnds(c) \/ DropUpper(c) \/ UpperEnds(c)
      PROVE  Loses /\ SlaveInv'
  <2>1. CASE ReaderEnds(c)
    BY <2>1 DEF ReaderEnds, SetReader, PathInv, TypeOK, SlaveInv
  <2>2. CASE DropUpper(c)
    BY <2>2 DEF DropUpper, PathInv, SlaveInv
  <2>3. CASE UpperEnds(c)
    BY <2>3 DEF UpperEnds, PathInv, TypeOK, SlaveInv
  <2> QED
    BY <1>6, <2>1, <2>2, <2>3
<1>7. ASSUME NEW d \in Lower, DropLower(d) \/ LowerEnds(d)
      PROVE  Loses /\ SlaveInv'
  <2>1. Loses
    BY <1>7 DEF DropLower, LowerEnds, PathInv, TypeOK
  <2>2. SlaveInv'
    BY <1>7 DEF DropLower, LowerEnds, PathInv, SlaveInv
  <2> QED
    BY <2>1, <2>2
<1>8. ASSUME UNCHANGED vars PROVE Loses /\ SlaveInv'
  BY <1>8 DEF vars, PathInv, SlaveInv
<1>9. Loses /\ SlaveInv'
  BY <1>1, <1>2, <1>3, <1>4, <1>5, <1>6, <1>7, <1>8
<1>10. \A r \in Commands : PageHears(r)
  BY <1>9 DEF PageHears, Truth
<1>11. \A c \in Upper : Fewer(toMaster'[c], toMaster[c]) /\ ReaderDrops(c)
  BY <1>9, QueueFacts DEF PathInv, ReaderDrops
<1>12. \A d \in Lower : Fewer(toSlave'[d], toSlave[d])
  BY <1>9, QueueFacts DEF PathInv
<1>13. \A c \in Upper : \A m \in Range(toOrch'[c]) : m \in Range(toOrch[c])
  BY <1>9, EmptyFacts
<1>14. /\ \A d \in Lower : Range(toNode'[d]) \subseteq Ran
       /\ job' # None => job' \in Ran
  BY <1>9, EmptyFacts DEF PathInv, ReplyInv
<1> HIDE DEF Loses
<1>15. UNCHANGED <<done, sent, via>>
  BY <1>9 DEF Loses
<1> QED
  BY <1>9, <1>10, <1>11, <1>12, <1>13, <1>14, <1>15, LossKeeps

(* A reply of a reader keeps the invariant if it is true afterwards.        *)
LEMMA ReturnKeeps ==
    ASSUME PathInv, TypeOK', NEW c \in Upper, NEW r \in Commands,
           NEW how \in {"replied", "refused", "unknown"}, Return(c, r, how), Truth(r, how)',
           UNCHANGED <<page, via, sent, done, toSlave, alive, slave, job>>,
           \A e \in Upper : Fewer(toMaster'[e], toMaster[e]),
           \A d \in Lower : Fewer(toNode'[d], toNode[d])
    PROVE  PathInv'
<1>1. \A e \in Upper : \A m \in Range(toOrch'[e]) :
          m \in Range(toOrch[e]) \/ Truth(m.cmd, m.how)'
  <2> SUFFICES ASSUME NEW e \in Upper, NEW m \in Range(toOrch'[e]), m \notin Range(toOrch[e])
               PROVE  Truth(m.cmd, m.how)'
    OBVIOUS
  <2>1. e = c /\ toOrch'[e] = Append(toOrch[c], [cmd |-> r, how |-> how])
    BY DEF Return, PathInv, TypeOK
  <2>2. [cmd |-> r, how |-> how] \in Replies /\ toOrch[c] \in Seq(Replies)
    BY DEF Replies, PathInv, TypeOK
  <2>3. m = [cmd |-> r, how |-> how]
    BY <2>1, <2>2, AppendFacts
  <2>4. m.cmd = r /\ m.how = how
    BY <2>3
  <2> QED
    BY <2>4
<1>2. \A e \in Upper : ReaderDrops(e)
  BY DEF Return, SetReader, ReaderDrops, PathInv, TypeOK
<1>3. SlaveInv'
  BY DEF PathInv, SlaveInv
<1>4. \A x \in Commands : PageHears(x)
  BY DEF PageHears
<1>5. \A d \in Lower : Fewer(toSlave'[d], toSlave[d])
  BY QueueFacts DEF PathInv
<1>6. /\ \A d \in Lower : Range(toNode'[d]) \subseteq Ran
      /\ job' # None => job' \in Ran
  BY DEF PathInv, ReplyInv, Fewer
<1> QED
  BY <1>1, <1>2, <1>3, <1>4, <1>5, <1>6, LossKeeps

(* A slave's reply, passed on or dropped, and the reader's timeout.         *)
LEMMA NodeAnswersKeep ==
    ASSUME PathInv, TypeOK',
           (\E d \in Lower : NodeReplies(d)) \/ (\E c \in Upper : NodeTimesOut(c))
    PROVE  PathInv'
<1> USE DEF pageVars, upperVars, readerVars, lowerVars, slaveVars
<1>1. ASSUME NEW d \in Lower, NodeReplies(d) PROVE PathInv'
  <2>1. UNCHANGED <<page, via, sent, done, toSlave, toMaster, alive, slave, job>>
    BY <1>1 DEF NodeReplies
  <2>2. /\ \A e \in Upper : Fewer(toMaster'[e], toMaster[e])
        /\ \A e \in Lower : Fewer(toSlave'[e], toSlave[e])
    BY <2>1, QueueFacts DEF PathInv
  <2>3. toNode[d] # <<>> /\ Head(toNode[d]) \in Range(toNode[d])
    BY <1>1, QueueFacts DEF NodeReplies, PathInv
  <2>4. \A e \in Lower : Fewer(toNode'[e], toNode[e])
    <3>1. Fewer(Tail(toNode[d]), toNode[d])
      BY <2>3, QueueFacts DEF PathInv
    <3>2. \A e \in Lower : toNode'[e] = IF e = d THEN Tail(toNode[d]) ELSE toNode[e]
      BY <1>1 DEF NodeReplies, PathInv, TypeOK
    <3> QED
      BY <3>1, <3>2 DEF Fewer
  <2>5. ASSUME NEW c \in Upper, reader[c] = "wait", serving[c] = Head(toNode[d]),
               Return(c, serving[c], "replied")
        PROVE  PathInv'
    <3>1. PICK r \in Commands : r = serving[c] /\ r \in Ran
      BY <2>3, <2>5 DEF PathInv, SessionInv, ReplyInv
    <3>2. Truth(r, "replied")'
      BY <2>1, <3>1 DEF Truth, Ran
    <3>3. Return(c, r, "replied")
      BY <2>5, <3>1
    <3> QED
      BY <2>1, <2>2, <2>4, <3>2, <3>3, ReturnKeeps
  <2>6. CASE UNCHANGED <<toOrch, reader, serving, on>>
    <3>1. \A e \in Upper : ReaderDrops(e)
      BY <2>6 DEF ReaderDrops
    <3>2. /\ SlaveInv' /\ \A x \in Commands : PageHears(x)
      BY <2>1 DEF PathInv, SlaveInv, PageHears
    <3>3. /\ \A e \in Lower : Range(toNode'[e]) \subseteq Ran
          /\ job' # None => job' \in Ran
      BY <2>1, <2>4 DEF PathInv, ReplyInv, Fewer
    <3> QED
      BY <2>1, <2>2, <2>6, <3>1, <3>2, <3>3, LossKeeps
  <2> QED
    BY <1>1, <2>5, <2>6 DEF NodeReplies
<1>2. ASSUME NEW c \in Upper, NodeTimesOut(c) PROVE PathInv'
  <2>1. /\ UNCHANGED <<page, via, sent, done, toSlave, toMaster, toNode, alive, slave, job>>
        /\ Return(c, serving[c], "unknown")
    BY <1>2 DEF NodeTimesOut
  <2>2. /\ \A e \in Upper : Fewer(toMaster'[e], toMaster[e])
        /\ \A e \in Lower : Fewer(toNode'[e], toNode[e])
    BY <2>1 DEF Fewer
  <2>3. PICK r \in Commands : r = serving[c]
    BY <1>2 DEF NodeTimesOut, PathInv, SessionInv
  <2>4. Truth(r, "unknown")' /\ Return(c, r, "unknown")
    BY <2>1, <2>3 DEF Truth
  <2> QED
    BY <2>1, <2>2, <2>4, ReturnKeeps
<1> QED
  BY <1>1, <1>2

(* The slave's reply is about a command that it has run.                    *)
LEMMA SlaveRepliesKeeps ==
    ASSUME PathInv, TypeOK', SlaveReplies
    PROVE  PathInv'
<1> USE DEF pageVars, upperVars, readerVars, lowerVars, slaveVars
<1>1. UNCHANGED <<page, via, sent, done, toMaster, toOrch, reader, serving, toSlave, alive, slave>>
  BY DEF SlaveReplies
<1>2. job \in Commands /\ job \in Ran /\ job' = None
  BY DEF SlaveReplies, PathInv, TypeOK, ReplyInv
<1>3. \A d \in Lower : Range(toNode'[d]) \subseteq Ran
  <2> SUFFICES ASSUME NEW d \in Lower PROVE Range(toNode'[d]) \subseteq Ran
    OBVIOUS
  <2>1. toNode'[d] = toNode[d] \/ toNode'[d] = Append(toNode[d], job)
    BY DEF SlaveReplies, PathInv, TypeOK
  <2>2. toNode[d] \in Seq(Commands)
    BY DEF PathInv, TypeOK
  <2>3. Range(Append(toNode[d], job)) = Range(toNode[d]) \cup {job}
    BY <1>2, <2>2, AppendFacts
  <2> QED
    BY <1>2, <2>1, <2>3 DEF PathInv, ReplyInv
<1>4. SlaveInv' /\ \A r \in Commands : PageHears(r)
  BY <1>1 DEF PathInv, SlaveInv, PageHears
<1>5. \A c \in Upper : Fewer(toMaster'[c], toMaster[c]) /\ ReaderDrops(c)
  BY <1>1 DEF Fewer, ReaderDrops
<1>6. \A d \in Lower : Fewer(toSlave'[d], toSlave[d])
  BY <1>1 DEF Fewer
<1> QED
  BY <1>1, <1>2, <1>3, <1>4, <1>5, <1>6, LossKeeps

-----------------------------------------------------------------------------
(* The steps that move a command forward. *)

(* A page writes its command, the last of its session.                      *)
LEMMA PageWritesKeeps ==
    ASSUME PathInv, TypeOK', NEW r \in Commands, PageWrites(r), via[r] \in live
    PROVE  PathInv'
<1> USE DEF pageVars, upperVars, readerVars, lowerVars, slaveVars
<1> DEFINE v == via[r]
<1>1. /\ UNCHANGED <<via, done, toOrch, reader, serving, toSlave, toNode, job, alive, slave>>
      /\ page' = [page EXCEPT ![r] = "waiting"] /\ page[r] = "routed"
      /\ toMaster' = [toMaster EXCEPT ![v] = Append(@, r)] /\ sent' = Append(sent, r)
  BY DEF PageWrites, SetPage
<1>2. v \in Upper /\ toMaster[v] \in Seq(Commands) /\ sent \in Seq(Commands)
  BY DEF PathInv, TypeOK
<1>3. /\ Range(toMaster'[v]) = Range(toMaster[v]) \cup {r}
      /\ IsInjective(toMaster[v]) /\ r \notin Range(toMaster[v]) => IsInjective(toMaster'[v])
      /\ \A a, b : Before(toMaster'[v], a, b) =>
            Before(toMaster[v], a, b) \/ (a \in Range(toMaster[v]) /\ b = r)
      /\ \A c \in Upper : c # v => toMaster'[c] = toMaster[c]
  <2>1. toMaster'[v] = Append(toMaster[v], r) /\ \A c \in Upper : c # v => toMaster'[c] = toMaster[c]
    BY <1>1, <1>2 DEF PathInv, TypeOK
  <2> QED
    BY <1>2, <2>1, AppendFacts
<1>4. /\ Range(sent') = Range(sent) \cup {r}
      /\ \A a, b : Before(sent', a, b) => Before(sent, a, b) \/ (a \in Range(sent) /\ b = r)
  BY <1>1, <1>2, AppendFacts
<1>5. r \in Unwritten /\ Unwritten' = Unwritten \ {r}
  BY <1>1 DEF Unwritten, PathInv, TypeOK
<1>6. \A c \in Upper : Held(c)' = Held(c)
  BY <1>1 DEF Held
<1>7. AtMaster' = AtMaster \cup {r}
  BY <1>2, <1>3, <1>6 DEF AtMaster
<1>8. AtSlave' = AtSlave /\ Ran' = Ran
  BY <1>1 DEF AtSlave, Ran
<1>9. r \notin AtMaster \cup AtSlave \cup Ran \cup Range(sent)
  BY <1>5 DEF PathInv, OnceInv
<1>10. \A c \in Upper : r \notin Range(toMaster[c]) \cup Held(c)
  BY <1>9 DEF AtMaster
<1>11. SlaveInv'
  BY <1>1 DEF PathInv, SlaveInv
<1>12. SessionInv'
  <2> SUFFICES ASSUME NEW c \in Upper
               PROVE  /\ \A x \in Range(toMaster'[c]) : via[x] = c
                      /\ reader[c] \in {"found", "wait"} =>
                            /\ serving[c] \in Commands \ Unwritten' /\ via[serving[c]] = c
                            /\ serving[c] \notin Range(toMaster'[c])
    BY <1>1 DEF SessionInv
  <2> QED
    BY <1>3, <1>5 DEF PathInv, SessionInv
<1>13. OnceInv'
  <2>1. \A c \in Upper : IsInjective(toMaster'[c])
    BY <1>3, <1>10, <1>2 DEF PathInv, OnceInv
  <2> QED
    BY <1>1, <1>4, <1>5, <1>7, <1>8, <1>9, <2>1 DEF PathInv, OnceInv
<1>14. ReplyInv'
  <2>1. \A x : Dead(x) => Dead(x)'
    BY <1>5, <1>7, <1>8 DEF Dead
  <2>2. \A x, how : Truth(x, how) => Truth(x, how)'
    BY <1>8, <2>1 DEF Truth
  <2>3. \A x \in Commands : Truth(x, page[x])'
    <3> SUFFICES ASSUME NEW x \in Commands PROVE Truth(x, page[x])'
      OBVIOUS
    <3>1. CASE x = r
      BY <1>1, <3>1 DEF Truth, PathInv, TypeOK
    <3>2. CASE x # r
      <4>1. page'[x] = page[x] /\ Truth(x, page[x])
        BY <1>1, <3>2 DEF PathInv, TypeOK, ReplyInv
      <4> QED
        BY <1>8, <2>1, <4>1 DEF Truth
    <3> QED
      BY <3>1, <3>2
  <2> QED
    BY <1>1, <1>8, <2>2, <2>3 DEF PathInv, ReplyInv
<1>15. OrderInv'
  <2> SUFFICES ASSUME NEW a \in Commands, NEW b \in Commands, Before(sent', a, b), via[a] = via[b]
               PROVE  Behind(a, b)'
    BY <1>1 DEF OrderInv
  <2>1. a # r
    <3>1. Before(sent, a, b) => a \in Range(sent)
      BY <1>2, BeforeFacts
    <3> QED
      BY <1>4, <1>9, <3>1
  <2>2. CASE b = r
    <3>1. \A c \in Upper : ~Before(toMaster'[c], r, a)
      <4> SUFFICES ASSUME NEW c \in Upper, Before(toMaster'[c], r, a) PROVE FALSE
        OBVIOUS
      <4>1. Before(toMaster[c], r, a) \/ r \in Range(toMaster[c])
        BY <1>3
      <4>2. r \in Range(toMaster[c])
        BY <4>1, BeforeFacts DEF PathInv, TypeOK
      <4> QED
        BY <1>10, <4>2
    <3>2. /\ \A d \in Lower : ~Before(toSlave[d], r, a)
          /\ ~Before(done, r, a)
      <4>1. \A d \in Lower : r \notin Range(toSlave[d])
        BY <1>9 DEF AtSlave
      <4> QED
        BY <1>9, <4>1, BeforeFacts DEF Ran, PathInv, TypeOK
    <3> QED
      BY <1>1, <1>6, <1>8, <1>9, <1>10, <2>2, <3>1, <3>2 DEF Behind
  <2>3. CASE b # r
    <3>1. Behind(a, b)
      BY <1>4, <2>3 DEF PathInv, OrderInv
    <3>2. \A c \in Upper : ~Before(toMaster'[c], b, a)
      BY <1>3, <2>1, <3>1 DEF Behind
    <3>3. \A c \in Upper : b \in Held(c)' => a \notin Range(toMaster'[c])
      BY <1>3, <1>6, <2>1, <3>1 DEF Behind
    <3> QED
      BY <1>1, <1>7, <1>8, <2>1, <3>1, <3>2, <3>3 DEF Behind
  <2> QED
    BY <2>2, <2>3
<1> QED
  BY <1>11, <1>12, <1>13, <1>14, <1>15 DEF PathInv

(* A reader takes the oldest command of its session.                        *)
LEMMA ReadCommandKeeps ==
    ASSUME PathInv, TypeOK', NEW c \in Upper, ReadCommand(c)
    PROVE  PathInv'
<1> USE DEF pageVars, upperVars, readerVars, lowerVars, slaveVars
<1>1. /\ UNCHANGED <<page, via, sent, done, toSlave, toNode, job, alive, slave>>
      /\ toMaster[c] # <<>> /\ toMaster' = [toMaster EXCEPT ![c] = Tail(@)]
      /\ reader[c] = "read"
  BY DEF ReadCommand
<1>2. toMaster[c] \in Seq(Commands)
  BY DEF PathInv, TypeOK
<1>3. PICK r \in Commands : r = Head(toMaster[c])
  BY <1>1, <1>2, TailFacts
<1>4. /\ Range(toMaster[c]) = Range(toMaster'[c]) \cup {r}
      /\ IsInjective(toMaster'[c]) /\ r \notin Range(toMaster'[c])
      /\ \A a, b : Before(toMaster'[c], a, b) => Before(toMaster[c], a, b)
      /\ \A b \in Range(toMaster'[c]) : Before(toMaster[c], r, b)
      /\ \A e \in Upper : e # c => toMaster'[e] = toMaster[e]
  <2>1. toMaster'[c] = Tail(toMaster[c]) /\ \A e \in Upper : e # c => toMaster'[e] = toMaster[e]
    BY <1>1 DEF PathInv, TypeOK
  <2>2. IsInjective(toMaster[c])
    BY DEF PathInv, OnceInv
  <2> QED
    BY <1>1, <1>2, <1>3, <2>1, <2>2, TailFacts
<1>5. /\ r \in AtMaster /\ r \notin AtSlave \cup Ran \cup Unwritten /\ via[r] = c
  BY <1>4 DEF AtMaster, PathInv, OnceInv, SessionInv
<1>6. \A e \in Upper : r \notin Range(toMaster'[e]) \cup Held(e)
  <2> SUFFICES ASSUME NEW e \in Upper PROVE r \notin Range(toMaster'[e]) \cup Held(e)
    OBVIOUS
  <2>1. CASE e = c
    BY <1>1, <1>4, <2>1 DEF Held
  <2>2. CASE e # c
    BY <1>4, <1>5, <2>2 DEF PathInv, SessionInv, Held
  <2> QED
    BY <2>1, <2>2
<1>7. AtSlave' = AtSlave /\ Ran' = Ran /\ Unwritten' = Unwritten
  BY <1>1 DEF AtSlave, Ran, Unwritten
<1>8. CASE node = 0
  <2>1. Return(c, r, "refused")
    BY <1>3, <1>8 DEF ReadCommand
  <2>2. \A e \in Upper : Held(e)' \subseteq Held(e)
    BY <2>1 DEF Return, SetReader, Held, PathInv, TypeOK
  <2>3. r \notin AtMaster'
    BY <1>6, <2>2 DEF AtMaster
  <2>4. Truth(r, "refused")'
    BY <1>5, <1>7, <2>3 DEF Truth, Dead
  <2>5. \A e \in Upper : Fewer(toMaster'[e], toMaster[e])
    BY <1>4 DEF Fewer
  <2>6. \A d \in Lower : Fewer(toNode'[d], toNode[d])
    BY <1>1 DEF Fewer
  <2> QED
    BY <1>1, <2>1, <2>4, <2>5, <2>6, ReturnKeeps
<1>9. CASE node # 0
  <2>1. /\ reader' = [reader EXCEPT ![c] = "found"] /\ serving' = [serving EXCEPT ![c] = r]
        /\ UNCHANGED toOrch
    BY <1>3, <1>9 DEF ReadCommand, SetReader
  <2>2. /\ reader'[c] = "found" /\ serving'[c] = r
        /\ \A e \in Upper : e # c => reader'[e] = reader[e] /\ serving'[e] = serving[e]
    BY <2>1 DEF PathInv, TypeOK
  <2>3. /\ Held(c)' = {r} /\ Held(c) = {} /\ \A e \in Upper : e # c => Held(e)' = Held(e)
    BY <1>1, <2>2 DEF Held
  <2>4. AtMaster' = AtMaster
    BY <1>4, <2>3 DEF AtMaster
  <2>5. SlaveInv'
    BY <1>1 DEF PathInv, SlaveInv
  <2>6. SessionInv'
    <3> SUFFICES ASSUME NEW e \in Upper
                 PROVE  /\ \A x \in Range(toMaster'[e]) : via[x] = e
                        /\ reader'[e] \in {"found", "wait"} =>
                              /\ serving'[e] \in Commands \ Unwritten /\ via[serving'[e]] = e
                              /\ serving'[e] \notin Range(toMaster'[e])
      BY <1>1, <1>7 DEF SessionInv
    <3>1. CASE e = c
      BY <1>4, <1>5, <2>2, <3>1 DEF PathInv, SessionInv
    <3>2. CASE e # c
      BY <1>4, <2>2, <3>2 DEF PathInv, SessionInv
    <3> QED
      BY <3>1, <3>2
  <2>7. OnceInv'
    BY <1>1, <1>4, <1>7, <2>4 DEF PathInv, OnceInv
  <2>8. ReplyInv'
    BY <1>1, <1>7, <2>1, <2>4 DEF PathInv, ReplyInv, Truth, Dead
  <2>9. OrderInv'
    <3> SUFFICES ASSUME NEW a \in Commands, NEW b \in Commands, Before(sent, a, b), via[a] = via[b]
                 PROVE  Behind(a, b)'
      BY <1>1 DEF OrderInv
    <3>1. Behind(a, b)
      BY DEF PathInv, OrderInv
    <3>2. \A e \in Upper : ~Before(toMaster'[e], b, a)
      BY <1>4, <3>1 DEF Behind
    <3>3. \A e \in Upper : b \in Held(e)' => a \notin Range(toMaster'[e])
      <4>1. b = r => a \notin Range(toMaster'[c])
        BY <1>4, <3>1 DEF Behind
      <4> QED
        BY <1>4, <2>3, <3>1, <4>1 DEF Behind
    <3> QED
      BY <1>1, <1>7, <2>4, <3>1, <3>2, <3>3 DEF Behind
  <2> QED
    BY <2>5, <2>6, <2>7, <2>8, <2>9 DEF PathInv
<1> QED
  BY <1>8, <1>9

(* A reader writes its command to the slave's session, or fails to.         *)
LEMMA WriteCommandKeeps ==
    ASSUME PathInv, TypeOK', NEW c \in Upper, WriteCommand(c)
    PROVE  PathInv'
<1> USE DEF pageVars, upperVars, readerVars, lowerVars, slaveVars
<1>1. /\ UNCHANGED <<page, via, sent, done, toMaster, toNode, job, alive, slave>>
      /\ reader[c] = "found"
  BY DEF WriteCommand
<1>2. PICK r \in Commands : r = serving[c]
  BY <1>1 DEF PathInv, SessionInv
<1>3. /\ r \in AtMaster /\ r \notin AtSlave \cup Ran \cup Unwritten /\ via[r] = c
      /\ Held(c) = {r}
  BY <1>1, <1>2 DEF AtMaster, Held, PathInv, OnceInv, SessionInv
<1>4. \A e \in Upper : r \notin Range(toMaster[e]) /\ (e # c => r \notin Held(e))
  BY <1>1, <1>2, <1>3 DEF PathInv, SessionInv, Held
<1>5. Ran' = Ran /\ Unwritten' = Unwritten
  BY <1>1 DEF Ran, Unwritten
<1>6. CASE Return(c, serving[c], "refused") /\ UNCHANGED toSlave
  <2>1. Return(c, r, "refused")
    BY <1>2, <1>6
  <2>2. Held(c)' = {} /\ \A e \in Upper : e # c => Held(e)' = Held(e)
    BY <2>1 DEF Return, SetReader, Held, PathInv, TypeOK
  <2>3. r \notin AtMaster'
    BY <1>1, <1>4, <2>2 DEF AtMaster
  <2>4. Truth(r, "refused")'
    BY <1>3, <1>5, <1>6, <2>3 DEF Truth, Dead, AtSlave
  <2>5. /\ \A e \in Upper : Fewer(toMaster'[e], toMaster[e])
        /\ \A d \in Lower : Fewer(toNode'[d], toNode[d])
    BY <1>1 DEF Fewer
  <2> QED
    BY <1>1, <1>6, <2>1, <2>4, <2>5, ReturnKeeps
<1>7. CASE SetReader(c, "wait", serving[c], on[c]) /\ UNCHANGED <<toOrch, toSlave>>
  <2>1. \A e \in Upper : ReaderDrops(e)
    BY <1>1, <1>7 DEF SetReader, ReaderDrops, PathInv, TypeOK
  <2>2. /\ SlaveInv' /\ \A x \in Commands : PageHears(x)
    BY <1>1, <1>7 DEF PathInv, SlaveInv, PageHears
  <2>3. /\ \A d \in Lower : Range(toNode'[d]) \subseteq Ran
        /\ job' # None => job' \in Ran
    BY <1>1 DEF PathInv, ReplyInv
  <2>4. /\ \A e \in Upper : Fewer(toMaster'[e], toMaster[e])
        /\ \A d \in Lower : Fewer(toSlave'[d], toSlave[d])
    BY <1>1, <1>7 DEF Fewer
  <2> QED
    BY <1>1, <1>7, <2>1, <2>2, <2>3, <2>4, LossKeeps
<1>8. CASE /\ on[c] \in alive /\ toSlave' = [toSlave EXCEPT ![on[c]] = Append(@, serving[c])]
           /\ SetReader(c, "wait", serving[c], on[c]) /\ UNCHANGED toOrch
  <2> DEFINE d == on[c]
  <2>1. d \in Lower /\ d = slave /\ toSlave[d] \in Seq(Commands)
    BY <1>8 DEF PathInv, TypeOK, SlaveInv
  <2>2. /\ Range(toSlave'[d]) = Range(toSlave[d]) \cup {r}
        /\ IsInjective(toSlave[d]) /\ r \notin Range(toSlave[d]) => IsInjective(toSlave'[d])
        /\ \A a, b : Before(toSlave'[d], a, b) =>
              Before(toSlave[d], a, b) \/ (a \in Range(toSlave[d]) /\ b = r)
        /\ \A e \in Lower : e # d => toSlave'[e] = toSlave[e]
    <3>1. toSlave'[d] = Append(toSlave[d], r) /\ \A e \in Lower : e # d => toSlave'[e] = toSlave[e]
      BY <1>2, <1>8, <2>1 DEF PathInv, TypeOK
    <3> QED
      BY <2>1, <3>1, AppendFacts
  <2>3. /\ reader'[c] = "wait" /\ serving'[c] = r
        /\ \A e \in Upper : e # c => reader'[e] = reader[e] /\ serving'[e] = serving[e]
    BY <1>2, <1>8 DEF SetReader, PathInv, TypeOK
  <2>4. Held(c)' = {} /\ \A e \in Upper : e # c => Held(e)' = Held(e)
    BY <2>3 DEF Held
  <2>5. AtMaster' = AtMaster \ {r}
    BY <1>1, <1>3, <1>4, <2>4 DEF AtMaster
  <2>6. AtSlave' = AtSlave \cup {r}
    BY <2>1, <2>2 DEF AtSlave
  <2>7. SlaveInv'
    BY <1>1, <2>1, <2>2 DEF PathInv, SlaveInv
  <2>8. SessionInv'
    BY <1>1, <1>2, <1>5, <2>3 DEF PathInv, SessionInv
  <2>9. OnceInv'
    <3>1. \A e \in Lower : IsInjective(toSlave'[e])
      BY <1>3, <2>1, <2>2 DEF PathInv, OnceInv, AtSlave
    <3> QED
      BY <1>1, <1>3, <1>5, <2>5, <2>6, <3>1 DEF PathInv, OnceInv
  <2>10. ReplyInv'
    <3>1. \A x : Dead(x) => Dead(x)'
      BY <1>3, <1>5, <2>5, <2>6 DEF Dead
    <3> QED
      BY <1>1, <1>5, <1>8, <3>1 DEF PathInv, ReplyInv, Truth
  <2>11. OrderInv'
    <3> SUFFICES ASSUME NEW a \in Commands, NEW b \in Commands, Before(sent, a, b), via[a] = via[b]
                 PROVE  Behind(a, b)'
      BY <1>1 DEF OrderInv
    <3>1. Behind(a, b)
      BY DEF PathInv, OrderInv
    <3>2. b = r => a \notin AtMaster \ {r}
      <4> SUFFICES ASSUME b = r, a \in AtMaster, a # r PROVE FALSE
        OBVIOUS
      <4>1. PICK e \in Upper : a \in Range(toMaster[e]) \cup Held(e)
        BY DEF AtMaster
      <4>2. e = c
        BY <1>3, <4>1 DEF PathInv, SessionInv, Held
      <4> QED
        BY <1>3, <3>1, <4>1, <4>2 DEF Behind
    <3>3. a = r => b \notin AtSlave \cup Ran
      BY <1>3, <3>1 DEF Behind
    <3>4. \A e \in Lower : ~Before(toSlave'[e], b, a)
      <4> SUFFICES ASSUME NEW e \in Lower, Before(toSlave'[e], b, a) PROVE FALSE
        OBVIOUS
      <4>1. e = d /\ b \in Range(toSlave[d]) /\ a = r
        BY <2>2, <3>1 DEF Behind
      <4> QED
        BY <2>1, <3>3, <4>1 DEF AtSlave
    <3>5. \A e \in Upper : b \in Held(e)' => a \notin Range(toMaster'[e])
      BY <1>1, <2>4, <3>1 DEF Behind
    <3> QED
      BY <1>1, <1>5, <2>5, <2>6, <3>1, <3>2, <3>3, <3>4, <3>5 DEF Behind
  <2> QED
    BY <2>7, <2>8, <2>9, <2>10, <2>11 DEF PathInv
<1> QED
  BY <1>6, <1>7, <1>8 DEF WriteCommand

(* The slave runs the oldest command of its session.                        *)
LEMMA SlaveRunsFacts ==
    ASSUME PathInv, SlaveRuns
    PROVE  \E r \in Commands :
              /\ job' = r /\ done' = Append(done, r) /\ Ran' = Ran \cup {r}
              /\ \A a, b : Before(done', a, b) => Before(done, a, b) \/ (a \in Ran /\ b = r)
              /\ r \in AtSlave /\ r \notin AtMaster \cup Ran \cup Unwritten
              /\ AtSlave' = AtSlave \ {r}
              /\ \A d \in Lower : Fewer(toSlave'[d], toSlave[d])
              /\ \A x \in AtSlave' : \E d \in Lower : Before(toSlave[d], r, x)
<1>1. /\ slave # 0 /\ toSlave[slave] # <<>> /\ job' = Head(toSlave[slave])
      /\ done' = Append(done, job') /\ toSlave' = [toSlave EXCEPT ![slave] = Tail(@)]
  BY DEF SlaveRuns
<1>2. slave \in Lower /\ toSlave[slave] \in Seq(Commands) /\ done \in Seq(Commands)
  BY <1>1, SessionNumbers DEF PathInv, TypeOK
<1>3. PICK r \in Commands : r = Head(toSlave[slave])
  BY <1>1, <1>2, TailFacts
<1> DEFINE t == Tail(toSlave[slave])
<1>4. /\ Range(toSlave[slave]) = Range(t) \cup {r} /\ r \notin Range(t)
      /\ Fewer(t, toSlave[slave])
      /\ \A b \in Range(t) : Before(toSlave[slave], r, b)
  <2>1. IsInjective(toSlave[slave])
    BY <1>2 DEF PathInv, OnceInv
  <2> QED
    BY <1>1, <1>2, <1>3, <2>1, TailFacts, FewerFacts
<1>5. \A d \in Lower : toSlave'[d] = IF d = slave THEN t ELSE toSlave[d]
  BY <1>1, <1>2 DEF PathInv, TypeOK
<1>6. \A d \in Lower : d # slave => Range(toSlave[d]) = {}
  BY EmptyFacts DEF PathInv, SlaveInv
<1> HIDE DEF t
<1>7. AtSlave' = AtSlave \ {r} /\ AtSlave' \subseteq Range(t)
  BY <1>2, <1>4, <1>5, <1>6 DEF AtSlave
<1>8. r \in AtSlave
  BY <1>2, <1>4 DEF AtSlave
<1>9. r \notin AtMaster \cup Ran \cup Unwritten
  BY <1>8 DEF PathInv, OnceInv
<1>10. /\ job' = r /\ done' = Append(done, r) /\ Ran' = Ran \cup {r}
       /\ \A a, b : Before(done', a, b) => Before(done, a, b) \/ (a \in Ran /\ b = r)
  BY <1>1, <1>2, <1>3, AppendFacts DEF Ran
<1>11. \A d \in Lower : Fewer(toSlave'[d], toSlave[d])
  BY <1>4, <1>5 DEF Fewer
<1> QED
  BY <1>2, <1>4, <1>7, <1>8, <1>9, <1>10, <1>11

(* It runs it once, and after those that were written before it.            *)
LEMMA SlaveRunsKeeps ==
    ASSUME PathInv, TypeOK', SlaveRuns
    PROVE  PathInv'
<1> USE DEF pageVars, upperVars, readerVars, lowerVars, slaveVars
<1>1. UNCHANGED <<page, via, sent, toMaster, toOrch, reader, serving, toNode, alive, slave>>
  BY DEF SlaveRuns
<1>2. PICK r \in Commands :
              /\ job' = r /\ done' = Append(done, r) /\ Ran' = Ran \cup {r}
              /\ \A a, b : Before(done', a, b) => Before(done, a, b) \/ (a \in Ran /\ b = r)
              /\ r \in AtSlave /\ r \notin AtMaster \cup Ran \cup Unwritten
              /\ AtSlave' = AtSlave \ {r}
              /\ \A d \in Lower : Fewer(toSlave'[d], toSlave[d])
              /\ \A x \in AtSlave' : \E d \in Lower : Before(toSlave[d], r, x)
  BY SlaveRunsFacts
<1>3. /\ AtMaster' = AtMaster /\ Unwritten' = Unwritten
      /\ \A c \in Upper : Held(c)' = Held(c)
  BY <1>1 DEF AtMaster, Unwritten, Held
<1>4. SlaveInv'
  <2>1. \A d \in Lower : d # slave => toSlave'[d] = toSlave[d]
    BY DEF SlaveRuns, PathInv, TypeOK
  <2> QED
    BY <1>1, <2>1 DEF PathInv, SlaveInv
<1>5. SessionInv'
  BY <1>1, <1>3 DEF PathInv, SessionInv
<1>6. OnceInv'
  BY <1>1, <1>2, <1>3 DEF PathInv, OnceInv, Fewer
<1>7. ReplyInv'
  <2>1. \A x : Dead(x) => Dead(x)'
    BY <1>2, <1>3 DEF Dead
  <2> QED
    BY <1>1, <1>2, <2>1 DEF PathInv, ReplyInv, Truth
<1>8. OrderInv'
  <2> SUFFICES ASSUME NEW a \in Commands, NEW b \in Commands, Before(sent, a, b), via[a] = via[b]
               PROVE  Behind(a, b)'
    BY <1>1 DEF OrderInv
  <2>1. Behind(a, b)
    BY DEF PathInv, OrderInv
  <2>2. ~Before(done', b, a)
    BY <1>2, <2>1 DEF Behind
  <2>3. \A d \in Lower : ~Before(toSlave'[d], b, a)
    BY <1>2, <2>1 DEF Behind, Fewer
  <2>4. b = r => a \notin AtMaster \cup AtSlave'
    BY <1>2, <2>1 DEF Behind
  <2> QED
    BY <1>1, <1>2, <1>3, <2>1, <2>2, <2>3, <2>4 DEF Behind
<1> QED
  BY <1>4, <1>5, <1>6, <1>7, <1>8 DEF PathInv

-----------------------------------------------------------------------------
(* Before the first command nothing is under way.                           *)
LEMMA PathInit == Init => PathInv
<1> SUFFICES ASSUME Init PROVE PathInv
  OBVIOUS
<1>1. TypeOK
  BY SessionNumbers, EmptyFacts DEF Init, TypeOK
<1>2. AtMaster = {} /\ AtSlave = {} /\ Ran = {} /\ Range(sent) = {}
  BY EmptyFacts DEF Init, AtMaster, AtSlave, Ran, Held
<1>3. SlaveInv /\ SessionInv /\ OnceInv
  BY <1>2, EmptyFacts DEF Init, SlaveInv, SessionInv, OnceInv
<1>4. ReplyInv
  BY EmptyFacts DEF Init, ReplyInv, Truth
<1>5. OrderInv
  BY EmptyFacts DEF Init, OrderInv
<1> QED
  BY <1>1, <1>3, <1>4, <1>5 DEF PathInv

(* Every step keeps the invariant.                                          *)
LEMMA PathInductive == PathInv /\ [Next]_vars => PathInv'
<1> SUFFICES ASSUME PathInv, [Next]_vars PROVE PathInv'
  OBVIOUS
<1>t. TypeOK'
  BY PathType DEF PathInv
<1>1. ASSUME NEW r \in Commands, Page(r) PROVE PathInv'
  BY <1>t, <1>1, PageLossKeeps, PageWritesKeeps DEF Page
<1>2. ASSUME NEW c \in Upper, OrchReads(c) \/ Reader(c) \/ DropUpper(c) \/ UpperEnds(c)
      PROVE  PathInv'
  BY <1>t, <1>2, OrchReadsKeeps, ReadCommandKeeps, WriteCommandKeeps, NodeAnswersKeep,
     SessionsKeep DEF Reader
<1>3. ASSUME NEW d \in Lower, NodeReplies(d) \/ DropLower(d) \/ LowerEnds(d) PROVE PathInv'
  BY <1>t, <1>3, NodeAnswersKeep, SessionsKeep
<1>4. CASE Slave
  BY <1>t, <1>4, SlaveRunsKeeps, SlaveRepliesKeeps, SessionsKeep DEF Slave
<1>5. CASE UpperBegins \/ LowerBegins \/ MasterRestarts \/ OrchRestarts \/ UNCHANGED vars
  BY <1>t, <1>5, SessionsKeep
<1> QED
  BY <1>1, <1>2, <1>3, <1>4, <1>5 DEF Next

(* A command is in one place at most, replies are true and no command       *)
(* overtakes another of its session, throughout sendCommandWait,            *)
(* readOrchestratorLoop and the loop of slave.Connect.                      *)
THEOREM PathInvariance == Spec => []PathInv
BY PathInit, PathInductive, PTL DEF Spec

(* The variables of the two links keep their types.                         *)
THEOREM PathTypeCorrect == Spec => []TypeOK
<1>1. PathInv => TypeOK
  BY DEF PathInv
<1> QED
  BY <1>1, PathInvariance, PTL

(* The slave runs the commands of one session of the master in the order in *)
(* which sendCommandWait wrote them.                                        *)
THEOREM SessionOrderThm == Spec => []SessionOrder
<1>1. PathInv => SessionOrder
  BY DEF PathInv, OrderInv, Behind, SessionOrder
<1> QED
  BY <1>1, PathInvariance, PTL

-----------------------------------------------------------------------------
(* The refinement: a command takes effect when the slave runs it, and its   *)
(* page's state is its outcome. *)

\* The outcomes as CommandPromise sees them.
Outcomes == [r \in Commands |-> Pending(page[r])]

(* A step that changes the state of one page changes one outcome.           *)
LEMMA OneOutcome ==
    ASSUME TypeOK, NEW r \in Commands, NEW state, page' = [page EXCEPT ![r] = state]
    PROVE  /\ Outcomes' = [Outcomes EXCEPT ![r] = Pending(state)]
           /\ Outcomes[r] = Pending(page[r])
<1>1. \A x \in Commands : page'[x] = IF x = r THEN state ELSE page[x]
  BY DEF TypeOK
<1> QED
  BY <1>1 DEF Outcomes, Pending

(* An outcome that is set to "unknown" is one page that gives up.           *)
LEMMA OneGivesUp ==
    ASSUME NEW r \in Commands, Outcomes' = [Outcomes EXCEPT ![r] = "unknown"]
    PROVE  Outcomes' = [x \in Commands |-> IF x \in {r} THEN "unknown" ELSE Outcomes[x]]
BY DEF Outcomes

(* What has taken effect is what was run.                                   *)
LEMMA EffectiveIsRan == ASSUME NEW r PROVE Promise!Effective(r) <=> r \in Ran
BY DEF Promise!Effective, Ran, Range

(* A page that gets an outcome from the orchestrator, or is refused at once *)
(* or by a failing write, gets one it can rely on.                          *)
LEMMA PageRefines ==
    ASSUME PathInv, NEW r \in Commands, Page(r)
    PROVE  [Promise!Next]_Promise!vars
<1> USE DEF pageVars, upperVars, readerVars, lowerVars, slaveVars
<1>1. UNCHANGED done /\ TypeOK
  BY DEF Page, PageRoutes, PageWrites, PageTimesOut, PathInv
<1>2. page[r] \in {"idle", "routed"} => ~Promise!Effective(r)
  BY EffectiveIsRan DEF PathInv, OnceInv, Unwritten
<1>3. CASE PageRoutes(r)
  <2>1. CASE conn = 0
    <3>1. Outcomes' = [Outcomes EXCEPT ![r] = "refused"] /\ Outcomes[r] = "idle"
      BY <1>1, <1>3, <2>1, OneOutcome DEF PageRoutes, SetPage, Pending
    <3>2. Promise!Refuse(r)
      BY <1>1, <1>2, <1>3, <3>1 DEF Promise!Refuse, Outcomes, PageRoutes
    <3> QED
      BY <3>2 DEF Promise!Next
  <2>2. CASE conn # 0
    <3>1. Outcomes' = [Outcomes EXCEPT ![r] = "pending"] /\ Outcomes[r] = "idle"
      BY <1>1, <1>3, <2>2, OneOutcome DEF PageRoutes, SetPage, Pending
    <3>2. Promise!Submit(r)
      BY <1>1, <3>1 DEF Promise!Submit, Outcomes
    <3> QED
      BY <3>2 DEF Promise!Next
  <2> QED
    BY <2>1, <2>2
<1>4. CASE PageWrites(r)
  <2>1. CASE SetPage(r, "waiting")
    <3>1. Outcomes' = [Outcomes EXCEPT ![r] = Outcomes[r]]
      BY <1>1, <1>4, <2>1, OneOutcome DEF PageWrites, SetPage, Pending
    <3>2. Outcomes' = Outcomes
      BY <3>1 DEF Outcomes
    <3> QED
      BY <1>1, <3>2 DEF Promise!vars, Outcomes
  <2>2. CASE SetPage(r, "refused")
    <3>1. Outcomes' = [Outcomes EXCEPT ![r] = "refused"] /\ Outcomes[r] = "pending"
      BY <1>1, <1>4, <2>2, OneOutcome DEF PageWrites, SetPage, Pending
    <3>2. Promise!Refuse(r)
      BY <1>1, <1>2, <1>4, <3>1 DEF Promise!Refuse, Outcomes, PageWrites
    <3> QED
      BY <3>2 DEF Promise!Next
  <2> QED
    BY <1>4, <2>1, <2>2 DEF PageWrites
<1>5. CASE PageTimesOut(r)
  <2>1. /\ Outcomes' = [x \in Commands |-> IF x \in {r} THEN "unknown" ELSE Outcomes[x]]
        /\ Outcomes[r] = "pending"
    <3>1. Outcomes' = [Outcomes EXCEPT ![r] = "unknown"] /\ Outcomes[r] = "pending"
      BY <1>1, <1>5, OneOutcome DEF PageTimesOut, SetPage, Pending
    <3> QED
      BY <3>1, OneGivesUp
  <2>2. Promise!GiveUp({r})
    BY <1>1, <2>1 DEF Promise!GiveUp, Outcomes
  <2> QED
    BY <2>2 DEF Promise!Next
<1> QED
  BY <1>3, <1>4, <1>5 DEF Page

(* So does one whose reply the orchestrator reads.                          *)
LEMMA OrchReadsRefines ==
    ASSUME PathInv, NEW c \in Upper, OrchReads(c)
    PROVE  [Promise!Next]_Promise!vars
<1> USE DEF pageVars, upperVars, readerVars, lowerVars, slaveVars
<1> DEFINE m == Head(toOrch[c])
<1>1. UNCHANGED done /\ TypeOK
  BY DEF OrchReads, PathInv
<1>2. m \in Replies /\ Truth(m.cmd, m.how)
  <2>1. toOrch[c] \in Seq(Replies) /\ toOrch[c] # <<>>
    BY DEF OrchReads, PathInv, TypeOK
  <2>2. m \in Replies /\ m \in Range(toOrch[c])
    BY <2>1, TailFacts
  <2> QED
    BY <2>2 DEF PathInv, ReplyInv
<1>3. PICK r \in Commands : r = m.cmd
  BY <1>2 DEF Replies
<1>4. CASE UNCHANGED page
  BY <1>1, <1>4 DEF Promise!vars
<1>5. CASE page[r] = "waiting" /\ page' = [page EXCEPT ![r] = m.how]
  <2>1. Outcomes[r] = "pending"
    BY <1>1, <1>5, OneOutcome DEF Pending
  <2>2. CASE m.how = "replied"
    <3>1. Outcomes' = [Outcomes EXCEPT ![r] = "replied"]
      BY <1>1, <1>5, <2>2, OneOutcome DEF Pending
    <3>2. Promise!Effective(r)
      BY <1>2, <1>3, <2>2, EffectiveIsRan DEF Truth
    <3>3. Promise!Reply(r)
      BY <1>1, <2>1, <3>1, <3>2 DEF Promise!Reply, Outcomes
    <3> QED
      BY <3>3 DEF Promise!Next
  <2>3. CASE m.how = "refused"
    <3>1. Outcomes' = [Outcomes EXCEPT ![r] = "refused"]
      BY <1>1, <1>5, <2>3, OneOutcome DEF Pending
    <3>2. ~Promise!Effective(r)
      BY <1>2, <1>3, <2>3, EffectiveIsRan DEF Truth, Dead
    <3>3. Promise!Refuse(r)
      BY <1>1, <2>1, <3>1, <3>2 DEF Promise!Refuse, Outcomes
    <3> QED
      BY <3>3 DEF Promise!Next
  <2>4. CASE m.how = "unknown"
    <3>1. Outcomes' = [x \in Commands |-> IF x \in {r} THEN "unknown" ELSE Outcomes[x]]
      <4>1. Outcomes' = [Outcomes EXCEPT ![r] = "unknown"]
        BY <1>1, <1>5, <2>4, OneOutcome DEF Pending
      <4> QED
        BY <4>1, OneGivesUp
    <3>2. Promise!GiveUp({r})
      BY <1>1, <2>1, <3>1 DEF Promise!GiveUp, Outcomes
    <3> QED
      BY <3>2 DEF Promise!Next
  <2> QED
    BY <1>2, <2>2, <2>3, <2>4 DEF Replies
<1> QED
  BY <1>3, <1>4, <1>5 DEF OrchReads, SetPage

(* A command takes effect once, and not after a page was told it would not. *)
LEMMA SlaveRunsRefines ==
    ASSUME PathInv, SlaveRuns
    PROVE  [Promise!Next]_Promise!vars
<1>1. UNCHANGED page
  BY DEF SlaveRuns, pageVars
<1>2. PICK r \in Commands :
          done' = Append(done, r) /\ r \in AtSlave /\ r \notin Ran \cup Unwritten
  BY SlaveRunsFacts
<1>3. page[r] \in {"waiting", "unknown"}
  <2>1. page[r] # "replied" /\ page[r] # "refused"
    BY <1>2 DEF PathInv, ReplyInv, Truth, Dead
  <2> QED
    BY <1>2, <2>1 DEF PathInv, TypeOK, Unwritten
<1>4. Outcomes[r] \in {"pending", "unknown"} /\ Outcomes' = Outcomes
  BY <1>1, <1>3 DEF Outcomes, Pending
<1>5. Promise!TakeEffect(r)
  BY <1>2, <1>4, EffectiveIsRan DEF Promise!TakeEffect, Outcomes
<1> QED
  BY <1>5 DEF Promise!Next

(* When the web server's process dies, every page that waits has given up.  *)
LEMMA OrchRestartsRefines ==
    ASSUME PathInv, OrchRestarts
    PROVE  [Promise!Next]_Promise!vars
<1> DEFINE pages == {r \in Commands : page[r] \in {"routed", "waiting"}}
<1>1. /\ UNCHANGED done
      /\ page' = [r \in Commands |-> IF r \in pages THEN "unknown" ELSE page[r]]
  BY DEF OrchRestarts, slaveVars
<1>2. \A r \in pages : Outcomes[r] = "pending"
  BY DEF Outcomes, Pending
<1>3. Outcomes' = [r \in Commands |-> IF r \in pages THEN "unknown" ELSE Outcomes[r]]
  BY <1>1 DEF Outcomes, Pending
<1>4. Promise!GiveUp(pages)
  BY <1>1, <1>2, <1>3 DEF Promise!GiveUp, Outcomes
<1> QED
  BY <1>4 DEF Promise!Next

(* Every step of the links is one of CommandPromise or leaves it alone.     *)
LEMMA PathRefines == PathInv /\ [Next]_vars => [Promise!Next]_Promise!vars
<1> SUFFICES ASSUME PathInv, [Next]_vars PROVE [Promise!Next]_Promise!vars
  OBVIOUS
<1> USE DEF pageVars, upperVars, readerVars, lowerVars, slaveVars
<1>1. ASSUME UNCHANGED <<page, done>> PROVE UNCHANGED Promise!vars
  BY <1>1 DEF Promise!vars
<1>2. ASSUME NEW c \in Upper, Reader(c) \/ DropUpper(c) \/ UpperEnds(c)
      PROVE  UNCHANGED <<page, done>>
  BY <1>2 DEF Reader, ReadCommand, WriteCommand, NodeTimesOut, ReaderEnds, DropUpper, UpperEnds
<1>3. ASSUME NEW d \in Lower, NodeReplies(d) \/ DropLower(d) \/ LowerEnds(d)
      PROVE  UNCHANGED <<page, done>>
  BY <1>3 DEF NodeReplies, DropLower, LowerEnds
<1>4. ASSUME \/ SlaveReplies \/ SlaveStops \/ UpperBegins \/ LowerBegins \/ MasterRestarts
             \/ UNCHANGED vars
      PROVE  UNCHANGED <<page, done>>
  BY <1>4 DEF SlaveReplies, SlaveStops, UpperBegins, LowerBegins, MasterRestarts, vars
<1> QED
  BY <1>1, <1>2, <1>3, <1>4, PageRefines, OrchReadsRefines, SlaveRunsRefines, OrchRestartsRefines
  DEF Next, Slave

(* Over both links, whatever the timeouts, crashes and sessions: a command  *)
(* of sendCommandWait runs at most once, a reply means that it ran, and a   *)
(* refusal that it did not and never will.                                  *)
THEOREM KeepsPromiseThm == Spec => KeepsPromise
<1>1. Init => Promise!Init
  BY DEF Init, Promise!Init, Pending
<1> QED
  BY <1>1, PathRefines, PathInvariance, PTL DEF Spec, Promise!Spec, KeepsPromise

=============================================================================
