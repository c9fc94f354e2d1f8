---------------------------- MODULE Agent_proofs ----------------------------
(***************************************************************************)
(* Proofs about Agent for any nodes, packets, kinds and cadences, any      *)
(* interleaving of its goroutines and any faults: its emission timers, its *)
(* type invariant, where every packet goes, and that a refresh learns all. *)
(***************************************************************************)
EXTENDS Agent, TLAPS, FiniteSetTheorems, SequenceTheorems

Rows == Nodes \X Kinds

\* The timer of every row is the time of its last publish.
TimerInv == /\ now \in Int
            /\ last \in [Rows -> Int]
            /\ emitted = [x \in Rows |-> emitted[x]]
            /\ TimersFollowPublishes

LEMMA InitTimer == Init => TimerInv
  BY AgentAssumption DEF Init, TimerInv, Rows, TimersFollowPublishes, Never

\* What maybeEmit may do to a row's timer and history.
Kept      == UNCHANGED <<now, last, emitted>>
Marked(x) == /\ UNCHANGED now
             /\ last' = [last EXCEPT ![x] = now]
             /\ emitted' = [emitted EXCEPT ![x] = [at |-> now, version |-> cur.version]]

LEMMA EmitMarks ==
    ASSUME MaybeEmit
    PROVE  \/ Kept
           \/ LET k == KindOrder[cur.kind]
                  x == <<cur.node, k>>
              IN  /\ Marked(x) /\ k \in Enabled
                  /\ (cur.first /\ k \in OnFirstSeen) \/ Due(x, k)
  BY Zenon DEF MaybeEmit, Kept, Marked, PublishFailed, clock

\* No other step touches a timer.
LEMMA OthersKeep ==
    ASSUME [Next]_vars, ~MaybeEmit
    PROVE  UNCHANGED <<last, emitted>> /\ (now' = now \/ now' = now + 1)
<1> USE DEF emit, clock
<1>1. CASE UNCHANGED vars
  BY <1>1 DEF vars
<1>2. CASE World \/ Tick \/ Signal \/ MetricsTick
  BY <1>2 DEF World, Tick, Signal, MetricsTick
<1>3. CASE Connect \/ ConnectFails \/ SelectTick \/ SelectDone \/ SelectErr \/ AwaitReader
  BY <1>3 DEF Connect, ConnectFails, SelectTick, SelectDone, SelectErr, AwaitReader
<1>4. CASE VisitNode
  BY <1>4, Zenon DEF VisitNode
<1>5. CASE ReaderStep
  BY <1>5, Zenon DEF ReaderStep, ReaderRecv, ReaderFails, LinkError, ReaderHandle
<1>6. ASSUME NEW a \in Actors, GetState(a)
      PROVE  UNCHANGED <<last, emitted, now>>
  BY <1>6, Zenon DEF GetState, SendWant, SweepRecv, SweepFails, StoreSweep
<1> QED
  BY <1>1, <1>2, <1>3, <1>4, <1>5, <1>6 DEF Next, MainStep, Actors

LEMMA NextTimer == TimerInv /\ [Next]_vars => TimerInv'
<1> SUFFICES ASSUME TimerInv, [Next]_vars PROVE TimerInv'
  OBVIOUS
<1> USE DEF TimerInv, TimersFollowPublishes, Rows
<1>1. CASE MaybeEmit
  <2>1. CASE Kept
    BY <2>1 DEF Kept
  <2>2. ASSUME NEW x, Marked(x) PROVE TimerInv'
    <3>1. now' \in Int /\ last' \in [Rows -> Int]
      BY <2>2 DEF Marked
    <3>2. emitted' = [y \in Rows |-> emitted'[y]]
      BY <2>2 DEF Marked
    <3>3. \A y \in Rows : last'[y] = emitted'[y].at
      BY <2>2 DEF Marked
    <3> QED
      BY <3>1, <3>2, <3>3
  <2> QED
    BY <1>1, <2>1, <2>2, EmitMarks
<1>2. CASE ~MaybeEmit
  BY <1>2, OthersKeep
<1> QED
  BY <1>1, <1>2

\* An emission timer only ever shows a publish the broker took (maybeEmit,
\* agent.go:367-372).
THEOREM TimersAreHonest == Spec => []TimersFollowPublishes
<1>1. TimerInv => TimersFollowPublishes
  BY DEF TimerInv
<1> QED
  BY InitTimer, NextTimer, <1>1, PTL DEF Spec

LEMMA StepSpaces ==
    ASSUME TimerInv, [Next]_vars, NEW x \in Rows, x[2] \notin OnFirstSeen,
           emitted'[x] # emitted[x], emitted[x].at # Never
    PROVE  emitted'[x].at - emitted[x].at >= Interval[x[2]]
<1>1. MaybeEmit /\ ~Kept
  BY OthersKeep DEF Kept
<1> DEFINE k == KindOrder[cur.kind]
           y == <<cur.node, k>>
<1>2. Marked(y) /\ ((cur.first /\ k \in OnFirstSeen) \/ Due(y, k))
  BY <1>1, EmitMarks
<1>3. x = y /\ x[2] = k
  BY <1>2 DEF Marked, TimerInv, Rows
<1>4. Due(y, k)
  BY <1>2, <1>3
<1>6. Interval[k] \in Nat /\ Jitter[k] \in Nat
  BY <1>3, AgentAssumption DEF Rows
<1>7. emitted'[x].at = now
  BY <1>2, <1>3 DEF Marked, TimerInv
<1>8. emitted[x].at = last[x] /\ last[x] \in Int /\ now \in Int
  BY DEF TimerInv, TimersFollowPublishes, Rows
<1> HIDE DEF k, y
<1>9. PICK j \in 0 .. Jitter[k] : now - last[x] >= Interval[k] + j
  BY <1>3, <1>4, <1>8 DEF Due
<1> QED
  BY <1>3, <1>6, <1>7, <1>8, <1>9

\* Two emissions for a node of a kind without on_first_seen are an interval
\* apart, whatever the other kinds, the jitter, the broker and the sweeps do
\* (synthesise.Due and maybeEmit, agent.go:343-375).
THEOREM EmissionsAreSpaced == Spec => TimedEmissions
<1> DEFINE Timed == \A x \in Nodes \X (Kinds \ OnFirstSeen) : Spaced(x)
<1>1. TimerInv /\ [Next]_vars => [Timed]_vars
  BY StepSpaces DEF Spaced, Rows
<1> QED
  BY InitTimer, NextTimer, <1>1, PTL DEF Spec, TimedEmissions
-----------------------------------------------------------------------------
(* Packets: the frames in the transport and where each packet went.        *)

Row   == Version \cup {Never}
Frame == [type : {"packet"}, packet : Packets]
         \cup [type : {"node"}, node : Nodes, version : Version]
         \cup [type : {"complete"}, id : Nat] \cup [type : {"junk"}]

\* The types, those that TypeOK leaves out included; the reader starts with Connect.
Typed ==
    /\ cancelled \in BOOLEAN /\ link \in {"up", "down"}
    /\ db \in [Nodes -> Row] /\ nodes \in [Nodes -> Row] /\ todo \in [Nodes -> Row]
    /\ world \in Worlds /\ now \in 0 .. world.time /\ tickDue \in BOOLEAN
    /\ main \in {"connect", "select", "emit", "want", "sweep", "store", "stopping", "returned"}
    /\ metrics \in {"idle", "want", "sweep", "store"}
    /\ reader \in {"off", "recv", "handle", "stopped"}
    /\ main = "connect" => reader = "off"
    /\ errCh = <<>> \/ (reader = "stopped" /\ \E e \in {"error", "canceled"} : errCh = <<e>>)
    /\ seen \subseteq Nodes /\ published \subseteq Packets /\ unheard \subseteq Packets
    /\ last \in [Nodes \X Kinds -> Never .. now]
    /\ inbox \in Seq(Frame) /\ hand \in Frame
    /\ want \in [Actors -> Nat] /\ sweeps \in Nat
    /\ got \in [Actors -> [Nodes -> Row]] /\ asked \in [Actors -> SUBSET Nodes]
    /\ swallowed \in [Actors -> SUBSET Packets]

\* Where a mesh packet may be.
At(p)     == {i \in DOMAIN inbox : inbox[i] = PacketF(p)}
Waiting   == {p \in Packets : At(p) # {}}
Held      == {p \in Packets : reader = "handle" /\ hand = PacketF(p)}
Swept     == swallowed["main"] \cup swallowed["metrics"]
Refused   == {p \in Packets : ~Forwardable(p)}

\* A packet is in one place at a time, and leaves the agent at the broker or in a sweep.
Single == \A i, j \in DOMAIN inbox :
             inbox[i].type = "packet" /\ inbox[i] = inbox[j] => i = j
Apart ==
    /\ unheard \cap (Waiting \cup Held \cup Swept \cup published) = {}
    /\ Waiting \cap (Held \cup Swept \cup published) = {}
    /\ Held \cap (Swept \cup published) = {}
    /\ Swept \cap published = {}
    /\ published \cap Refused = {}
    /\ ~Faulty("broker") /\ ~cancelled =>
          world.packets \subseteq unheard \cup Waiting \cup Held \cup Swept \cup Refused \cup published
PacketInv == Typed /\ Single /\ Apart


\* Frames of different types differ, and a frame is its contents.
LEMMA Frames ==
    /\ \A f \in Frame : f.type \in {"packet", "node", "complete", "junk"}
    /\ \A f \in Frame : f.type = "packet" => f.packet \in Packets /\ f = PacketF(f.packet)
    /\ \A f \in Frame : f.type = "node" => f.node \in Nodes /\ f.version \in Version
    /\ \A p, q : PacketF(p).type = "packet" /\ (PacketF(p) = PacketF(q) => p = q)
    /\ \A p \in Packets : PacketF(p) \in Frame
    /\ JunkF \in Frame /\ JunkF.type = "junk"
BY DEF Frame, PacketF, JunkF

\* What a sweep asks for: a row of every known node, in some order, then the marker.
LEMMA AnswerShape ==
    ASSUME db \in [Nodes -> Row], NEW id \in Nat, NEW answer \in Answers(id)
    PROVE  \E n \in Nat : \E rows \in [1 .. n -> Known(db)] :
              /\ answer \in Seq(Frame) /\ Len(answer) = n + 1
              /\ \A i \in 1 .. n : answer[i] = NodeF(rows[i], db[rows[i]])
              /\ answer[n + 1] = DoneF(id)
              /\ \A x \in Known(db) : \E i \in 1 .. n : rows[i] = x
<1> DEFINE K == Known(db)
           n == Cardinality(K)
<1>1. n \in Nat
  BY AgentAssumption, FS_Subset, FS_CardinalityType DEF Known
<1>2. PICK rows \in Bijection(1 .. n, K) :
          answer = [i \in DOMAIN rows |-> NodeF(rows[i], db[rows[i]])] \o <<DoneF(id)>>
  BY DEF Answers
<1>3. rows \in [1 .. n -> K] /\ \A x \in K : \E i \in 1 .. n : rows[i] = x
  BY <1>2 DEF Bijection, Injection, Surjection
<1>4. \A i \in 1 .. n : rows[i] \in Nodes /\ db[rows[i]] \in Version
  BY <1>3 DEF Known, Row
<1> DEFINE list == [i \in 1 .. n |-> NodeF(rows[i], db[rows[i]])]
<1>5. \A i \in 1 .. n : NodeF(rows[i], db[rows[i]]) \in Frame
  BY <1>4 DEF NodeF, Frame
<1>6. DoneF(id) \in Frame
  BY DEF DoneF, Frame
<1> HIDE DEF n, K
<1>7. list \in Seq(Frame) /\ Len(list) = n
  BY <1>1, <1>5
<1>8. answer = list \o <<DoneF(id)>>
  BY <1>2, <1>3
<1> HIDE DEF list
<1>9. answer \in Seq(Frame) /\ Len(answer) = n + 1 /\ answer[n + 1] = DoneF(id)
        /\ \A i \in 1 .. n : answer[i] = list[i]
  BY <1>1, <1>6, <1>7, <1>8
<1>10. \A i \in 1 .. n : list[i] = NodeF(rows[i], db[rows[i]])
  BY DEF list
<1> QED BY <1>1, <1>3, <1>9, <1>10 DEF K

\* What a step may do to the transport: nothing, take the head, or add at the end.
Took     == /\ inbox # <<>> /\ inbox' = Tail(inbox)
Added(s) == inbox' = inbox \o s

LEMMA Taken ==
    ASSUME inbox \in Seq(Frame), Took
    PROVE  /\ inbox' \in Seq(Frame) /\ Head(inbox) \in Frame /\ Head(inbox) = inbox[1]
           /\ DOMAIN inbox' = 1 .. Len(inbox) - 1 /\ DOMAIN inbox = 1 .. Len(inbox)
           /\ Len(inbox) \in Nat \ {0}
           /\ \A i \in DOMAIN inbox' : inbox'[i] = inbox[i + 1]
BY DEF Took

LEMMA Grown ==
    ASSUME inbox \in Seq(Frame), NEW s \in Seq(Frame), Added(s)
    PROVE  /\ inbox' \in Seq(Frame)
           /\ DOMAIN inbox' = 1 .. Len(inbox) + Len(s) /\ DOMAIN inbox = 1 .. Len(inbox)
           /\ DOMAIN s = 1 .. Len(s) /\ Len(inbox) \in Nat /\ Len(s) \in Nat
           /\ \A i \in DOMAIN inbox : inbox'[i] = inbox[i]
           /\ \A i \in DOMAIN s : inbox'[Len(inbox) + i] = s[i]
BY DEF Added

LEMMA Appended ==
    ASSUME inbox \in Seq(Frame), NEW f \in Frame, inbox' = Append(inbox, f)
    PROVE  Added(<<f>>) /\ <<f>> \in Seq(Frame) /\ Len(<<f>>) = 1 /\ <<f>>[1] = f
BY DEF Added

\* What the steps of the world leave alone.
Others == <<cancelled, clock, main, metrics, reader, hand, errCh, sweep, nodes, emit,
            published, swallowed>>

LEMMA NextTyped ==
    ASSUME Typed, [Next]_vars
    PROVE  Typed'
<1>a. /\ Never \in Int /\ Never = -1 /\ Version \subseteq Nat /\ Version = 0 .. MaxVersion
      /\ MaxVersion \in Nat /\ world \in Worlds
      /\ \A w \in Worlds : w.time \in Nat /\ w.packets \subseteq Packets
      /\ now \in Nat /\ world.time \in Nat
  BY AgentAssumption DEF Typed, Never, Version
<1>b. inbox \in Seq(Frame)
  BY DEF Typed
<1>c. inbox # <<>> /\ inbox' = Tail(inbox) => inbox' \in Seq(Frame) /\ Head(inbox) \in Frame
  BY <1>b, Taken DEF Took
<1>d. \A f \in Frame : inbox' = Append(inbox, f) => inbox' \in Seq(Frame)
  BY <1>b
<1>e. \A e : Tail(<<e>>) = <<>> /\ Append(<<>>, e) = <<e>> /\ <<e>> # <<>>
  OBVIOUS
<1> USE <1>a, <1>b, <1>c, <1>d, <1>e, Frames DEF clock, sweep, emit, air, Row
<1>1. ASSUME NEW p \in unheard, Hear(p), UNCHANGED Others PROVE Typed'
  BY <1>1 DEF Typed, Hear, Others
<1>2. ASSUME NEW m \in Nodes, Learn(m), UNCHANGED Others PROVE Typed'
  <2>1. db[m] + 1 \in Version /\ NodeF(m, db[m] + 1) \in Frame
    BY <1>2 DEF Learn, Typed, NodeF, Frame
  <2> QED BY <1>2, <2>1 DEF Typed, Learn, Others
<1>3. ASSUME Garble, UNCHANGED Others PROVE Typed'
  BY <1>3 DEF Typed, Garble, Others
<1>4. ASSUME LoseLink, UNCHANGED Others PROVE Typed'
  BY <1>4 DEF Typed, LoseLink, Others
<1>5. CASE Tick
  BY <1>5 DEF Typed, Tick
<1>6. CASE Signal
  BY <1>6 DEF Typed, Signal
<1>7. CASE MetricsTick
  BY <1>7 DEF Typed, MetricsTick
<1>8. CASE Connect \/ ConnectFails
  BY <1>8 DEF Typed, Connect, ConnectFails
<1>9. CASE SelectTick
  BY <1>9 DEF Typed, SelectTick
<1>10. CASE SelectDone
  BY <1>10 DEF Typed, SelectDone
<1>11. CASE SelectErr
  <2>1. errCh' = <<>>
    BY <1>11 DEF SelectErr, Typed
  <2> QED BY <1>11, <2>1 DEF SelectErr, Typed
<1>12. CASE AwaitReader
  <2>1. errCh' = <<>>
    BY <1>12 DEF AwaitReader, Typed
  <2> QED BY <1>12, <2>1 DEF AwaitReader, Typed
<1>13. CASE VisitNode
  <2>1. seen' \subseteq Nodes /\ todo' \in [Nodes -> Row] /\ main' \in {"emit", "select"}
    BY <1>13 DEF VisitNode, Typed, Known, EmitDone, NoRow
  <2>2. UNCHANGED <<cancelled, air, inbox, clock, metrics, reader, hand, errCh, sweep, nodes,
                    last, published, swallowed>>
    BY <1>13 DEF VisitNode
  <2> QED BY <2>1, <2>2 DEF Typed
<1>14. CASE MaybeEmit
  <2>1. /\ main' \in {"emit", "select"} /\ todo' \in {todo, NoRow}
        /\ last' = last \/ last' = [last EXCEPT ![<<cur.node, KindOrder[cur.kind]>>] = now]
    BY <1>14, Zenon DEF MaybeEmit, EmitDone, PublishFailed
  <2>2. UNCHANGED <<cancelled, air, inbox, clock, metrics, reader, hand, errCh, sweep, nodes,
                    seen, published, swallowed>>
    BY <1>14, Zenon DEF MaybeEmit
  <2>3. todo' \in [Nodes -> Row]
    BY <2>1 DEF Typed, NoRow
  <2>4. now \in Never .. now /\ last \in [Nodes \X Kinds -> Never .. now]
    BY DEF Typed
  <2>5. last' \in [Nodes \X Kinds -> Never .. now]
    <3> HIDE <1>a, <1>b, <1>c, <1>d, <1>e
    <3> QED BY <2>1, <2>4
  <2> QED BY <2>1, <2>2, <2>3, <2>5 DEF Typed
<1>15. CASE ReaderRecv
  BY <1>15 DEF Typed, ReaderRecv
<1>16. CASE ReaderFails
  <2>1. /\ reader' = "stopped" /\ inbox' \in Seq(Frame)
        /\ \E e \in {"error", "canceled"} : SendErr(e)
    BY <1>16, Zenon DEF ReaderFails, LinkError
  <2>2. \E e \in {"error", "canceled"} : errCh' = <<e>>
    BY <2>1 DEF SendErr
  <2>3. UNCHANGED <<cancelled, air, clock, main, metrics, hand, sweep, nodes, emit,
                    published, swallowed>> /\ reader = "recv"
    BY <1>16 DEF ReaderFails, LinkError
  <2> QED BY <2>1, <2>2, <2>3 DEF Typed
<1>17. CASE ReaderHandle
  <2>1. nodes' \in [Nodes -> Row] /\ published' \subseteq Packets
    <3>1. \/ nodes' = nodes /\ published' = published
          \/ hand.type = "packet" /\ nodes' = nodes /\ published' = published \cup {hand.packet}
          \/ /\ hand.type = "node" /\ published' = published
             /\ nodes' = [nodes EXCEPT ![hand.node] = hand.version]
      BY <1>17, Zenon DEF ReaderHandle
    <3>2. hand \in Frame /\ nodes \in [Nodes -> Row] /\ published \subseteq Packets
      BY DEF Typed
    <3>3. CASE hand.type = "node" /\ nodes' = [nodes EXCEPT ![hand.node] = hand.version]
      <4>1. hand.version \in Row
        BY <3>2, <3>3
      <4> QED BY <3>1, <3>2, <3>3, <4>1
    <3> QED BY <3>1, <3>2, <3>3
  <2>2. reader' = "recv" /\ reader = "handle" /\ hand' = JunkF
    BY <1>17 DEF ReaderHandle
  <2>3. UNCHANGED <<cancelled, air, inbox, clock, main, metrics, errCh, sweep, emit, swallowed>>
    BY <1>17 DEF ReaderHandle
  <2> QED BY <2>1, <2>2, <2>3 DEF Typed
<1>18. ASSUME NEW a \in Actors, SendWant(a) PROVE Typed'
  <2>1. CASE Goto(a, Home(a)) /\ UNCHANGED <<inbox, sweep>>
    BY <1>18, <2>1 DEF Typed, SendWant, Goto, Home, PcOf
  <2>2. CASE ~(Goto(a, Home(a)) /\ UNCHANGED <<inbox, sweep>>)
    <3>1. /\ Goto(a, "sweep") /\ sweeps' = sweeps + 1
          /\ want' = [want EXCEPT ![a] = sweeps + 1] /\ got' = [got EXCEPT ![a] = NoRow]
          /\ asked' = [asked EXCEPT ![a] = Known(db)]
          /\ inbox' = inbox \/ \E answer \in Answers(sweeps + 1) : inbox' = inbox \o answer
          /\ UNCHANGED <<cancelled, air, clock, reader, hand, errCh, nodes, emit,
                         published, swallowed>>
      BY <1>18, <2>2 DEF SendWant
    <3>2. inbox' \in Seq(Frame)
      <4>1. CASE inbox' = inbox
        BY <4>1 DEF Typed
      <4>2. ASSUME NEW answer \in Answers(sweeps + 1), inbox' = inbox \o answer
            PROVE  inbox' \in Seq(Frame)
        BY <4>2, AnswerShape, Grown DEF Typed, Added
      <4> QED BY <3>1, <4>1, <4>2
    <3>3. /\ sweeps' \in Nat /\ want' \in [Actors -> Nat] /\ got' \in [Actors -> [Nodes -> Row]]
          /\ asked' \in [Actors -> SUBSET Nodes]
      BY <3>1 DEF Typed, NoRow, Known
    <3>4. PcOf(a) = "want"
      BY <1>18 DEF SendWant
    <3> QED BY <3>1, <3>2, <3>3, <3>4 DEF Typed, Goto, PcOf
  <2> QED BY <2>1, <2>2
<1>19. ASSUME NEW a \in Actors, SweepRecv(a) PROVE Typed'
  BY <1>19 DEF Typed, SweepRecv, Goto, Home, PcOf, OwnMarker
<1>20. ASSUME NEW a \in Actors, SweepFails(a) PROVE Typed'
  <2>1. inbox' \in Seq(Frame)
    BY <1>20, Zenon DEF SweepFails, RecvFails, LinkError
  <2>2. Goto(a, Home(a)) /\ PcOf(a) = "sweep"
    BY <1>20 DEF SweepFails
  <2>3. UNCHANGED <<cancelled, air, clock, reader, hand, errCh, sweep, nodes, emit,
                    published, swallowed>>
    BY <1>20 DEF SweepFails
  <2> QED BY <2>1, <2>2, <2>3 DEF Typed, Goto, Home, PcOf
<1>21. ASSUME NEW a \in Actors, StoreSweep(a) PROVE Typed'
  <2>1. nodes' \in [Nodes -> Row]
    BY <1>21 DEF StoreSweep, Store, Typed
  <2>2. /\ (main' \in {main, "emit"} /\ main # "connect") \/ main' = main
        /\ metrics' \in {metrics, "idle"} /\ todo' \in {todo, nodes'}
    BY <1>21 DEF StoreSweep, PcOf
  <2>3. UNCHANGED <<cancelled, air, inbox, clock, reader, hand, errCh, sweep, seen, last,
                    published, swallowed>>
    BY <1>21 DEF StoreSweep
  <2> QED BY <2>1, <2>2, <2>3 DEF Typed
<1>22. CASE UNCHANGED vars
  BY <1>22 DEF Typed, vars
<1> QED BY <1>1, <1>2, <1>3, <1>4, <1>5, <1>6, <1>7, <1>8, <1>9, <1>10, <1>11,
           <1>12, <1>13, <1>14, <1>15, <1>16, <1>17, <1>18, <1>19, <1>20, <1>21, <1>22
        DEF Next, World, MainStep, ReaderStep, GetState, Actors, Others

\* A signal is never taken back, and the world stays what it is.
LEMMA WorldFixed ==
    ASSUME Typed, [Next]_vars
    PROVE  world' = world /\ (cancelled => cancelled')
<1> USE DEF clock, sweep, emit, air
<1>1. ASSUME NEW p \in unheard, Hear(p), UNCHANGED Others PROVE world' = world /\ (cancelled => cancelled')
  BY <1>1 DEF Typed, Hear, Others
<1>2. ASSUME NEW m \in Nodes, Learn(m), UNCHANGED Others PROVE world' = world /\ (cancelled => cancelled')
  BY <1>2 DEF Typed, Learn, Others
<1>3. ASSUME Garble, UNCHANGED Others PROVE world' = world /\ (cancelled => cancelled')
  BY <1>3 DEF Typed, Garble, Others
<1>4. ASSUME LoseLink, UNCHANGED Others PROVE world' = world /\ (cancelled => cancelled')
  BY <1>4 DEF Typed, LoseLink, Others
<1>5. CASE Tick
  BY <1>5 DEF Typed, Tick
<1>6. CASE Signal
  BY <1>6 DEF Typed, Signal
<1>7. CASE MetricsTick
  BY <1>7 DEF Typed, MetricsTick
<1>8. CASE Connect \/ ConnectFails
  BY <1>8 DEF Typed, Connect, ConnectFails
<1>9. CASE SelectTick
  BY <1>9 DEF Typed, SelectTick
<1>10. CASE SelectDone
  BY <1>10 DEF Typed, SelectDone
<1>11. CASE SelectErr
  BY <1>11 DEF Typed, SelectErr
<1>12. CASE AwaitReader
  BY <1>12 DEF Typed, AwaitReader
<1>13. CASE VisitNode
  BY <1>13 DEF Typed, VisitNode, EmitDone, Known
<1>14. CASE MaybeEmit
  BY <1>14 DEF Typed, MaybeEmit, EmitDone, NextKind, PublishFailed
<1>15. CASE ReaderRecv
  BY <1>15 DEF Typed, ReaderRecv
<1>16. CASE ReaderFails
  BY <1>16 DEF Typed, ReaderFails, LinkError, SendErr
<1>17. CASE ReaderHandle
  BY <1>17 DEF Typed, ReaderHandle, Forwardable
<1>18. ASSUME NEW a \in Actors, SendWant(a) PROVE world' = world /\ (cancelled => cancelled')
  BY <1>18 DEF Typed, SendWant, Goto, Home, PcOf
<1>19. ASSUME NEW a \in Actors, SweepRecv(a) PROVE world' = world /\ (cancelled => cancelled')
  BY <1>19 DEF Typed, SweepRecv, Goto, Home, PcOf, OwnMarker
<1>20. ASSUME NEW a \in Actors, SweepFails(a) PROVE world' = world /\ (cancelled => cancelled')
  BY <1>20 DEF Typed, SweepFails, Goto, Home, RecvFails, LinkError, PcOf
<1>21. ASSUME NEW a \in Actors, StoreSweep(a) PROVE world' = world /\ (cancelled => cancelled')
  BY <1>21 DEF Typed, StoreSweep, PcOf, Store
<1>22. CASE UNCHANGED vars
  BY <1>22 DEF Typed, vars
<1> QED BY <1>1, <1>2, <1>3, <1>4, <1>5, <1>6, <1>7, <1>8, <1>9, <1>10, <1>11,
           <1>12, <1>13, <1>14, <1>15, <1>16, <1>17, <1>18, <1>19, <1>20, <1>21, <1>22
        DEF Next, World, MainStep, ReaderStep, GetState, Actors, Others

\* What the head of the transport is, if it is a packet.
AtHead == {p \in Packets : inbox # <<>> /\ Head(inbox) = PacketF(p)}

LEMMA TakenPackets ==
    ASSUME Typed, Single, Took
    PROVE  Single' /\ Waiting' = Waiting \ AtHead /\ AtHead \subseteq Waiting
<1>1. inbox \in Seq(Frame)
  BY DEF Typed
<1>2. /\ Head(inbox) = inbox[1] /\ inbox # <<>>
      /\ DOMAIN inbox' = 1 .. Len(inbox) - 1 /\ DOMAIN inbox = 1 .. Len(inbox)
      /\ Len(inbox) \in Nat \ {0}
      /\ \A i \in DOMAIN inbox' : inbox'[i] = inbox[i + 1]
  BY <1>1, Taken DEF Took
<1>3. Single'
  BY <1>2 DEF Single
<1>4. ASSUME NEW p \in Packets PROVE p \in Waiting' <=> p \in Waiting /\ p \notin AtHead
  <2>1. ASSUME NEW i \in DOMAIN inbox', inbox'[i] = PacketF(p)
        PROVE  p \in Waiting /\ p \notin AtHead
    <3>1. i + 1 \in DOMAIN inbox /\ inbox[i + 1] = PacketF(p) /\ i + 1 # 1 /\ 1 \in DOMAIN inbox
      BY <1>2, <2>1
    <3>2. inbox[1] # PacketF(p)
      BY <3>1, Frames DEF Single
    <3> QED BY <1>2, <3>1, <3>2 DEF Waiting, At, AtHead
  <2>2. ASSUME NEW i \in DOMAIN inbox, inbox[i] = PacketF(p), p \notin AtHead
        PROVE  p \in Waiting'
    <3>1. i # 1
      BY <1>2, <2>2 DEF AtHead
    <3>2. i - 1 \in DOMAIN inbox' /\ inbox'[i - 1] = PacketF(p)
      BY <1>2, <2>2, <3>1
    <3> QED BY <3>2 DEF Waiting, At
  <2> QED BY <2>1, <2>2 DEF Waiting, At
<1>5. AtHead \subseteq Waiting
  BY <1>2 DEF AtHead, Waiting, At
<1> QED BY <1>3, <1>4, <1>5 DEF Waiting

LEMMA GrownPackets ==
    ASSUME Typed, Single, NEW s \in Seq(Frame), Added(s),
           \A i \in DOMAIN s : s[i].type # "packet"
    PROVE  Single' /\ Waiting' = Waiting
<1>1. inbox \in Seq(Frame)
  BY DEF Typed
<1>2. /\ DOMAIN inbox' = 1 .. Len(inbox) + Len(s) /\ DOMAIN inbox = 1 .. Len(inbox)
      /\ DOMAIN s = 1 .. Len(s) /\ Len(inbox) \in Nat /\ Len(s) \in Nat
      /\ \A i \in DOMAIN inbox : inbox'[i] = inbox[i]
      /\ \A i \in DOMAIN s : inbox'[Len(inbox) + i] = s[i]
  BY <1>1, Grown
<1>3. \A i \in DOMAIN inbox' : inbox'[i].type = "packet" => i \in DOMAIN inbox /\ inbox'[i] = inbox[i]
  <2> TAKE i \in DOMAIN inbox'
  <2>1. CASE i \in DOMAIN inbox
    BY <1>2, <2>1
  <2>2. CASE i \notin DOMAIN inbox
    <3>1. i - Len(inbox) \in DOMAIN s /\ i = Len(inbox) + (i - Len(inbox))
      BY <1>2, <2>2
    <3> QED BY <1>2, <3>1
  <2> QED BY <2>1, <2>2
<1>4. DOMAIN inbox \subseteq DOMAIN inbox'
  BY <1>2
<1>5. Single'
  BY <1>3 DEF Single
<1>6. \A p \in Packets : At(p)' = At(p)
  BY <1>2, <1>3, <1>4, Frames DEF At
<1> QED BY <1>5, <1>6 DEF Waiting

LEMMA HeardPacket ==
    ASSUME Typed, Single, NEW p \in Packets, p \notin Waiting, inbox' = Append(inbox, PacketF(p))
    PROVE  Single' /\ Waiting' = Waiting \cup {p}
<1>1. inbox \in Seq(Frame) /\ PacketF(p) \in Frame
  BY Frames DEF Typed
<1>2. /\ DOMAIN inbox' = 1 .. Len(inbox) + 1 /\ DOMAIN inbox = 1 .. Len(inbox)
      /\ Len(inbox) \in Nat
      /\ \A i \in DOMAIN inbox : inbox'[i] = inbox[i]
      /\ inbox'[Len(inbox) + 1] = PacketF(p)
  BY <1>1
<1>3. \A i \in DOMAIN inbox : inbox[i] # PacketF(p)
  BY DEF Waiting, At
<1>4. \A i \in DOMAIN inbox' : i \in DOMAIN inbox \/ i = Len(inbox) + 1
  BY <1>2
<1>5. Single'
  BY <1>2, <1>3, <1>4 DEF Single
<1>6. \A q \in Packets : q \in Waiting' <=> q \in Waiting \/ q = p
  BY <1>2, <1>4, Frames DEF Waiting, At
<1> QED BY <1>5, <1>6 DEF Waiting

\* One step per place a packet can be moved from.
LEMMA NextPlaced ==
    ASSUME PacketInv, Typed', [Next]_vars
    PROVE  Single' /\ Apart'
<1>w. /\ world' = world /\ (cancelled => cancelled') /\ Refused' = Refused
      /\ Typed /\ Single /\ Apart /\ unheard \subseteq Packets
      /\ main = "connect" => reader = "off"
  BY WorldFixed DEF PacketInv, Typed, Refused, Forwardable
<1> USE <1>w DEF clock, sweep, emit, air, Faulty
<1>s. /\ inbox' = inbox => Single' /\ Waiting' = Waiting
  BY DEF Single, Waiting, At
<1>h. inbox # <<>> /\ Head(inbox).type # "packet" => AtHead = {}
  BY Frames DEF AtHead
<1>t. Took /\ Head(inbox).type # "packet" => Single' /\ Waiting' = Waiting
  BY <1>h, TakenPackets DEF Took
<1>g. \A f \in Frame : f.type # "packet" /\ inbox' = Append(inbox, f) => Single' /\ Waiting' = Waiting
  <2> SUFFICES ASSUME NEW f \in Frame, f.type # "packet", inbox' = Append(inbox, f)
               PROVE  Single' /\ Waiting' = Waiting
    OBVIOUS
  <2>1. Added(<<f>>) /\ <<f>> \in Seq(Frame) /\ \A i \in DOMAIN <<f>> : <<f>>[i].type # "packet"
    BY Appended DEF Typed
  <2> QED BY <2>1, GrownPackets
<1>k. inbox' = inbox /\ UNCHANGED <<unheard, reader, hand, swallowed, published>> => Single' /\ Apart'
  BY <1>s DEF Apart, Held, Swept
<1>1. ASSUME NEW p \in unheard, Hear(p), UNCHANGED Others PROVE Single' /\ Apart'
  <2>1. p \in Packets /\ p \notin Waiting
    BY <1>1 DEF Apart
  <2>2. Single' /\ Waiting' = Waiting \cup {p}
    BY <1>1, <2>1, HeardPacket DEF Hear
  <2> QED BY <1>1, <2>1, <2>2 DEF Hear, Others, Apart, Held, Swept
<1>2. ASSUME NEW m \in Nodes, Learn(m), UNCHANGED Others PROVE Single' /\ Apart'
  <2>1. NodeF(m, db[m] + 1) \in Frame /\ NodeF(m, db[m] + 1).type # "packet"
    BY <1>2, AgentAssumption DEF Learn, Typed, NodeF, Frame, Row, Version, Never
  <2>2. Single' /\ Waiting' = Waiting
    BY <1>2, <2>1, <1>g DEF Learn
  <2> QED BY <1>2, <2>2 DEF Learn, Others, Apart, Held, Swept
<1>3. ASSUME Garble, UNCHANGED Others PROVE Single' /\ Apart'
  <2>1. Single' /\ Waiting' = Waiting
    BY <1>3, Frames, <1>g DEF Garble
  <2> QED BY <1>3, <2>1 DEF Garble, Others, Apart, Held, Swept
<1>4. ASSUME LoseLink, UNCHANGED Others PROVE Single' /\ Apart'
  BY <1>4, <1>k DEF Apart, Held, Swept, LoseLink, Others
<1>5. CASE Tick
  BY <1>5, <1>k DEF Apart, Held, Swept, Tick
<1>6. CASE Signal
  BY <1>6, <1>k DEF Apart, Held, Swept, Signal
<1>7. CASE MetricsTick
  BY <1>7, <1>k DEF Apart, Held, Swept, MetricsTick
<1>8. CASE Connect \/ ConnectFails
  <2>1. reader = "off" /\ reader' \in {"off", "recv"}
        /\ UNCHANGED <<inbox, unheard, swallowed, published>>
    BY <1>8 DEF Connect, ConnectFails
  <2> QED BY <2>1, <1>s DEF Apart, Held, Swept
<1>9. CASE SelectTick
  BY <1>9, <1>k DEF Apart, Held, Swept, SelectTick
<1>10. CASE SelectDone
  BY <1>10, <1>k DEF Apart, Held, Swept, SelectDone
<1>11. CASE SelectErr
  BY <1>11, <1>k DEF Apart, Held, Swept, SelectErr
<1>12. CASE AwaitReader
  BY <1>12, <1>k DEF Apart, Held, Swept, AwaitReader
<1>13. CASE VisitNode
  BY <1>13, <1>k DEF Apart, Held, Swept, VisitNode, EmitDone, Known
<1>14. CASE MaybeEmit
  BY <1>14, <1>k DEF Apart, Held, Swept, MaybeEmit, EmitDone, NextKind, PublishFailed
<1>15. CASE ReaderRecv
  <2>1. Single' /\ Waiting' = Waiting \ AtHead /\ AtHead \subseteq Waiting
    BY <1>15, TakenPackets DEF ReaderRecv, Took
  <2>2. Held = {} /\ Held' = AtHead
    BY <1>15 DEF ReaderRecv, Held, AtHead
  <2>3. UNCHANGED <<unheard, swallowed, published>>
    BY <1>15 DEF ReaderRecv
  <2> QED BY <2>1, <2>2, <2>3 DEF Apart, Swept
<1>16. CASE ReaderFails
  <2>1. Single' /\ Waiting' = Waiting
    BY <1>16, <1>s, <1>t DEF ReaderFails, LinkError, Took
  <2>2. reader = "recv" /\ reader' = "stopped" /\ UNCHANGED <<unheard, swallowed, published>>
    BY <1>16 DEF ReaderFails, LinkError
  <2> QED BY <2>1, <2>2 DEF Apart, Held, Swept
<1>17. CASE ReaderHandle
  <2>1. /\ reader = "handle" /\ reader' = "recv"
        /\ UNCHANGED <<inbox, unheard, swallowed>>
    BY <1>17 DEF ReaderHandle
  <2>2. Held' = {} /\ Single' /\ Waiting' = Waiting /\ Swept' = Swept
    BY <2>1, <1>s DEF Held, Swept
  <2>3. CASE hand.type = "packet"
    <3>1. hand.packet \in Packets /\ hand = PacketF(hand.packet)
      BY <2>3, Frames DEF Typed
    <3>2. Held = {hand.packet}
      BY <2>1, <3>1, Frames DEF Held
    <3>3. \/ hand.packet \in Refused /\ published' = published
          \/ hand.packet \notin Refused /\ published' = published \cup {hand.packet}
          \/ (cancelled \/ Faulty("broker")) /\ published' = published
      BY <1>17, <2>3, <3>1 DEF ReaderHandle, Refused
    <3> QED BY <2>1, <2>2, <3>2, <3>3 DEF Apart
  <2>4. CASE hand.type # "packet"
    <3>1. Held = {} /\ published' = published
      BY <1>17, <2>4, Frames DEF ReaderHandle, Held
    <3> QED BY <2>1, <2>2, <3>1 DEF Apart
  <2> QED BY <2>3, <2>4
<1>18. ASSUME NEW a \in Actors, SendWant(a) PROVE Single' /\ Apart'
  <2>1. UNCHANGED <<unheard, reader, hand, swallowed, published>>
    BY <1>18 DEF SendWant
  <2>2. CASE inbox' = inbox
    BY <2>1, <2>2, <1>k
  <2>3. CASE inbox' # inbox
    <3>1. PICK answer \in Answers(sweeps + 1) : Added(answer)
      BY <1>18, <2>3 DEF SendWant, Added
    <3>2. answer \in Seq(Frame) /\ \A i \in DOMAIN answer : answer[i].type # "packet"
      <4>1. sweeps + 1 \in Nat /\ db \in [Nodes -> Row]
        BY DEF Typed
      <4>2. PICK n \in Nat : \E rows \in [1 .. n -> Known(db)] :
              /\ answer \in Seq(Frame) /\ Len(answer) = n + 1
              /\ \A i \in 1 .. n : answer[i] = NodeF(rows[i], db[rows[i]])
              /\ answer[n + 1] = DoneF(sweeps + 1)
        BY <4>1, AnswerShape
      <4>3. DOMAIN answer = 1 .. n + 1 /\ \A i \in 1 .. n + 1 : i \in 1 .. n \/ i = n + 1
        BY <4>2
      <4>4. \A i \in 1 .. n : \E m, v : answer[i] = NodeF(m, v)
        BY <4>2
      <4>5. /\ \A m, v : NodeF(m, v).type = "node"
            /\ DoneF(sweeps + 1).type = "complete" /\ answer[n + 1] = DoneF(sweeps + 1)
        BY <4>2 DEF NodeF, DoneF
      <4> QED BY <4>2, <4>3, <4>4, <4>5
    <3>3. Single' /\ Waiting' = Waiting
      BY <3>1, <3>2, GrownPackets
    <3> QED BY <2>1, <3>3 DEF Apart, Held, Swept
  <2> QED BY <2>2, <2>3
<1>19. ASSUME NEW a \in Actors, SweepRecv(a) PROVE Single' /\ Apart'
  <2>1. Single' /\ Waiting' = Waiting \ AtHead /\ AtHead \subseteq Waiting
    BY <1>19, TakenPackets DEF SweepRecv, Took
  <2>2. Head(inbox) \in Frame /\ inbox # <<>>
    BY <1>19 DEF SweepRecv, Typed
  <2>3. swallowed' = IF Head(inbox).type = "packet"
                     THEN [swallowed EXCEPT ![a] = @ \cup {Head(inbox).packet}] ELSE swallowed
    BY <1>19 DEF SweepRecv
  <2>4. Swept' = Swept \cup AtHead
    <3>1. CASE Head(inbox).type = "packet"
      <4>1. AtHead = {Head(inbox).packet}
        BY <2>2, <3>1, Frames DEF AtHead
      <4>2. swallowed' = [swallowed EXCEPT ![a] = @ \cup AtHead]
        BY <2>3, <3>1, <4>1
      <4> QED BY <4>2 DEF Swept, Typed, Actors
    <3>2. CASE Head(inbox).type # "packet"
      BY <2>2, <2>3, <3>2, <1>h DEF Swept
    <3> QED BY <3>1, <3>2
  <2>5. UNCHANGED <<unheard, reader, hand, published>>
    BY <1>19 DEF SweepRecv
  <2> QED BY <2>1, <2>4, <2>5 DEF Apart, Held
<1>20. ASSUME NEW a \in Actors, SweepFails(a) PROVE Single' /\ Apart'
  <2>1. inbox' = inbox \/ (Took /\ Head(inbox).type = "junk")
    BY <1>20 DEF SweepFails, RecvFails, LinkError, Took
  <2>2. Single' /\ Waiting' = Waiting
    BY <2>1, <1>s, <1>t DEF Took
  <2>3. UNCHANGED <<unheard, reader, hand, swallowed, published>>
    BY <1>20 DEF SweepFails
  <2> QED BY <2>2, <2>3 DEF Apart, Held, Swept
<1>21. ASSUME NEW a \in Actors, StoreSweep(a) PROVE Single' /\ Apart'
  BY <1>21, <1>k DEF Apart, Held, Swept, StoreSweep, PcOf, Store
<1>22. CASE UNCHANGED vars
  BY <1>22, <1>k DEF Apart, Held, Swept, vars
<1> QED BY <1>1, <1>2, <1>3, <1>4, <1>5, <1>6, <1>7, <1>8, <1>9, <1>10, <1>11,
           <1>12, <1>13, <1>14, <1>15, <1>16, <1>17, <1>18, <1>19, <1>20, <1>21, <1>22
        DEF Next, World, MainStep, ReaderStep, GetState, Actors, Others

LEMMA InitPlaced == Init => PacketInv
<1> SUFFICES ASSUME Init PROVE PacketInv
  OBVIOUS
<1>1. Typed
  <2>1. Version \subseteq Nat /\ 0 \in Version /\ \A w \in Worlds : w.time \in Nat /\ w.packets \subseteq Packets
    BY AgentAssumption DEF Version
  <2>2. db \in [Nodes -> Row] /\ nodes \in [Nodes -> Row] /\ todo \in [Nodes -> Row]
    BY <2>1 DEF Init, NoRow, Row
  <2>3. got \in [Actors -> [Nodes -> Row]]
    BY DEF Init, NoRow, Row
  <2>4. last \in [Nodes \X Kinds -> Never .. now] /\ now \in 0 .. world.time
    BY <2>1 DEF Init, Never
  <2>5. inbox \in Seq(Frame) /\ hand \in Frame
    BY Frames DEF Init
  <2> QED BY <2>1, <2>2, <2>3, <2>4, <2>5 DEF Init, Typed
<1>2. Single /\ Apart
  BY DEF Init, Single, Apart, Waiting, At, Held, Swept, Actors
<1> QED BY <1>1, <1>2 DEF PacketInv

LEMMA PacketInvAlways == Spec => []PacketInv
<1>1. PacketInv /\ [Next]_vars => PacketInv'
  BY NextTyped, NextPlaced DEF PacketInv
<1> QED BY InitPlaced, <1>1, PTL DEF Spec

\* The agent's type invariant, for any nodes, packets, kinds, cadences and faults.
THEOREM AgentTypeCorrect == Spec => []TypeOK
<1>1. PacketInv => TypeOK
  <2> SUFFICES ASSUME PacketInv PROVE TypeOK
    OBVIOUS
  <2>1. Len(errCh) <= 1 /\ (errCh # <<>> => reader = "stopped")
    <3>1. CASE errCh = <<>>
      BY <3>1
    <3>2. ASSUME NEW e, errCh = <<e>>, reader = "stopped"
          PROVE  Len(errCh) <= 1 /\ (errCh # <<>> => reader = "stopped")
      BY <3>2
    <3> QED BY <3>1, <3>2 DEF PacketInv, Typed
  <2>2. published \subseteq Packets \ unheard
    BY DEF PacketInv, Typed, Apart
  <2> QED BY <2>1, <2>2 DEF PacketInv, Typed, TypeOK, Row
<1> QED BY PacketInvAlways, <1>1, PTL

\* Whichever goroutine takes a frame, no mesh packet is published twice over, lost in
\* the agent or forwarded against its sender's wish (readLoop and handlePacket,
\* agent.go, docs/configure.md:100).
THEOREM PacketsAlwaysAccountedFor == Spec => []PacketsAccountedFor
<1>1. PacketInv => PacketsAccountedFor
  BY AgentAssumption DEF PacketInv, Typed, Apart, PacketsAccountedFor, Waiting, At, Held, Swept, Refused
<1> QED BY PacketInvAlways, <1>1, PTL
-----------------------------------------------------------------------------
(* Refreshes: rows and markers on their way through the transport.         *)

\* Node n's row, and behind it the marker of sweep id, wait in the transport.
Marker(i, id)  == inbox[i].type = "complete" /\ inbox[i].id = id
RowOf(i, n)    == inbox[i].type = "node" /\ inbox[i].node = n
Coming(n, id)  == \E i, j \in DOMAIN inbox : i < j /\ RowOf(i, n) /\ Marker(j, id)
Have(n)        == nodes[n] # Never \/ InReader(n) \/ InMetrics(n)
Quiet          == world.faults = {} /\ ~cancelled

\* Every sweep has a marker of its own, and no fault strikes a world without them.
Marks ==
    /\ \A i \in DOMAIN inbox : inbox[i].type = "complete" => inbox[i].id <= sweeps
    /\ \A i, j \in DOMAIN inbox : \A id : Marker(i, id) /\ Marker(j, id) => i = j
    /\ world.faults = {} => link = "up" /\ \A i \in DOMAIN inbox : inbox[i].type # "junk"

\* What the main sweep was promised is stored, or on its way to be.
Learns == \A n \in asked["main"] :
    /\ main = "sweep" => Have(n) \/ got["main"][n] # Never \/ Coming(n, want["main"])
    /\ main = "store" => Have(n) \/ got["main"][n] # Never
RefreshInv == Typed /\ Marks /\ (Quiet => Learns)

\* A row at the head is at hand, one further back moves up.
LEMMA ComingTaken ==
    ASSUME Typed, Took, NEW n, NEW id, Coming(n, id)
    PROVE  Coming(n, id)' \/ (Head(inbox).type = "node" /\ Head(inbox).node = n)
<1>1. /\ Head(inbox) = inbox[1]
      /\ DOMAIN inbox' = 1 .. Len(inbox) - 1 /\ DOMAIN inbox = 1 .. Len(inbox)
      /\ Len(inbox) \in Nat \ {0}
      /\ \A i \in DOMAIN inbox' : inbox'[i] = inbox[i + 1]
  BY Taken DEF Typed
<1>2. PICK i \in DOMAIN inbox, j \in DOMAIN inbox : i < j /\ RowOf(i, n) /\ Marker(j, id)
  BY DEF Coming
<1>3. CASE i = 1
  BY <1>1, <1>2, <1>3 DEF RowOf
<1>4. CASE i # 1
  <2>1. /\ i - 1 \in DOMAIN inbox' /\ j - 1 \in DOMAIN inbox' /\ i - 1 < j - 1
        /\ inbox'[i - 1] = inbox[i] /\ inbox'[j - 1] = inbox[j]
    BY <1>1, <1>2, <1>4
  <2> QED BY <1>2, <2>1 DEF Coming, RowOf, Marker
<1> QED BY <1>3, <1>4

LEMMA ComingGrown ==
    ASSUME Typed, NEW s \in Seq(Frame), Added(s), NEW n, NEW id, Coming(n, id)
    PROVE  Coming(n, id)'
<1>1. /\ DOMAIN inbox \subseteq DOMAIN inbox'
      /\ \A i \in DOMAIN inbox : inbox'[i] = inbox[i]
  BY Grown DEF Typed
<1> QED BY <1>1 DEF Coming, RowOf, Marker

\* An answer brings the row of every known node ahead of its marker.
LEMMA ComingAnswered ==
    ASSUME Typed, NEW id \in Nat, NEW answer \in Answers(id), Added(answer), NEW x \in Known(db)
    PROVE  Coming(x, id)'
<1>1. PICK n \in Nat : \E rows \in [1 .. n -> Known(db)] :
              /\ answer \in Seq(Frame) /\ Len(answer) = n + 1
              /\ \A i \in 1 .. n : answer[i] = NodeF(rows[i], db[rows[i]])
              /\ answer[n + 1] = DoneF(id)
              /\ \A y \in Known(db) : \E i \in 1 .. n : rows[i] = y
  BY AnswerShape DEF Typed
<1>2. PICK i \in 1 .. n : answer[i] = NodeF(x, db[x])
  BY <1>1
<1>3. /\ DOMAIN inbox' = 1 .. Len(inbox) + Len(answer) /\ Len(inbox) \in Nat
      /\ DOMAIN answer = 1 .. Len(answer)
      /\ \A k \in DOMAIN answer : inbox'[Len(inbox) + k] = answer[k]
  BY <1>1, Grown DEF Typed
<1>4. Len(answer) = n + 1 /\ answer[n + 1] = DoneF(id)
  BY <1>1
<1>5. \E j, k \in DOMAIN inbox' : j < k /\ inbox'[j] = NodeF(x, db[x]) /\ inbox'[k] = DoneF(id)
  <2>1. Len(inbox) + i \in DOMAIN inbox' /\ Len(inbox) + (n + 1) \in DOMAIN inbox'
    BY <1>3, <1>4
  <2>2. inbox'[Len(inbox) + i] = NodeF(x, db[x]) /\ inbox'[Len(inbox) + (n + 1)] = DoneF(id)
    BY <1>2, <1>3, <1>4
  <2>3. Len(inbox) + i < Len(inbox) + (n + 1)
    BY <1>3
  <2> QED BY <2>1, <2>2, <2>3
<1>6. /\ NodeF(x, db[x]).type = "node" /\ NodeF(x, db[x]).node = x
      /\ DoneF(id).type = "complete" /\ DoneF(id).id = id
  BY DEF NodeF, DoneF
<1> QED BY <1>5, <1>6 DEF Coming, RowOf, Marker

\* The markers in the transport after each thing a step may do to it.
LEMMA MarksTaken ==
    ASSUME Typed, Marks, Took, UNCHANGED <<sweeps, world, link>>
    PROVE  Marks'
<1>1. /\ DOMAIN inbox' = 1 .. Len(inbox) - 1 /\ DOMAIN inbox = 1 .. Len(inbox)
      /\ Len(inbox) \in Nat \ {0}
      /\ \A i \in DOMAIN inbox' : inbox'[i] = inbox[i + 1]
  BY Taken DEF Typed
<1>2. \A i \in DOMAIN inbox' : i + 1 \in DOMAIN inbox /\ i \in Nat /\ inbox'[i] = inbox[i + 1]
  BY <1>1
<1>3. \A i \in DOMAIN inbox' : \A id : Marker(i, id)' => Marker(i + 1, id)
  BY <1>2 DEF Marker
<1>4. \A i, j \in DOMAIN inbox' : \A id : Marker(i, id)' /\ Marker(j, id)' => i = j
  <2> TAKE i, j \in DOMAIN inbox'
  <2> TAKE id
  <2> HAVE Marker(i, id)' /\ Marker(j, id)'
  <2>1. i + 1 = j + 1
    BY <1>2, <1>3 DEF Marks
  <2> QED BY <1>2, <2>1
<1> QED BY <1>2, <1>4 DEF Marks

LEMMA MarksGrown ==
    ASSUME Typed, Marks, NEW s \in Seq(Frame), Added(s), UNCHANGED <<sweeps, world, link>>,
           \A i \in DOMAIN s : s[i].type \in {"packet", "node"}
    PROVE  Marks'
<1>1. /\ DOMAIN inbox' = 1 .. Len(inbox) + Len(s) /\ DOMAIN inbox = 1 .. Len(inbox)
      /\ DOMAIN s = 1 .. Len(s) /\ Len(inbox) \in Nat /\ Len(s) \in Nat
      /\ \A i \in DOMAIN inbox : inbox'[i] = inbox[i]
      /\ \A i \in DOMAIN s : inbox'[Len(inbox) + i] = s[i]
  BY Grown DEF Typed
<1>2. \A i \in DOMAIN inbox' : \/ i \in DOMAIN inbox /\ inbox'[i] = inbox[i]
                              \/ inbox'[i].type \in {"packet", "node"}
  <2> TAKE i \in DOMAIN inbox'
  <2>1. CASE i \in DOMAIN inbox
    BY <1>1, <2>1
  <2>2. CASE i \notin DOMAIN inbox
    <3>1. i - Len(inbox) \in DOMAIN s /\ i = Len(inbox) + (i - Len(inbox))
      BY <1>1, <2>2
    <3> QED BY <1>1, <3>1
  <2> QED BY <2>1, <2>2
<1> QED BY <1>2 DEF Marks, Marker

LEMMA MarksAnswered ==
    ASSUME Typed, Marks, NEW answer \in Answers(sweeps + 1), Added(answer),
           sweeps' = sweeps + 1, UNCHANGED <<world, link>>
    PROVE  Marks'
<1>0. /\ sweeps \in Nat /\ sweeps + 1 \in Nat /\ db \in [Nodes -> Row] /\ inbox \in Seq(Frame)
      /\ \A f \in Frame : f.type = "complete" => f.id \in Nat
  BY DEF Typed, Frame
<1>1. PICK n \in Nat : \E rows \in [1 .. n -> Known(db)] :
              /\ answer \in Seq(Frame) /\ Len(answer) = n + 1
              /\ \A i \in 1 .. n : answer[i] = NodeF(rows[i], db[rows[i]])
              /\ answer[n + 1] = DoneF(sweeps + 1)
  BY <1>0, AnswerShape
<1>2. /\ answer \in Seq(Frame) /\ Len(answer) = n + 1 /\ answer[n + 1] = DoneF(sweeps + 1)
      /\ \A i \in 1 .. n : \E m, v : answer[i] = NodeF(m, v)
  BY <1>1
<1>3. /\ DOMAIN inbox' = 1 .. Len(inbox) + (n + 1) /\ DOMAIN inbox = 1 .. Len(inbox)
      /\ Len(inbox) \in Nat /\ DOMAIN answer = 1 .. n + 1
      /\ \A i \in DOMAIN inbox : inbox'[i] = inbox[i]
      /\ \A i \in DOMAIN answer : inbox'[Len(inbox) + i] = answer[i]
  BY <1>0, <1>2, Grown
<1>4. /\ \A m, v : NodeF(m, v).type = "node"
      /\ DoneF(sweeps + 1).type = "complete" /\ DoneF(sweeps + 1).id = sweeps + 1
  BY DEF NodeF, DoneF
<1> DEFINE z == Len(inbox) + (n + 1)
<1>5. z \in Nat /\ inbox'[z].type = "complete" /\ inbox'[z].id = sweeps + 1
  BY <1>2, <1>3, <1>4
<1>6. \A i \in DOMAIN inbox' : \/ i \in DOMAIN inbox /\ inbox'[i] = inbox[i]
                              \/ i = z
                              \/ inbox'[i].type = "node"
  <2> TAKE i \in DOMAIN inbox'
  <2>1. CASE i \in DOMAIN inbox
    BY <1>3, <2>1
  <2>2. CASE i \notin DOMAIN inbox /\ i # z
    <3>1. i - Len(inbox) \in 1 .. n /\ i = Len(inbox) + (i - Len(inbox))
      BY <1>3, <2>2
    <3> QED BY <1>2, <1>3, <1>4, <3>1
  <2> QED BY <2>1, <2>2
<1> HIDE DEF z
<1>7. \A i \in DOMAIN inbox : inbox[i].type = "complete" => inbox[i].id \in Nat /\ inbox[i].id <= sweeps
  <2> TAKE i \in DOMAIN inbox
  <2>1. inbox[i] \in Frame
    BY <1>0
  <2> QED BY <1>0, <2>1 DEF Marks
<1>8. \A i \in DOMAIN inbox' : inbox'[i].type = "complete" => inbox'[i].id <= sweeps'
  BY <1>0, <1>5, <1>6, <1>7
<1>9. \A i, j \in DOMAIN inbox' : \A id : Marker(i, id)' /\ Marker(j, id)' => i = j
  <2> TAKE i, j \in DOMAIN inbox'
  <2> TAKE id
  <2> HAVE Marker(i, id)' /\ Marker(j, id)'
  <2>1. \A k \in DOMAIN inbox : inbox[k].type = "complete" => inbox[k].id # sweeps + 1
    BY <1>0, <1>7
  <2>2. CASE i = z \/ j = z
    BY <1>5, <1>6, <2>1, <2>2 DEF Marker
  <2>3. CASE i # z /\ j # z
    BY <1>6, <2>3 DEF Marker, Marks
  <2> QED BY <2>2, <2>3
<1>10. \A i \in DOMAIN inbox' : inbox'[i].type = "junk" => i \in DOMAIN inbox /\ inbox'[i] = inbox[i]
  BY <1>5, <1>6
<1> QED BY <1>8, <1>9, <1>10 DEF Marks

LEMMA NextMarks ==
    ASSUME Typed, Marks, [Next]_vars
    PROVE  Marks'
<1> USE DEF clock, sweep, emit, air
<1>w. world' = world
  BY WorldFixed
<1>t. Took /\ UNCHANGED <<sweeps, world, link>> => Marks'
  BY MarksTaken
<1>g. \A f \in Frame : f.type \in {"packet", "node"} /\ inbox' = Append(inbox, f)
                      /\ UNCHANGED <<sweeps, world, link>> => Marks'
  <2> SUFFICES ASSUME NEW f \in Frame, f.type \in {"packet", "node"}, inbox' = Append(inbox, f),
                      UNCHANGED <<sweeps, world, link>>
               PROVE  Marks'
    OBVIOUS
  <2>1. Added(<<f>>) /\ <<f>> \in Seq(Frame)
        /\ \A i \in DOMAIN <<f>> : <<f>>[i].type \in {"packet", "node"}
    BY Appended DEF Typed
  <2> QED BY <2>1, MarksGrown
<1>k. UNCHANGED <<inbox, sweeps, world, link>> => Marks'
  BY DEF Marks, Marker
<1>1. ASSUME NEW p \in unheard, Hear(p), UNCHANGED Others PROVE Marks'
  <2>1. PacketF(p) \in Frame /\ PacketF(p).type = "packet"
    BY <1>1, Frames DEF Typed
  <2> QED BY <1>1, <2>1, <1>g, <1>w DEF Hear, Others
<1>2. ASSUME NEW m \in Nodes, Learn(m), UNCHANGED Others PROVE Marks'
  <2>1. NodeF(m, db[m] + 1) \in Frame /\ NodeF(m, db[m] + 1).type = "node"
    <3>1. db[m] + 1 \in Version
      <4>1. db[m] \in Row /\ db[m] < MaxVersion /\ MaxVersion \in Nat
        BY <1>2, AgentAssumption DEF Learn, Typed
      <4> QED BY <4>1 DEF Row, Version, Never
    <3> QED BY <3>1 DEF NodeF, Frame
  <2> QED BY <1>2, <2>1, <1>g, <1>w DEF Learn, Others
<1>3. ASSUME Garble, UNCHANGED Others PROVE Marks'
  <2>1. world.faults # {} /\ inbox' = Append(inbox, JunkF)
    BY <1>3 DEF Garble, Faulty
  <2>2. /\ DOMAIN inbox' = 1 .. Len(inbox) + 1 /\ DOMAIN inbox = 1 .. Len(inbox)
        /\ \A i \in DOMAIN inbox : inbox'[i] = inbox[i]
        /\ inbox'[Len(inbox) + 1].type = "junk" /\ Len(inbox) \in Nat
    BY <2>1, Frames DEF Typed
  <2>3. \A i \in DOMAIN inbox' : \/ i \in DOMAIN inbox /\ inbox'[i] = inbox[i]
                                \/ inbox'[i].type = "junk"
    BY <2>2
  <2> QED BY <1>3, <2>1, <2>3, <1>w DEF Marks, Marker, Others
<1>4. ASSUME LoseLink, UNCHANGED Others PROVE Marks'
  <2>1. world.faults # {} /\ UNCHANGED <<inbox, sweeps>>
    BY <1>4 DEF LoseLink, Faulty, Others
  <2> QED BY <2>1, <1>w DEF Marks, Marker
<1>5. CASE Tick
  BY <1>5, <1>k, <1>w DEF Tick
<1>6. CASE Signal
  BY <1>6, <1>k, <1>w DEF Signal
<1>7. CASE MetricsTick
  BY <1>7, <1>k, <1>w DEF MetricsTick
<1>8. CASE Connect \/ ConnectFails
  BY <1>8, <1>k, <1>w DEF Connect, ConnectFails
<1>9. CASE SelectTick
  BY <1>9, <1>k, <1>w DEF SelectTick
<1>10. CASE SelectDone
  BY <1>10, <1>k, <1>w DEF SelectDone
<1>11. CASE SelectErr
  BY <1>11, <1>k, <1>w DEF SelectErr
<1>12. CASE AwaitReader
  BY <1>12, <1>k, <1>w DEF AwaitReader
<1>13. CASE VisitNode
  BY <1>13, <1>k, <1>w DEF VisitNode, EmitDone, Known
<1>14. CASE MaybeEmit
  BY <1>14, <1>k, <1>w DEF MaybeEmit, EmitDone, NextKind, PublishFailed
<1>15. CASE ReaderRecv
  BY <1>15, <1>t, <1>w DEF ReaderRecv, Took
<1>16. CASE ReaderFails
  BY <1>16, <1>t, <1>k, <1>w DEF ReaderFails, LinkError, Took
<1>17. CASE ReaderHandle
  BY <1>17, <1>k, <1>w DEF ReaderHandle, Forwardable
<1>18. ASSUME NEW a \in Actors, SendWant(a) PROVE Marks'
  <2>1. CASE UNCHANGED <<inbox, sweep>>
    BY <1>18, <2>1, <1>k, <1>w DEF SendWant
  <2>2. CASE ~UNCHANGED <<inbox, sweep>>
    <3>1. /\ sweeps' = sweeps + 1 /\ UNCHANGED <<world, link>>
          /\ inbox' = inbox \/ \E answer \in Answers(sweeps + 1) : Added(answer)
      BY <1>18, <2>2 DEF SendWant, Added
    <3>2. CASE inbox' = inbox
      <4>1. \A i \in DOMAIN inbox : inbox[i] \in Frame
        BY DEF Typed
      <4>2. \A f \in Frame : f.type = "complete" => f.id \in Nat
        BY DEF Frame
      <4>3. sweeps \in Nat /\ \A i \in DOMAIN inbox : inbox[i].type = "complete" => inbox[i].id \in Nat
        BY <4>1, <4>2 DEF Typed
      <4>4. \A i \in DOMAIN inbox : inbox[i].type = "complete" => inbox[i].id <= sweeps + 1
        BY <4>3 DEF Marks
      <4> QED BY <3>1, <3>2, <4>4 DEF Marks, Marker
    <3> QED BY <3>1, <3>2, MarksAnswered
  <2> QED BY <2>1, <2>2
<1>19. ASSUME NEW a \in Actors, SweepRecv(a) PROVE Marks'
  BY <1>19, <1>t, <1>w DEF SweepRecv, Took
<1>20. ASSUME NEW a \in Actors, SweepFails(a) PROVE Marks'
  BY <1>20, <1>t, <1>k, <1>w DEF SweepFails, RecvFails, LinkError, Took
<1>21. ASSUME NEW a \in Actors, StoreSweep(a) PROVE Marks'
  BY <1>21, <1>k, <1>w DEF StoreSweep, PcOf, Store
<1>22. CASE UNCHANGED vars
  BY <1>22, <1>k, <1>w DEF vars
<1> QED BY <1>1, <1>2, <1>3, <1>4, <1>5, <1>6, <1>7, <1>8, <1>9, <1>10, <1>11,
           <1>12, <1>13, <1>14, <1>15, <1>16, <1>17, <1>18, <1>19, <1>20, <1>21, <1>22
        DEF Next, World, MainStep, ReaderStep, GetState, Actors, Others

\* What makes a receive fail strikes no quiet world.
LEMMA QuietReceives ==
    ASSUME Typed, Marks, Quiet
    PROVE  /\ \A a \in Actors : ~SweepFails(a)
           /\ ~ReaderFails /\ link = "up"
<1>1. link = "up" /\ \A i \in DOMAIN inbox : inbox[i].type # "junk"
  BY DEF Marks, Quiet
<1>2. inbox # <<>> => Head(inbox) = inbox[1] /\ 1 \in DOMAIN inbox
  BY DEF Typed
<1> QED BY <1>1, <1>2 DEF SweepFails, RecvFails, ReaderFails, LinkError, Quiet

\* A row once at hand or stored is kept: the reader and the metrics sweep store theirs.
LEMMA HaveStays ==
    ASSUME Typed, Marks, Quiet, [Next]_vars, NEW n \in Nodes, Have(n)
    PROVE  Have(n)'
<1> USE DEF clock, sweep, emit, air
<1>v. /\ Never = -1 /\ Version \subseteq Nat
      /\ nodes \in [Nodes -> Row] /\ got \in [Actors -> [Nodes -> Row]] /\ hand \in Frame
      /\ main = "connect" => reader = "off"
  BY DEF Typed, Never, Version
<1>k. UNCHANGED <<nodes, hand, metrics, got>> /\ (reader = "handle" => reader' = "handle") => Have(n)'
  BY DEF Have, InReader, InMetrics
<1>1. ASSUME NEW p \in unheard, Hear(p), UNCHANGED Others PROVE Have(n)'
  BY <1>1, <1>k DEF Hear, Others
<1>2. ASSUME NEW m \in Nodes, Learn(m), UNCHANGED Others PROVE Have(n)'
  BY <1>2, <1>k DEF Learn, Others
<1>3. ASSUME Garble, UNCHANGED Others PROVE Have(n)'
  BY <1>3, <1>k DEF Garble, Others
<1>4. ASSUME LoseLink, UNCHANGED Others PROVE Have(n)'
  BY <1>4, <1>k DEF LoseLink, Others
<1>5. CASE Tick
  BY <1>5, <1>k DEF Tick
<1>6. CASE Signal
  BY <1>6, <1>k DEF Signal
<1>7. CASE MetricsTick
  BY <1>7 DEF MetricsTick, Have, InReader, InMetrics
<1>8. CASE Connect \/ ConnectFails
  BY <1>8, <1>k, <1>v DEF Connect, ConnectFails
<1>9. CASE SelectTick
  BY <1>9, <1>k DEF SelectTick
<1>10. CASE SelectDone
  BY <1>10, <1>k DEF SelectDone
<1>11. CASE SelectErr
  BY <1>11, <1>k DEF SelectErr
<1>12. CASE AwaitReader
  BY <1>12, <1>k DEF AwaitReader
<1>13. CASE VisitNode
  BY <1>13, <1>k DEF VisitNode, EmitDone, Known
<1>14. CASE MaybeEmit
  BY <1>14, <1>k DEF MaybeEmit, EmitDone, NextKind, PublishFailed
<1>15. CASE ReaderRecv
  BY <1>15 DEF ReaderRecv, Have, InReader, InMetrics
<1>16. CASE ReaderFails
  BY <1>16, QuietReceives
<1>17. CASE ReaderHandle
  <2>1. UNCHANGED <<metrics, got>>
    BY <1>17 DEF ReaderHandle
  <2>2. CASE hand.type = "node"
    <3>1. nodes' = [nodes EXCEPT ![hand.node] = hand.version] /\ hand.node \in Nodes
          /\ hand.version \in Version
      BY <1>17, <2>2, <1>v, Frames DEF ReaderHandle
    <3>2. nodes[n] # Never \/ InReader(n) => nodes'[n] # Never
      BY <1>v, <3>1 DEF InReader
    <3> QED BY <2>1, <3>2 DEF Have, InMetrics
  <2>3. CASE hand.type # "node"
    <3>1. nodes' = nodes
      BY <1>17, <2>3 DEF ReaderHandle
    <3> QED BY <2>1, <2>3, <3>1 DEF Have, InReader, InMetrics
  <2> QED BY <2>2, <2>3
<1>18. ASSUME NEW a \in Actors, SendWant(a) PROVE Have(n)'
  <2>1. UNCHANGED <<nodes, reader, hand>> /\ PcOf(a) = "want"
    BY <1>18 DEF SendWant
  <2>2. CASE a = "main"
    <3>0. got' = got \/ got' = [got EXCEPT ![a] = NoRow]
      BY <1>18 DEF SendWant
    <3>1. metrics' = metrics /\ got'["metrics"] = got["metrics"]
      BY <1>18, <2>2, <3>0, <1>v DEF SendWant, Goto, Actors
    <3> QED BY <2>1, <3>1 DEF Have, InReader, InMetrics
  <2>3. CASE a # "main"
    BY <2>1, <2>3 DEF Have, InReader, InMetrics, PcOf
  <2> QED BY <2>2, <2>3
<1>19. ASSUME NEW a \in Actors, SweepRecv(a) PROVE Have(n)'
  <2>1. UNCHANGED <<nodes, reader, hand>> /\ PcOf(a) = "sweep" /\ Head(inbox) \in Frame
    BY <1>19 DEF SweepRecv, Typed
  <2>2. got' = IF Head(inbox).type = "node"
               THEN [got EXCEPT ![a][Head(inbox).node] = Head(inbox).version] ELSE got
    BY <1>19 DEF SweepRecv
  <2>3. metrics' = metrics \/ (metrics = "sweep" /\ metrics' = "store")
    BY <1>19, <2>1 DEF SweepRecv, Goto, PcOf
  <2>4. got["metrics"][n] # Never => got'["metrics"][n] # Never
    BY <1>v, <2>1, <2>2, Frames DEF Actors
  <2> QED BY <2>1, <2>3, <2>4 DEF Have, InReader, InMetrics
<1>20. ASSUME NEW a \in Actors, SweepFails(a) PROVE Have(n)'
  BY <1>20, QuietReceives
<1>21. ASSUME NEW a \in Actors, StoreSweep(a) PROVE Have(n)'
  <2>1. UNCHANGED <<reader, hand, got>> /\ PcOf(a) = "store" /\ nodes' = Store(got[a], nodes)
    BY <1>21 DEF StoreSweep
  <2>2. nodes[n] # Never \/ got[a][n] # Never => nodes'[n] # Never
    BY <2>1 DEF Store
  <2>3. CASE a = "main"
    <3>1. metrics' = metrics
      BY <1>21, <2>3 DEF StoreSweep
    <3> QED BY <2>1, <2>2, <3>1 DEF Have, InReader, InMetrics
  <2>4. CASE a = "metrics"
    BY <2>1, <2>2, <2>4 DEF Have, InReader, InMetrics
  <2> QED BY <2>3, <2>4 DEF Actors
<1>22. CASE UNCHANGED vars
  BY <1>22, <1>k DEF vars
<1> QED BY <1>1, <1>2, <1>3, <1>4, <1>5, <1>6, <1>7, <1>8, <1>9, <1>10, <1>11,
           <1>12, <1>13, <1>14, <1>15, <1>16, <1>17, <1>18, <1>19, <1>20, <1>21, <1>22
        DEF Next, World, MainStep, ReaderStep, GetState, Actors, Others

\* One step per action: whoever takes the row of a promised node has it at hand.
LEMMA NextLearns ==
    ASSUME Typed, Typed', Marks, Learns, Quiet, [Next]_vars
    PROVE  Learns'
<1> USE DEF clock, sweep, emit, air
<1> SUFFICES ASSUME NEW n \in asked'["main"]
             PROVE  /\ main' = "sweep" => \/ Have(n)' \/ got'["main"][n] # Never
                                         \/ Coming(n, want["main"])'
                    /\ main' = "store" => Have(n)' \/ got'["main"][n] # Never
  BY DEF Learns
<1> DEFINE Goal == /\ main' = "sweep" => \/ Have(n)' \/ got'["main"][n] # Never
                                          \/ Coming(n, want["main"])'
                   /\ main' = "store" => Have(n)' \/ got'["main"][n] # Never
<1>v. /\ n \in Nodes /\ Never = -1 /\ Version \subseteq Nat
      /\ inbox \in Seq(Frame)
      /\ got \in [Actors -> [Nodes -> Row]] /\ want \in [Actors -> Nat] /\ sweeps + 1 \in Nat
      /\ asked \in [Actors -> SUBSET Nodes]
      /\ main = "connect" => reader = "off"
  BY DEF Typed, Actors, Never, Version
<1>h. Have(n) => Have(n)'
  BY <1>v, HaveStays
<1> PICK id : id = want["main"]
  OBVIOUS
<1>i. /\ Coming(n, want["main"]) <=> Coming(n, id)
      /\ want' = want => (Coming(n, want["main"])' <=> Coming(n, id)')
  BY DEF Coming, Marker
<1>l. asked' = asked => /\ main = "sweep" => Have(n) \/ got["main"][n] # Never \/ Coming(n, id)
                        /\ main = "store" => Have(n) \/ got["main"][n] # Never
  BY <1>i DEF Learns
<1>o. main' \notin {"sweep", "store"} => Goal
  OBVIOUS
\* The sweep is the same one, and the transport
<1>k. UNCHANGED <<inbox, main, got, asked, want>> => Goal
  <2>1. inbox' = inbox /\ Coming(n, id) => Coming(n, id)'
    BY DEF Coming, RowOf, Marker
  <2> QED BY <1>h, <1>i, <1>l, <2>1
\* ... grows
<1>g. ASSUME NEW s \in Seq(Frame), Added(s), UNCHANGED <<main, got, asked, want>>
      PROVE  Goal
  <2>1. Coming(n, id) => Coming(n, id)'
    BY <1>g, ComingGrown
  <2> QED BY <1>g, <1>h, <1>i, <1>l, <2>1
\* ... or gives its head to someone else.
<1>t. Took /\ UNCHANGED <<main, got, asked, want>>
        /\ (Head(inbox).type = "node" /\ Head(inbox).node = n => Have(n)') => Goal
  <2> SUFFICES ASSUME Took, UNCHANGED <<main, got, asked, want>>,
                      Head(inbox).type = "node" /\ Head(inbox).node = n => Have(n)'
               PROVE  Goal
    OBVIOUS
  <2>1. Coming(n, id) => Coming(n, id)' \/ Have(n)'
    BY ComingTaken
  <2> QED BY <1>h, <1>i, <1>l, <2>1
<1>a. \A f \in Frame : inbox' = Append(inbox, f) /\ UNCHANGED <<main, got, asked, want>> => Goal
  <2> SUFFICES ASSUME NEW f \in Frame, inbox' = Append(inbox, f), UNCHANGED <<main, got, asked, want>>
               PROVE  Goal
    OBVIOUS
  <2>1. Added(<<f>>) /\ <<f>> \in Seq(Frame)
    BY Appended, <1>v
  <2> QED BY <2>1, <1>g
<1> SUFFICES Goal
  OBVIOUS
<1> HIDE DEF Goal
<1>1. ASSUME NEW p \in unheard, Hear(p), UNCHANGED Others PROVE Goal
  <2>1. PacketF(p) \in Frame
    BY <1>1, Frames DEF Typed
  <2> QED BY <1>1, <2>1, <1>a DEF Hear, Others
<1>2. ASSUME NEW m \in Nodes, Learn(m), UNCHANGED Others PROVE Goal
  <2>1. NodeF(m, db[m] + 1) \in Frame
    <3>1. db[m] + 1 \in Version
      <4>1. db[m] \in Row /\ db[m] < MaxVersion /\ MaxVersion \in Nat
        BY <1>2, AgentAssumption DEF Learn, Typed
      <4> QED BY <4>1 DEF Row, Version, Never
    <3> QED BY <3>1 DEF NodeF, Frame
  <2> QED BY <1>2, <2>1, <1>a DEF Learn, Others
<1>3. ASSUME Garble, UNCHANGED Others PROVE Goal
  BY <1>3, Frames, <1>a DEF Garble, Others
<1>4. ASSUME LoseLink, UNCHANGED Others PROVE Goal
  BY <1>4, <1>k DEF LoseLink, Others
<1>5. CASE Tick
  <2>1. inbox' = inbox /\ main' = main /\ got' = got /\ asked' = asked /\ want' = want
    BY <1>5 DEF Tick
  <2> QED BY <2>1, <1>k
<1>6. CASE Signal
  <2>1. inbox' = inbox /\ main' = main /\ got' = got /\ asked' = asked /\ want' = want
    BY <1>6 DEF Signal
  <2> QED BY <2>1, <1>k
<1>7. CASE MetricsTick
  <2>1. inbox' = inbox /\ main' = main /\ got' = got /\ asked' = asked /\ want' = want
    BY <1>7 DEF MetricsTick
  <2> QED BY <2>1, <1>k
<1>8. CASE Connect \/ ConnectFails
  BY <1>8, <1>o DEF Connect, ConnectFails
<1>9. CASE SelectTick
  BY <1>9, <1>o DEF SelectTick
<1>10. CASE SelectDone
  BY <1>10, <1>o DEF SelectDone
<1>11. CASE SelectErr
  BY <1>11, <1>o DEF SelectErr
<1>12. CASE AwaitReader
  BY <1>12, <1>o DEF AwaitReader
<1>13. CASE VisitNode
  <2>1. main' \in {"emit", "select"}
    BY <1>13 DEF VisitNode, EmitDone
  <2> QED BY <2>1, <1>o
<1>14. CASE MaybeEmit
  <2>1. main' \in {"emit", "select"}
    BY <1>14, Zenon DEF MaybeEmit, EmitDone
  <2> QED BY <2>1, <1>o
<1>15. CASE ReaderRecv
  <2>1. Took /\ UNCHANGED <<main, got, asked, want>> /\ reader' = "handle" /\ hand' = Head(inbox)
    BY <1>15 DEF ReaderRecv, Took
  <2>2. Head(inbox).type = "node" /\ Head(inbox).node = n => Have(n)'
    BY <2>1 DEF Have, InReader
  <2>3. Took /\ UNCHANGED <<main, got, asked, want>>
    BY <2>1
  <2> QED BY <2>2, <2>3, <1>t
<1>16. CASE ReaderFails
  BY <1>16, QuietReceives
<1>17. CASE ReaderHandle
  <2>1. inbox' = inbox /\ main' = main /\ got' = got /\ asked' = asked /\ want' = want
    BY <1>17 DEF ReaderHandle
  <2> QED BY <2>1, <1>k
<1>18. ASSUME NEW a \in Actors, SendWant(a) PROVE Goal
  <2>1. /\ PcOf(a) = "want" /\ link = "up" /\ ~cancelled
        /\ Goto(a, "sweep")
        /\ want' = [want EXCEPT ![a] = sweeps + 1] /\ got' = [got EXCEPT ![a] = NoRow]
        /\ asked' = [asked EXCEPT ![a] = Known(db)]
    BY <1>18, QuietReceives DEF SendWant, Quiet
  <2>2. PICK answer \in Answers(sweeps + 1) : Added(answer)
    BY <1>18, <2>1 DEF SendWant, Added
  <2>3. CASE a = "main"
    <3>1. n \in Known(db) /\ want'["main"] = sweeps + 1
      BY <1>v, <2>1, <2>3
    <3> PICK new : new = sweeps + 1
      OBVIOUS
    <3>2. Coming(n, new)'
      BY <1>v, <2>2, <3>1, ComingAnswered
    <3>3. Coming(n, want["main"])'
      BY <3>1, <3>2 DEF Coming, Marker
    <3>4. main' = "sweep"
      BY <2>1, <2>3 DEF Goto
    <3> QED BY <3>3, <3>4 DEF Goal
  <2>4. CASE a = "metrics"
    <3>1. main' = main /\ want'["main"] = want["main"] /\ got'["main"] = got["main"]
          /\ asked'["main"] = asked["main"]
      BY <1>v, <2>1, <2>4 DEF Goto, Actors
    <3>2. answer \in Seq(Frame)
      BY <1>v, <2>2, AnswerShape DEF Typed
    <3>3. Coming(n, id) => Coming(n, id)'
      BY <2>2, <3>2, ComingGrown
    <3>4. Coming(n, id)' => Coming(n, want["main"])'
      BY <3>1 DEF Coming, Marker
    <3> QED BY <1>h, <1>i, <3>1, <3>3, <3>4 DEF Goal, Learns
  <2> QED BY <2>3, <2>4 DEF Actors
<1>19. ASSUME NEW a \in Actors, SweepRecv(a) PROVE Goal
  <2>1. /\ Took /\ PcOf(a) = "sweep" /\ UNCHANGED <<want, asked>> /\ Head(inbox) \in Frame
        /\ got' = IF Head(inbox).type = "node"
                  THEN [got EXCEPT ![a][Head(inbox).node] = Head(inbox).version] ELSE got
        /\ IF OwnMarker(a, Head(inbox)) THEN Goto(a, "store") ELSE UNCHANGED <<main, metrics>>
    BY <1>19 DEF SweepRecv, Took, Typed
  <2>2. /\ \A b \in Actors : got[b][n] # Never => got'[b][n] # Never
        /\ \A b \in Actors : b # a => got'[b] = got[b]
    BY <1>v, <2>1, Frames
  <2>3. Head(inbox).type = "node" /\ Head(inbox).node = n => got'[a][n] # Never
    BY <1>v, <2>1, Frames
  <2>4. Coming(n, id) => Coming(n, id)' \/ got'[a][n] # Never
    BY <2>1, <2>3, ComingTaken
  <2>5. CASE a = "main"
    <3>0. /\ got["main"][n] # Never => got'["main"][n] # Never
          /\ asked' = asked /\ want' = want
          /\ Coming(n, id) => Coming(n, id)' \/ got'["main"][n] # Never
      <4>1. got["main"][n] # Never => got'["main"][n] # Never
        BY <2>2 DEF Actors
      <4> QED BY <2>1, <2>4, <2>5, <4>1
    <3>1. CASE OwnMarker(a, Head(inbox))
      <4>1. ~Coming(n, id)
        <5> SUFFICES ASSUME Coming(n, id) PROVE FALSE
          OBVIOUS
        <5>1. PICK i \in DOMAIN inbox, j \in DOMAIN inbox : i < j /\ Marker(j, id)
          BY DEF Coming
        <5>2. Marker(1, id) /\ 1 \in DOMAIN inbox /\ DOMAIN inbox \subseteq Nat \ {0}
          BY <1>v, <2>1, <2>5, <3>1, Taken DEF OwnMarker, Marker
        <5>3. j = 1
          BY <5>1, <5>2 DEF Marks
        <5> QED BY <5>1, <5>2, <5>3
      <4>2. main = "sweep" /\ main' = "store"
        BY <2>1, <2>5, <3>1 DEF Goto, PcOf
      <4> QED BY <1>h, <1>l, <3>0, <4>1, <4>2 DEF Goal
    <3>2. CASE ~OwnMarker(a, Head(inbox))
      <4>1. main = "sweep" /\ main' = "sweep"
        BY <2>1, <2>5, <3>2 DEF PcOf
      <4> QED BY <1>h, <1>i, <1>l, <3>0, <4>1 DEF Goal
    <3> QED BY <3>1, <3>2
  <2>6. CASE a = "metrics"
    <3>1. main' = main /\ metrics' \in {"sweep", "store"} /\ got'["main"] = got["main"]
      BY <2>1, <2>2, <2>6 DEF Goto, PcOf, Actors
    <3>2. got'[a][n] # Never => Have(n)'
      BY <2>6, <3>1 DEF Have, InMetrics
    <3> QED BY <1>h, <1>i, <1>l, <2>1, <2>4, <3>1, <3>2 DEF Goal
  <2> QED BY <2>5, <2>6 DEF Actors
<1>20. ASSUME NEW a \in Actors, SweepFails(a) PROVE Goal
  BY <1>20, QuietReceives
<1>21. ASSUME NEW a \in Actors, StoreSweep(a) PROVE Goal
  <2>1. CASE a = "main"
    BY <1>21, <2>1, <1>o DEF StoreSweep
  <2>2. CASE a = "metrics"
    BY <1>21, <2>2, <1>k DEF StoreSweep
  <2> QED BY <2>1, <2>2 DEF Actors
<1>22. CASE UNCHANGED vars
  <2>1. inbox' = inbox /\ main' = main /\ got' = got /\ asked' = asked /\ want' = want
    BY <1>22 DEF vars
  <2> QED BY <2>1, <1>k
<1> QED BY <1>1, <1>2, <1>3, <1>4, <1>5, <1>6, <1>7, <1>8, <1>9, <1>10, <1>11,
           <1>12, <1>13, <1>14, <1>15, <1>16, <1>17, <1>18, <1>19, <1>20, <1>21, <1>22
        DEF Next, World, MainStep, ReaderStep, GetState, Actors, Others, Goal

LEMMA InitRefresh == Init => RefreshInv
  BY InitPlaced DEF PacketInv, Init, RefreshInv, Marks, Marker, Learns

\* Where a main sweep ends, every node it was promised is stored or at hand.
LEMMA StepLearns ==
    ASSUME RefreshInv, [Next]_vars, main = "store", main' = "emit", Quiet,
           NEW n \in asked["main"]
    PROVE  nodes'[n] # Never \/ InReader(n) \/ InMetrics(n)
<1>1. n \in Nodes
  BY DEF RefreshInv, Typed, Actors
<1>2. Have(n) \/ got["main"][n] # Never
  BY DEF RefreshInv, Learns
<1>3. StoreSweep("main")
  BY DEF Next, World, Tick, Signal, MetricsTick, MainStep, ReaderStep, GetState, Connect,
         ConnectFails, SelectTick, SelectDone, SelectErr, AwaitReader, VisitNode, MaybeEmit, ReaderRecv,
         ReaderFails, ReaderHandle, SendWant, SweepRecv, SweepFails, StoreSweep, PcOf, Goto,
         vars
<1>4. nodes' = Store(got["main"], nodes)
  BY <1>3 DEF StoreSweep
<1> QED BY <1>1, <1>2, <1>4 DEF Store, Have

\* A refresh that ends without error leaves no node behind that the radio knew when it
\* was asked, although three goroutines compete for the frames (GetState beside readLoop
\* and the metrics refresher, agent.go:201-209).
THEOREM RefreshesLearnAll == Spec => RefreshLearnsAll
<1>1. RefreshInv /\ [Next]_vars => RefreshInv'
  <2> SUFFICES ASSUME RefreshInv, [Next]_vars PROVE RefreshInv'
    OBVIOUS
  <2>1. Typed' /\ Marks'
    BY NextTyped, NextMarks DEF RefreshInv
  <2>2. Quiet' => Quiet
    BY WorldFixed DEF RefreshInv, Quiet
  <2> QED BY <2>1, <2>2, NextLearns DEF RefreshInv
<1>2. RefreshInv /\ [Next]_vars =>
        [ main = "store" /\ main' = "emit" /\ ~cancelled /\ world.faults = {}
            => \A n \in asked["main"] : nodes'[n] # Never \/ InReader(n) \/ InMetrics(n) ]_vars
  BY StepLearns DEF Quiet
<1> QED BY InitRefresh, <1>1, <1>2, PTL DEF Spec, RefreshLearnsAll
=============================================================================
