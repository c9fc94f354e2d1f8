-------------------------------- MODULE Agent --------------------------------
(***************************************************************************)
(* `rmesh agent run`: the main loop, the passthrough reader and the        *)
(* metrics refresher, three goroutines that receive from ONE transport.    *)
(*                                                                         *)
(* A frame goes to whichever goroutine receives next: readLoop takes any   *)
(* frame, and so does GetState, which throws away all but the NodeDB rows  *)
(* and its own config-complete marker.  A NodeDB row is abstracted to its  *)
(* version, a synthetic packet to the version it was built from, and time  *)
(* to whole polls of synthesise.nodedb_poll.                               *)
(***************************************************************************)
EXTENDS Integers, Sequences, FiniteSets, Functions

CONSTANTS
    Nodes, Packets,      \* mesh nodes; mesh packets the radio hears
    OptedOut,            \* packets whose sender cleared ok_to_mqtt
    RespectOk,           \* forward.respect_ok_to_mqtt
    KindOrder,           \* the synthetic kinds, in the order emitSynthetic tries them
    Enabled,             \* kinds with `enabled`
    OnFirstSeen,         \* kinds with `on_first_seen`
    Interval, Jitter,    \* cadence per kind, in polls
    Unbuildable,         \* <<node, kind>> whose row lacks the user or position
    MetricsSweeps,       \* metrics refresh is on and shorter than the poll
    Worlds,              \* what may meet an agent: the packets heard, the faults, how many
                         \* polls go by (a bound of the model), and whether its transport
                         \* reports a lost link and bad frames (serial) or not (BLE)
    MaxVersion, MaxInbox, MaxSweeps   \* bounds of the model

Kinds   == {KindOrder[i] : i \in DOMAIN KindOrder}
Actors  == {"main", "metrics"}                 \* those that call GetState
Version == 0 .. MaxVersion
Never   == -1

ASSUME AgentAssumption ==
    /\ IsFiniteSet(Nodes) /\ OptedOut \subseteq Packets
    /\ Enabled \subseteq Kinds /\ OnFirstSeen \subseteq Kinds
    /\ Interval \in [Kinds -> Nat \ {0}] /\ Jitter \in [Kinds -> Nat]
    /\ Unbuildable \subseteq Nodes \X Kinds
    /\ {RespectOk, MetricsSweeps} \subseteq BOOLEAN
    /\ \A w \in Worlds : /\ w.packets \subseteq Packets /\ w.time \in Nat
                         /\ w.faults \subseteq {"link", "junk", "broker", "url"}
                         /\ w.reports \in BOOLEAN /\ ("junk" \in w.faults => w.reports)
    /\ {MaxVersion, MaxInbox, MaxSweeps} \subseteq Nat

VARIABLES
    cancelled,   \* ctx: SIGINT or SIGTERM arrived
    link,        \* "up" or "down"
    inbox,       \* frames the transport holds, in order
    db,          \* the radio's NodeDB: version per node, Never if unknown
    world,       \* the member of Worlds this agent lives in
    unheard,     \* mesh packets the radio has still to hear
    now, tickDue,        \* polls elapsed, and the ticker's one-slot channel
    main,        \* "connect", "select", "emit", "stopping" or "returned", or in
    metrics,     \* GetState: "want", "sweep", "store" (metrics is "idle" otherwise)
    reader,      \* "off", "recv", "handle" or "stopped"
    hand,        \* the frame readLoop is handling
    errCh,       \* what readLoop sent: <<>>, or one of "error" / "canceled"
    want, got,   \* per actor: configID of its sweep, rows its sweep collected
    asked,       \* history: nodes the radio knew when the sweep was requested
    nodes,       \* runtime.nodes
    seen,        \* runtime.seen
    last,        \* runtime.emitState: poll of the last emission, or Never
    todo,        \* rows of the snapshot emitSynthetic has still to visit
    cur,         \* the row it visits, with `first` and the next kind
    sweeps,      \* sweeps requested so far (fresh configIDs)
    published,   \* history: packets passed through to MQTT
    swallowed,   \* history: mesh packets a sweep received and dropped
    emitted      \* history: poll and version of the last synthetic publish

clock == <<now, tickDue>>
sweep == <<want, got, asked, sweeps>>
emit  == <<seen, last, todo, cur, emitted>>
air   == <<world, link, db, unheard>>
vars  == <<cancelled, air, inbox, clock, main, metrics, reader, hand, errCh,
           sweep, nodes, emit, published, swallowed>>

NoRow      == [n \in Nodes |-> Never]
Idle       == [node |-> "none", version |-> Never, first |-> FALSE, kind |-> 1]
PacketF(p) == [type |-> "packet", packet |-> p]
NodeF(n, v) == [type |-> "node", node |-> n, version |-> v]
DoneF(id)  == [type |-> "complete", id |-> id]
JunkF      == [type |-> "junk"]

Faulty(f)  == f \in world.faults

\* No receive can return but with an error: the link is gone, and the transport
\* says so.  BLE's poller only forgets its read errors.
LinkError  == link = "down" /\ inbox = <<>> /\ world.reports

\* storeNode over every row a sweep collected.
Store(rows, table) == [n \in Nodes |-> IF rows[n] # Never THEN rows[n] ELSE table[n]]
Known(table)       == {n \in Nodes : table[n] # Never}

Init ==
    /\ cancelled = FALSE /\ link = "up" /\ inbox = <<>>
    /\ db \in [Nodes -> {Never, 0}] /\ world \in Worlds /\ unheard = world.packets
    /\ now = 0 /\ tickDue = FALSE
    /\ main = "connect" /\ metrics = "idle" /\ reader = "off"
    /\ hand = JunkF /\ errCh = <<>>
    /\ want = [a \in Actors |-> 0] /\ got = [a \in Actors |-> NoRow]
    /\ asked = [a \in Actors |-> {}] /\ sweeps = 0
    /\ nodes = db                       \* GetState before any goroutine runs
    /\ seen = {} /\ last = [x \in Nodes \X Kinds |-> Never]
    /\ todo = NoRow /\ cur = Idle
    /\ published = {} /\ swallowed = [a \in Actors |-> {}]
    /\ emitted = [x \in Nodes \X Kinds |-> [at |-> Never, version |-> Never]]

-----------------------------------------------------------------------------
(* The world: the radio, the link, the clock and the signal.               *)

Hear(p) ==
    /\ p \in unheard /\ link = "up" /\ Len(inbox) < MaxInbox
    /\ unheard' = unheard \ {p}
    /\ inbox' = Append(inbox, PacketF(p))
    /\ UNCHANGED <<world, link, db>>

\* The radio learns or updates a node and pushes the row to the client.
Learn(n) ==
    /\ db[n] < MaxVersion /\ link = "up" /\ Len(inbox) < MaxInbox
    /\ db' = [db EXCEPT ![n] = @ + 1]
    /\ inbox' = Append(inbox, NodeF(n, db[n] + 1))
    /\ UNCHANGED <<world, link, unheard>>

Garble ==
    /\ Faulty("junk") /\ link = "up" /\ Len(inbox) < MaxInbox
    /\ \A i \in DOMAIN inbox : inbox[i].type # "junk"
    /\ inbox' = Append(inbox, JunkF)
    /\ UNCHANGED air

LoseLink ==
    /\ Faulty("link") /\ link = "up" /\ link' = "down"
    /\ UNCHANGED <<world, db, unheard, inbox>>

World ==
    /\ \/ \E p \in unheard : Hear(p)
       \/ \E n \in Nodes : Learn(n)
       \/ Garble \/ LoseLink
    /\ UNCHANGED <<cancelled, clock, main, metrics, reader, hand, errCh, sweep, nodes,
                   emit, published, swallowed>>

\* time.Ticker: one pending tick at most, a slow receiver loses the rest.
Tick ==
    /\ now < world.time
    /\ now' = now + 1 /\ tickDue' = TRUE
    /\ UNCHANGED <<cancelled, air, inbox, main, metrics, reader, hand, errCh, sweep,
                   nodes, emit, published, swallowed>>

Signal ==
    /\ ~cancelled /\ cancelled' = TRUE
    /\ UNCHANGED <<air, inbox, clock, main, metrics, reader, hand, errCh, sweep, nodes,
                   emit, published, swallowed>>

-----------------------------------------------------------------------------
(* readLoop and handlePacket.                                              *)

Forwardable(p) == ~(RespectOk /\ p \in OptedOut)

ReaderRecv ==
    /\ reader = "recv" /\ ~cancelled /\ inbox # <<>>
    /\ Head(inbox).type # "junk"
    /\ hand' = Head(inbox) /\ inbox' = Tail(inbox)
    /\ reader' = "handle"
    /\ UNCHANGED <<cancelled, air, clock, main, metrics, errCh, sweep, nodes, emit,
                   published, swallowed>>

\* errCh has room for readLoop's only send.
SendErr(e) == errCh = <<>> /\ errCh' = Append(errCh, e)

Bug_ReaderGoesOn ==
    /\ reader = "recv" /\ (cancelled \/ LinkError) /\ SendErr("error")
    /\ UNCHANGED <<cancelled, air, inbox, clock, main, metrics, reader, hand, sweep,
                   nodes, emit, published, swallowed>>

\* ReceiveFromRadio fails: ctx is done, the transport reports that the link is
\* gone, or a frame does not parse.  Any of them ends the loop.
ReaderFails ==
    /\ reader = "recv"
    /\ \/ cancelled /\ SendErr("canceled") /\ UNCHANGED inbox
       \/ LinkError /\ SendErr("error") /\ UNCHANGED inbox
       \/ /\ inbox # <<>> /\ Head(inbox).type = "junk"
          /\ inbox' = Tail(inbox) /\ SendErr("error")
    /\ reader' = "stopped"
    /\ UNCHANGED <<cancelled, air, clock, main, metrics, hand, sweep, nodes, emit,
                   published, swallowed>>

Bug_ConsentIgnored ==
    /\ reader = "handle" /\ reader' = "recv"
    /\ published' = IF hand.type = "packet" THEN published \cup {hand.packet} ELSE published
    /\ nodes' = IF hand.type = "node" THEN [nodes EXCEPT ![hand.node] = hand.version] ELSE nodes
    /\ UNCHANGED <<cancelled, air, inbox, clock, main, metrics, hand, errCh, sweep,
                   emit, swallowed>>

ReaderHandle ==
    /\ reader = "handle"
    /\ reader' = "recv" /\ hand' = JunkF
    /\ \/ /\ hand.type = "packet" /\ Forwardable(hand.packet)
          /\ \/ ~cancelled /\ published' = published \cup {hand.packet}
             \/ (cancelled \/ Faulty("broker")) /\ UNCHANGED published   \* only a warning
          /\ UNCHANGED nodes
       \/ /\ hand.type = "packet" /\ ~Forwardable(hand.packet)
          /\ UNCHANGED <<published, nodes>>
       \/ /\ hand.type = "node"
          /\ nodes' = [nodes EXCEPT ![hand.node] = hand.version]
          /\ UNCHANGED published
       \/ hand.type = "complete" /\ UNCHANGED <<published, nodes>>
    /\ UNCHANGED <<cancelled, air, inbox, clock, main, metrics, errCh, sweep, emit,
                   swallowed>>

-----------------------------------------------------------------------------
(* device.GetState, as the main loop ("main") and the metrics refresher    *)
(* ("metrics") call it.  pc(a) moves on through Goto.                      *)

PcOf(a)     == IF a = "main" THEN main ELSE metrics
Goto(a, to) == IF a = "main" THEN main' = to /\ UNCHANGED metrics
                             ELSE metrics' = to /\ UNCHANGED main
Home(a)     == IF a = "main" THEN "select" ELSE "idle"

\* The radio answers with every row it knows, in an order of its own, and the marker.
Answers(id) == { [i \in DOMAIN rows |-> NodeF(rows[i], db[rows[i]])] \o <<DoneF(id)>> :
                   rows \in Bijection(1 .. Cardinality(Known(db)), Known(db)) }

\* A BLE write may still be accepted with the link gone; nobody answers it.
SendWant(a) ==
    /\ PcOf(a) = "want"
    /\ \/ (cancelled \/ link = "down") /\ Goto(a, Home(a)) /\ UNCHANGED <<inbox, sweep>>
       \/ /\ ~cancelled /\ (link = "down" => ~world.reports)
          /\ Goto(a, "sweep")
          /\ sweeps' = sweeps + 1
          /\ want' = [want EXCEPT ![a] = sweeps + 1]
          /\ got' = [got EXCEPT ![a] = NoRow]
          /\ asked' = [asked EXCEPT ![a] = Known(db)]
          /\ IF link = "down" THEN UNCHANGED inbox
             ELSE \E answer \in Answers(sweeps + 1) : inbox' = inbox \o answer
    /\ UNCHANGED <<cancelled, air, clock, reader, hand, errCh, nodes, emit,
                   published, swallowed>>

Bug_AnyMarker(a, f) == f.type = "complete"
OwnMarker(a, f) == f.type = "complete" /\ f.id = want[a]

SweepRecv(a) ==
    /\ PcOf(a) = "sweep" /\ ~cancelled /\ inbox # <<>> /\ Head(inbox).type # "junk"
    /\ LET f == Head(inbox) IN
         /\ inbox' = Tail(inbox)
         /\ IF OwnMarker(a, f) THEN Goto(a, "store") ELSE UNCHANGED <<main, metrics>>
         /\ got' = IF f.type = "node" THEN [got EXCEPT ![a][f.node] = f.version] ELSE got
         /\ swallowed' = IF f.type = "packet"
                         THEN [swallowed EXCEPT ![a] = @ \cup {f.packet}] ELSE swallowed
    /\ UNCHANGED <<cancelled, air, clock, reader, hand, errCh, want, asked, sweeps,
                   nodes, emit, published>>

Bug_SweepDeaf(a) == inbox # <<>> /\ Head(inbox).type = "junk" /\ inbox' = Tail(inbox)

\* What makes ReceiveFromRadio return an error to GetState.
RecvFails(a) == \/ cancelled /\ UNCHANGED inbox
                \/ LinkError /\ UNCHANGED inbox
                \/ inbox # <<>> /\ Head(inbox).type = "junk" /\ inbox' = Tail(inbox)

SweepFails(a) ==
    /\ PcOf(a) = "sweep" /\ RecvFails(a)
    /\ Goto(a, Home(a))
    /\ UNCHANGED <<cancelled, air, clock, reader, hand, errCh, sweep, nodes, emit,
                   published, swallowed>>

\* storeNode over the collected rows; the main loop then synthesises.
StoreSweep(a) ==
    /\ PcOf(a) = "store"
    /\ nodes' = Store(got[a], nodes)
    /\ IF a = "main" THEN main' = "emit" /\ todo' = nodes' /\ UNCHANGED metrics
                     ELSE metrics' = "idle" /\ UNCHANGED <<main, todo>>
    /\ UNCHANGED <<cancelled, air, inbox, clock, reader, hand, errCh, sweep, seen, last,
                   cur, emitted, published, swallowed>>

MetricsTick ==
    /\ MetricsSweeps /\ metrics = "idle" /\ main # "returned" /\ ~cancelled
    /\ sweeps < MaxSweeps
    /\ metrics' = "want"
    /\ UNCHANGED <<cancelled, air, inbox, clock, main, reader, hand, errCh, sweep, nodes,
                   emit, published, swallowed>>

-----------------------------------------------------------------------------
(* emitSynthetic: a snapshot of the rows, one maybeEmit per row and kind.  *)

\* The two callers of emitSynthetic only warn of its error.
EmitDone == main' = "select" /\ todo' = NoRow /\ cur' = Idle

VisitNode ==
    /\ main = "emit" /\ cur = Idle
    /\ \/ \E n \in Known(todo) :
            /\ cur' = [node |-> n, version |-> todo[n], first |-> n \in seen, kind |-> 1]
            /\ seen' = seen \cup {n}
            /\ todo' = [todo EXCEPT ![n] = Never]
            /\ UNCHANGED main
       \/ Known(todo) = {} /\ EmitDone /\ UNCHANGED seen
    /\ UNCHANGED <<cancelled, air, inbox, clock, metrics, reader, hand, errCh, sweep,
                   nodes, last, emitted, published, swallowed>>

NextKind == cur' = IF cur.kind = Len(KindOrder) THEN Idle ELSE [cur EXCEPT !.kind = @ + 1]

Bug_DueEarly(x, k) == last[x] = Never \/ now - last[x] >= Interval[k] - 1
\* Due: the jitter is a function of the last emission's nanoseconds.
Due(x, k) == \/ last[x] = Never
             \/ \E j \in 0 .. Jitter[k] : now - last[x] >= Interval[k] + j
Overdue(x, k) == last[x] = Never \/ now - last[x] >= Interval[k] + Jitter[k]

Bug_MarkBeforePublish(x) == emitted' = emitted /\ last' = [last EXCEPT ![x] = now]
\* A failed publish leaves the timer alone: the row is due again next time.
PublishFailed(x) == UNCHANGED <<last, emitted>>

\* A kind whose fields the row lacks is not built.
Buildable(x) == x \notin Unbuildable

MaybeEmit ==
    /\ main = "emit" /\ cur # Idle
    /\ LET k == KindOrder[cur.kind]
           x == <<cur.node, k>>
           forced == cur.first /\ k \in OnFirstSeen
       IN
         \/ /\ \/ k \notin Enabled \/ ~Buildable(x)
               \/ ~forced /\ ~Overdue(x, k)
            /\ NextKind /\ UNCHANGED <<main, todo, last, emitted>>
         \/ /\ k \in Enabled /\ Buildable(x) /\ (forced \/ Due(x, k))
            /\ \/ /\ ~cancelled
                  /\ emitted' = [emitted EXCEPT ![x] = [at |-> now, version |-> cur.version]]
                  /\ last' = [last EXCEPT ![x] = now]
                  /\ NextKind /\ UNCHANGED <<main, todo>>
               \/ (cancelled \/ Faulty("broker")) /\ EmitDone /\ PublishFailed(x)
    /\ UNCHANGED <<cancelled, air, inbox, clock, metrics, reader, hand, errCh, sweep,
                   nodes, seen, published, swallowed>>

-----------------------------------------------------------------------------
(* Run.                                                                    *)

\* forwarder.Connect waits for a broker, for as long as it takes; the metrics
\* refresher runs already, the reader starts after it.
Connect ==
    /\ main = "connect"
    /\ main' = "emit" /\ reader' = "recv" /\ todo' = nodes
    /\ UNCHANGED <<cancelled, air, inbox, clock, metrics, hand, errCh, sweep, nodes, seen,
                   last, cur, emitted, published, swallowed>>

\* Only a broker URL that does not parse, or a signal, ends that wait without one.
ConnectFails ==
    /\ main = "connect" /\ (cancelled \/ Faulty("url"))
    /\ main' = "returned"
    /\ UNCHANGED <<cancelled, air, inbox, clock, metrics, reader, hand, errCh, sweep, nodes,
                   emit, published, swallowed>>

SelectTick ==
    /\ main = "select" /\ tickDue
    /\ tickDue' = FALSE
    /\ main' = IF cancelled THEN "select" ELSE "want"
    /\ UNCHANGED <<cancelled, air, inbox, now, metrics, reader, hand, errCh, sweep, nodes,
                   emit, published, swallowed>>

\* ctx.Done: close the transport, then wait for the reader or 3 s.
SelectDone ==
    /\ main = "select" /\ cancelled
    /\ main' = "stopping"
    /\ UNCHANGED <<cancelled, air, inbox, clock, metrics, reader, hand, errCh, sweep,
                   nodes, emit, published, swallowed>>

SelectErr ==
    /\ main = "select" /\ errCh # <<>>
    /\ errCh' = Tail(errCh)
    /\ main' = "returned"
    /\ UNCHANGED <<cancelled, air, inbox, clock, metrics, reader, hand, sweep, nodes,
                   emit, published, swallowed>>

AwaitReader ==
    /\ main = "stopping"
    /\ main' = "returned"
    /\ errCh' = IF errCh = <<>> THEN errCh ELSE Tail(errCh)
    /\ UNCHANGED <<cancelled, air, inbox, clock, metrics, reader, hand, sweep, nodes,
                   emit, published, swallowed>>

GetState(a) == SendWant(a) \/ SweepRecv(a) \/ SweepFails(a) \/ StoreSweep(a)
MainStep    == \/ ConnectFails \/ SelectTick \/ SelectDone \/ SelectErr \/ AwaitReader
               \/ VisitNode \/ MaybeEmit \/ GetState("main")
ReaderStep  == ReaderRecv \/ ReaderFails \/ ReaderHandle
Next == \/ World \/ Tick \/ Signal \/ MetricsTick
        \/ Connect \/ MainStep \/ ReaderStep \/ GetState("metrics")

\* The Go scheduler runs every goroutine that can run.  A broker owes nobody an
\* answer: Connect is not in MainStep.
Spec     == Init /\ [][Next]_vars
FairSpec == Spec /\ WF_vars(MainStep) /\ WF_vars(ReaderStep) /\ WF_vars(GetState("metrics"))

-----------------------------------------------------------------------------
(* Properties.                                                             *)

TypeOK ==
    /\ cancelled \in BOOLEAN /\ link \in {"up", "down"}
    /\ db \in [Nodes -> Version \cup {Never}] /\ nodes \in [Nodes -> Version \cup {Never}]
    /\ now \in 0 .. world.time /\ tickDue \in BOOLEAN
    /\ main \in {"connect", "select", "emit", "want", "sweep", "store", "stopping", "returned"}
    /\ metrics \in {"idle", "want", "sweep", "store"}
    /\ reader \in {"off", "recv", "handle", "stopped"}
    /\ Len(errCh) <= 1 /\ (errCh # <<>> => reader = "stopped")
    /\ seen \subseteq Nodes /\ published \subseteq Packets \ unheard
    /\ last \in [Nodes \X Kinds -> Never .. now]

\* Every packet the radio heard is accounted for: it waits in the transport or
\* in the reader's hand, or was passed through, or was taken by a sweep; and
\* none whose sender opted out reaches the broker (docs/configure.md:100).
PacketsAccountedFor ==
    LET waiting == {p \in Packets : \E i \in DOMAIN inbox : inbox[i] = PacketF(p)}
        held    == {p \in Packets : reader = "handle" /\ hand = PacketF(p)}
        swept   == swallowed["main"] \cup swallowed["metrics"]
        refused == {p \in Packets : ~Forwardable(p)}
    IN  /\ published \cap (waiting \cup held \cup swept \cup refused) = {}
        /\ ~Faulty("broker") /\ ~cancelled
             => world.packets \ unheard \subseteq waiting \cup held \cup swept \cup refused \cup published

Spaced(x) == emitted'[x] # emitted[x] /\ emitted[x].at # Never
                 => emitted'[x].at - emitted[x].at >= Interval[x[2]]

\* Two emissions for one node of a kind without on_first_seen (by default all but
\* nodeinfo) are an interval apart, whatever its jitter (synthesise.Due).
TimedEmissions == [][ \A x \in Nodes \X (Kinds \ OnFirstSeen) : Spaced(x) ]_vars

\* Two emissions of any kind for one node are an interval apart
\* (docs/configure.md:138).
SpacedEmissions == [][ \A x \in Nodes \X Kinds : Spaced(x) ]_vars

\* A timer runs only from an emission the broker took: what failed to publish
\* is due again on the next pass (agent.go:367-372).
TimersFollowPublishes == \A x \in Nodes \X Kinds : last[x] = emitted[x].at

\* A refresh that ends without error leaves no node behind that the radio knew
\* when it was asked, whichever goroutine received the row: it is stored, or in
\* the reader's hand, or with a metrics sweep (agent.go:201-209), which keeps it
\* to itself until its marker comes: for ever, if another receiver took that.
InReader(n) == reader = "handle" /\ hand.type = "node" /\ hand.node = n
InMetrics(n) == metrics \in {"sweep", "store"} /\ got["metrics"][n] # Never
RefreshLearnsAll ==
    [][ main = "store" /\ main' = "emit" /\ ~cancelled /\ world.faults = {}
            => \A n \in asked["main"] : nodes'[n] # Never \/ InReader(n) \/ InMetrics(n) ]_vars

\* A signal ends the run, whatever the goroutines wait for, the broker included.
\* So does a lost link once the broker was reached, even in the middle of a
\* refresh, if the transport reports it.  The reader ends with the run
\* (agent.go:125-141).
Ended   == main = "returned" /\ reader \in {"off", "stopped"}
RunEnds == /\ cancelled ~> Ended
           /\ link = "down" /\ world.reports /\ main # "connect" ~> Ended

\* A NodeDB poll ends, so the next one can take place every nodedb_poll
\* (docs/metrics.md:79, docs/configure.md:136).
PollEnds == main = "sweep" ~> main # "sweep"
=============================================================================
