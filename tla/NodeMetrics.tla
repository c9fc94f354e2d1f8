----------------------------- MODULE NodeMetrics -----------------------------
(***************************************************************************)
(* The Prometheus gauges of an agent that runs with metrics on: who writes *)
(* them, and what a scrape may show.                                       *)
(*                                                                         *)
(* UpdateDeviceMetrics is three writes.  storeNode makes them under the    *)
(* runtime's mutex; a telemetry packet and the republishing refresher make *)
(* them without it, the refresher from rows it copied before.  Rows are    *)
(* reduced to their two utilisation readings.                              *)
(***************************************************************************)
EXTENDS AgentProcess

CONSTANTS
    Nodes,              \* mesh nodes
    Rows,               \* device metrics a row or a packet may carry
    MaxChanges, MaxHeard, MaxTime      \* bounds of the model

Nil     == 0                            \* a reading that was not sent
Silent  == [cu |-> Nil, au |-> Nil]     \* no device metrics at all
None    == [cu |-> -1, au |-> -1]       \* no row
Writers == {"reader", "main", "refresher"}
Sources == {"telemetry", "nodedb"}

ASSUME NodeMetricsAssumption ==
    /\ Silent \in Rows /\ Rows \subseteq [cu : Nat, au : Nat]
    /\ "none" \notin Nodes
    /\ {MaxChanges, MaxHeard, MaxTime} \subseteq Nat

VARIABLES
    radio, changes,  \* the radio's NodeDB, and how often it changed (bounded)
    rows,            \* runtime.nodes
    gauge, stamp,    \* the gauges by node and source; the time of the last update
    now,             \* the wall clock (bounded)
    lock,            \* runtime.mu: "free" or its holder
    job,             \* per writer: the update it is in the middle of, or none
    got,             \* rows a sweep collected and still has to store
    snap,            \* rows the refresher copied and still has to republish
    heard, packets,  \* history: readings of the telemetry handled, and how many
    shown,           \* history: time of the last gauge write per node
    raced            \* history: nodes stored since the refresher copied its rows

mvars == <<radio, changes, rows, gauge, stamp, now, lock, job, got, snap, heard, packets,
           shown, raced>>
vars  == <<pvars, mvars>>

NoJob    == [node |-> "none", source |-> "nodedb", row |-> Silent, field |-> "cu"]
NoRows   == [n \in Nodes |-> None]
Carries(r) == r \notin {Silent, None}
Merge(old, r) == [cu |-> IF r.cu = Nil THEN old.cu ELSE r.cu,
                  au |-> IF r.au = Nil THEN old.au ELSE r.au]

MetricsInit ==
    /\ ProcessInit
    /\ radio \in [Nodes -> Rows] /\ changes = 0 /\ rows = NoRows
    /\ gauge = [n \in Nodes |-> [s \in Sources |-> Silent]]
    /\ stamp = [n \in Nodes |-> 0] /\ now = 1
    /\ lock = "free" /\ job = [w \in Writers |-> NoJob]
    /\ got = [w \in Writers |-> NoRows] /\ snap = NoRows
    /\ heard = [n \in Nodes |-> Silent] /\ packets = 0
    /\ shown = [n \in Nodes |-> 0] /\ raced = {}

On      == cfg[MetricsOn] = "true"
\* The refresher reads the radio itself if it is faster than the poll.
OwnSweep == Seconds[EffectiveNodeDBRefreshInterval] < Seconds[cfg[Poll]]
Running == exit = "running" /\ step \in {"mqtt", "up", "stopping", "returned"} /\ verb # "doctor"

Idle(w)     == job[w] = NoJob
Sweeping(w) == got[w] # NoRows

-----------------------------------------------------------------------------
(* The start: GetState fills the rows, and pushAllNodeDBMetrics publishes  *)
(* them before any other goroutine runs.                                   *)

StartsAgent == step = "state" /\ step' \in {"mqtt", "up"}
Publish ==
    /\ rows' = radio
    /\ IF On
       THEN /\ gauge' = [n \in Nodes |-> [gauge[n] EXCEPT !["nodedb"] = radio[n]]]
            /\ stamp' = [n \in Nodes |-> IF Carries(radio[n]) THEN now ELSE 0]
            /\ shown' = stamp'
       ELSE UNCHANGED <<gauge, stamp, shown>>
    /\ UNCHANGED <<radio, changes, now, lock, job, got, snap, heard, packets, raced>>

Process ==
    /\ ProcessNext
    /\ step = "up" /\ step' # "up" => Idle("main") /\ ~Sweeping("main")
    /\ ReaderStops => Idle("reader")
    /\ IF StartsAgent THEN Publish ELSE UNCHANGED mvars

-----------------------------------------------------------------------------
(* The mesh and the clock.                                                 *)

RadioLearns(n) ==
    /\ changes < MaxChanges /\ Running
    /\ changes' = changes + 1 /\ radio' \in {[radio EXCEPT ![n] = r] : r \in Rows}
    /\ UNCHANGED <<rows, gauge, stamp, now, lock, job, got, snap, heard, packets, shown, raced>>

Tick ==
    /\ now < MaxTime /\ Running /\ now' = now + 1
    /\ UNCHANGED <<radio, changes, rows, gauge, stamp, lock, job, got, snap, heard, packets,
                   shown, raced>>

-----------------------------------------------------------------------------
(* UpdateDeviceMetrics, one gauge at a time.                               *)

Update(n, s, r) == [node |-> n, source |-> s, row |-> r, field |-> "cu"]

\* A reading that was not sent leaves its gauge alone.
SetGauge(old, v) == IF v = Nil THEN old ELSE v

WriteGauge(w) ==
    /\ ~Idle(w)
    /\ LET j == job[w] IN
         \/ /\ j.field \in {"cu", "au"}
            /\ gauge' = [gauge EXCEPT ![j.node][j.source][j.field] = SetGauge(@, j.row[j.field])]
            /\ shown' = [shown EXCEPT ![j.node] = now]
            /\ job' = [job EXCEPT ![w].field = IF @ = "cu" THEN "au" ELSE "stamp"]
            /\ UNCHANGED <<stamp, lock>>
         \/ /\ j.field = "stamp"
            /\ stamp' = [stamp EXCEPT ![j.node] = now]
            /\ job' = [job EXCEPT ![w] = NoJob]
            /\ lock' = IF lock = w THEN "free" ELSE lock
            /\ UNCHANGED <<gauge, shown>>
    /\ UNCHANGED <<radio, changes, rows, now, got, snap, heard, packets, raced>>

-----------------------------------------------------------------------------
(* storeNode, and who calls it.                                            *)

Republishing == ~OwnSweep /\ (snap # NoRows \/ ~Idle("refresher"))

Bug_NoLock(w) == UNCHANGED lock
Locks(w)      == lock' = w

StoreNode(w, n, r) ==
    /\ lock = "free"
    /\ rows' = [rows EXCEPT ![n] = r]
    /\ raced' = IF Republishing THEN raced \cup {n} ELSE raced \ {n}
    /\ IF On /\ Carries(r) THEN job' = [job EXCEPT ![w] = Update(n, "nodedb", r)] /\ Locks(w)
                           ELSE UNCHANGED <<job, lock>>
    /\ UNCHANGED <<radio, changes, gauge, stamp, now, snap, heard, packets, shown>>

\* readLoop stores the row of a NodeInfo frame.
ReceiveNodeInfo(n) ==
    /\ step = "up" /\ errCh = "none" /\ Idle("reader") /\ rows[n] # radio[n]
    /\ StoreNode("reader", n, radio[n])
    /\ UNCHANGED got

\* handlePacket on a telemetry packet, which records metrics before it looks at
\* the consent bit.
ReceiveTelemetry(n, r) ==
    /\ step = "up" /\ errCh = "none" /\ Idle("reader") /\ packets < MaxHeard /\ Carries(r)
    /\ packets' = packets + 1
    /\ heard' = [heard EXCEPT ![n] = Merge(@, r)]
    /\ IF On
       THEN job' = [job EXCEPT !["reader"] = Update(n, "telemetry", r)] ELSE UNCHANGED job
    /\ UNCHANGED <<radio, changes, rows, gauge, stamp, now, lock, got, snap, shown, raced>>

\* GetState collects rows; they are stored one by one after the marker came.
CollectRows(w) ==
    /\ ~Sweeping(w) /\ Idle(w) /\ ~runDone
    /\ got' = [got EXCEPT ![w] = radio]
    /\ UNCHANGED <<radio, changes, rows, gauge, stamp, now, lock, job, snap, heard, packets,
                   shown, raced>>

StoreCollected(w, n) ==
    /\ Idle(w) /\ got[w][n] # None
    /\ StoreNode(w, n, got[w][n])
    /\ got' = [got EXCEPT ![w][n] = None]

\* refreshAndSynthesise, each nodedb_poll.
PollTick == step = "up" /\ CollectRows("main")

\* onMetricsRefreshTick: a sweep of its own, or the rows in memory once more.
RefreshTick ==
    /\ On /\ ~runDone /\ ~Republishing /\ Seconds[EffectiveNodeDBRefreshInterval] > 0
    /\ \/ OwnSweep /\ CollectRows("refresher")
       \/ /\ ~OwnSweep /\ lock = "free"
          /\ snap' = [n \in Nodes |-> IF Carries(rows[n]) THEN rows[n] ELSE None]
          /\ raced' = {}
          /\ UNCHANGED <<radio, changes, rows, gauge, stamp, now, lock, job, got, heard,
                         packets, shown>>

Republish(n) ==
    /\ Idle("refresher") /\ snap[n] # None
    /\ job' = [job EXCEPT !["refresher"] = Update(n, "nodedb", snap[n])]
    /\ snap' = [snap EXCEPT ![n] = None]
    /\ UNCHANGED <<radio, changes, rows, gauge, stamp, now, lock, got, heard, packets, shown,
                   raced>>

MetricsStep ==
    /\ Running /\ UNCHANGED pvars
    /\ \/ Tick \/ PollTick \/ RefreshTick
       \/ \E w \in Writers : WriteGauge(w)
       \/ \E n \in Nodes : \/ RadioLearns(n) \/ ReceiveNodeInfo(n) \/ Republish(n)
                           \/ \E w \in {"main", "refresher"} : StoreCollected(w, n)
                           \/ \E r \in Rows : ReceiveTelemetry(n, r)

MetricsSpec == MetricsInit /\ [][Process \/ MetricsStep]_vars

-----------------------------------------------------------------------------
(* Properties.                                                             *)

Writing(n) == \E w \in Writers : job[w].node = n

\* A NodeDB gauge shows its node's row: at rest, and unless a row was stored while
\* the refresher was republishing older copies.  A refresher that sweeps for itself
\* writes under the mutex, and the exception is none (agent.go:377, 400).  A node
\* with a gauge has a timestamp, which is not older than the gauge.
Shows(g, r) == (r.cu # Nil => g.cu = r.cu) /\ (r.au # Nil => g.au = r.au)
GaugesFollowRows ==
    On => \A n \in Nodes :
            \/ Writing(n) \/ rows[n] = None
            \/ /\ stamp[n] >= shown[n]
               /\ \/ ~OwnSweep /\ (n \in raced \/ snap[n] # None)
                  \/ Shows(gauge[n]["nodedb"], rows[n])

\* Every telemetry packet the reader handles shows in the gauges of its source,
\* those whose sender refused MQTT too (docs/metrics.md:89).
TelemetryShown ==
    On => \A n \in Nodes : Writing(n) \/ gauge[n]["telemetry"] = heard[n]

\* What a scrape shows is what the agent knows, series by series.
GaugesTrue == GaugesFollowRows /\ TelemetryShown
=============================================================================
