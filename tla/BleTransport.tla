---------------------------- MODULE BleTransport ----------------------------
(***************************************************************************)
(* The BLE transport: one goroutine pulls packets out of the radio's       *)
(* fromRadio queue into a bounded channel, woken by a ticker, by fromNum   *)
(* notifications and by sends; receivers take from the channel; Close      *)
(* stops the goroutine and closes the channel.  Packets are numbered in    *)
(* the order the radio queues them.                                        *)
(***************************************************************************)
EXTENDS Integers, Sequences, Functions

CONSTANTS
    Receivers,     \* goroutines that call ReceiveFromRadio
    Capacity,      \* blePacketBuffer
    Packets,       \* bound: packets the radio queues
    FaultBudget    \* bound: failed and garbled reads

ASSUME BleAssumption == Capacity \in Nat \ {0} /\ {Packets, FaultBudget} \subseteq Nat

VARIABLES
    queue,      \* the radio's fromRadio queue
    made,       \* packets queued so far
    link,       \* "up", "lost" (by the radio) or "down" (Disconnect)
    faults,     \* faults left
    notifying,  \* fromNum notifications are enabled
    pulled,     \* a kick waits in t.pulled (a channel of one)
    tick,       \* the ticker's channel (of one) holds a tick
    poller,     \* greet drain enable failed | wait read check push evict retry stopped
    hand,       \* the packet pullPackets is placing, or 0
    newest,     \* history: the last packet placed
    packets,    \* the receive channel's buffer
    chClosed,   \* close(t.packets) has happened
    closer,     \* Close: idle, marked, silenced, drained, done
    inFlight,   \* history: a packet was past its check when Close set closed
    pc,         \* per receiver: idle or wait
    expired,    \* receivers whose context is done
    received,   \* history: packets returned to receivers, in order
    panicked    \* a send on the closed channel

radio == <<queue, made, link, faults>>
wake  == <<notifying, pulled, tick>>
pull  == <<poller, hand, newest>>
chan  == <<packets, chClosed>>
close == <<closer, inFlight>>
recv  == <<pc, expired, received>>
vars  == <<radio, wake, pull, chan, close, recv, panicked>>

\* t.closed; closeMu is held from here until Close has returned.
Closed  == closer # "idle"
CloseMu == closer \in {"marked", "silenced", "drained"}
Started == poller \notin {"greet", "drain", "enable", "failed"}

Init ==
    /\ queue = <<>> /\ made = 0 /\ link = "up" /\ faults = FaultBudget
    /\ notifying = FALSE /\ pulled = FALSE /\ tick = FALSE
    /\ poller = "greet" /\ hand = 0 /\ newest = 0
    /\ packets = <<>> /\ chClosed = FALSE
    /\ closer = "idle" /\ inFlight = FALSE
    /\ pc = [r \in Receivers |-> "idle"] /\ expired = {} /\ received = <<>>
    /\ panicked = FALSE

-----------------------------------------------------------------------------
(* The radio, the ticker and the notifications.                            *)

\* A packet is queued; its notification may never come (CoreBluetooth).
Radio ==
    /\ link = "up" /\ made < Packets
    /\ made' = made + 1 /\ queue' = Append(queue, made + 1)
    /\ \/ UNCHANGED pulled
       \/ notifying /\ pulled' = TRUE
    /\ UNCHANGED <<link, faults, notifying, tick, pull, chan, close, recv, panicked>>

LoseLink == /\ link = "up" /\ link' = "lost"
            /\ UNCHANGED <<queue, made, faults, wake, pull, chan, close, recv, panicked>>

\* Variants named Bug_... are what a plausible mistake would make of the
\* definition that follows them; no action of the specification uses them.
Bug_NoTicker == FALSE /\ UNCHANGED vars
Tick == /\ Started /\ poller # "stopped" /\ ~tick /\ tick' = TRUE
        /\ UNCHANGED <<radio, notifying, pulled, pull, chan, close, recv, panicked>>

\* SendToRadio: once the write has succeeded, the poller is kicked.
Send == /\ Started /\ link = "up" /\ ~pulled /\ pulled' = TRUE
        /\ UNCHANGED <<radio, notifying, tick, pull, chan, close, recv, panicked>>

-----------------------------------------------------------------------------
(* Opening: start, and Close of a transport that did not start.            *)

Greet == /\ poller = "greet"
         /\ poller' = IF link = "up" THEN "drain" ELSE "failed"
         /\ UNCHANGED <<radio, wake, hand, newest, chan, close, recv, panicked>>

\* readPacket: the next packet, an empty queue, a failed read that takes
\* nothing, or a packet that is taken and does not parse.
ReadOk     == link = "up" /\ queue # <<>> /\ queue' = Tail(queue) /\ UNCHANGED faults
ReadEmpty  == link = "up" /\ queue = <<>> /\ UNCHANGED <<queue, faults>>
ReadErr    == /\ \/ link # "up" /\ UNCHANGED <<queue, faults>>
                 \/ /\ link = "up" /\ faults > 0 /\ faults' = faults - 1
                    /\ \/ UNCHANGED queue
                       \/ queue # <<>> /\ queue' = Tail(queue)

\* The backlog is discarded up to the first empty read.
Drain ==
    /\ poller = "drain"
    /\ \/ ReadOk /\ UNCHANGED poller
       \/ ReadEmpty /\ poller' = "enable"
       \/ ReadErr /\ poller' = "failed"
    /\ UNCHANGED <<made, link, wake, hand, newest, chan, close, recv, panicked>>

\* EnableNotifications may fail; the poller starts all the same.
Enable ==
    /\ poller = "enable" /\ poller' = "wait"
    /\ notifying' \in BOOLEAN
    /\ UNCHANGED <<radio, pulled, tick, hand, newest, chan, close, recv, panicked>>

-----------------------------------------------------------------------------
(* pollLoop and pullPackets.                                               *)

\* select chooses among the ready cases at random.
PollStop == /\ poller = "wait" /\ Closed /\ poller' = "stopped"
            /\ UNCHANGED <<radio, wake, hand, newest, chan, close, recv, panicked>>

PollWake ==
    /\ poller = "wait"
    /\ \/ tick /\ tick' = FALSE /\ UNCHANGED pulled
       \/ pulled /\ pulled' = FALSE /\ UNCHANGED tick
    /\ poller' = "read"
    /\ UNCHANGED <<radio, notifying, hand, newest, chan, close, recv, panicked>>

PollRead ==
    /\ poller = "read"
    /\ \/ ReadOk /\ hand' = Head(queue) /\ poller' = "check"
       \/ (ReadEmpty \/ ReadErr) /\ poller' = "wait" /\ UNCHANGED hand
    /\ UNCHANGED <<made, link, wake, newest, chan, close, recv, panicked>>

Bug_NoCheck ==
    /\ poller = "check"
    /\ poller' = "push"
    /\ UNCHANGED <<radio, wake, hand, newest, chan, close, recv, panicked>>

\* closed is read under closeMu, which Close keeps until it returns.
PollCheck ==
    /\ poller = "check" /\ ~CloseMu
    /\ IF Closed THEN poller' = "wait" /\ hand' = 0
                 ELSE poller' = "push" /\ UNCHANGED hand
    /\ UNCHANGED <<radio, wake, newest, chan, close, recv, panicked>>

Bug_HandKept == /\ packets' = Append(packets, hand)
                /\ newest' = hand /\ poller' = "read" /\ UNCHANGED hand
Place == /\ packets' = Append(packets, hand)
         /\ newest' = hand /\ hand' = 0 /\ poller' = "read"

Room == Len(packets) < Capacity

\* Without a receiver's help: the packet goes in, or the channel is full.
PollPush ==
    /\ poller = "push" /\ ~chClosed
    /\ \/ Room /\ Place
       \/ ~Room /\ poller' = "evict" /\ UNCHANGED <<packets, hand, newest>>
    /\ UNCHANGED <<radio, wake, chClosed, close, recv, panicked>>

Bug_KeepOld ==
    /\ poller = "evict" /\ poller' = "retry"
    /\ UNCHANGED <<radio, wake, hand, newest, chan, close, recv, panicked>>

\* The oldest packet goes, whether or not there is room by now.
PollEvict ==
    /\ poller = "evict" /\ poller' = "retry"
    /\ packets' = IF packets = <<>> THEN packets ELSE Tail(packets)
    /\ UNCHANGED <<radio, wake, hand, newest, chClosed, close, recv, panicked>>

PollRetry ==
    /\ poller = "retry" /\ ~chClosed
    /\ \/ Room /\ Place
       \/ ~Room /\ newest' = hand /\ hand' = 0 /\ poller' = "read" /\ UNCHANGED packets
    /\ UNCHANGED <<radio, wake, chClosed, close, recv, panicked>>

SendOnClosed == /\ poller \in {"push", "retry"} /\ chClosed /\ panicked' = TRUE
                /\ UNCHANGED <<radio, wake, pull, chan, close, recv>>

-----------------------------------------------------------------------------
(* Close and ReceiveFromRadio.                                             *)

Mark == /\ closer = "idle" /\ (Started \/ poller = "failed")
        /\ closer' = "marked"
        /\ inFlight' = (poller \in {"push", "evict", "retry"})
        /\ UNCHANGED <<radio, wake, pull, chan, recv, panicked>>

Silence == /\ closer = "marked" /\ closer' = "silenced" /\ notifying' = FALSE
           /\ UNCHANGED <<radio, pulled, tick, pull, chan, inFlight, recv, panicked>>

CloseChannel == /\ closer = "silenced" /\ closer' = "drained" /\ chClosed' = TRUE
                /\ UNCHANGED <<radio, wake, pull, packets, inFlight, recv, panicked>>

Disconnect == /\ closer = "drained" /\ closer' = "done" /\ link' = "down"
              /\ UNCHANGED <<queue, made, faults, wake, pull, chan, inFlight, recv, panicked>>

RecvCall(r) == /\ Started /\ ~Closed /\ pc[r] = "idle" /\ r \notin expired
               /\ pc' = [pc EXCEPT ![r] = "wait"]
               /\ UNCHANGED <<radio, wake, pull, chan, close, expired, received, panicked>>

Expire(r) == /\ pc[r] = "wait" /\ r \notin expired /\ expired' = expired \cup {r}
             /\ UNCHANGED <<radio, wake, pull, chan, close, pc, received, panicked>>

\* select: the context's error, a packet, or the error of a closed channel,
\* which comes only after what is still buffered.
Recv(r) ==
    /\ pc[r] = "wait" /\ pc' = [pc EXCEPT ![r] = "idle"]
    /\ \/ r \in expired /\ UNCHANGED <<packets, received>>
       \/ /\ packets # <<>>
          /\ packets' = Tail(packets) /\ received' = Append(received, Head(packets))
       \/ packets = <<>> /\ chClosed /\ UNCHANGED <<packets, received>>
    /\ UNCHANGED <<radio, wake, pull, chClosed, close, expired, panicked>>

Opening == Greet \/ Drain \/ Enable
Pulling == PollWake \/ PollRead \/ PollCheck \/ PollPush \/ PollEvict \/ PollRetry \/ SendOnClosed
Closing == Silence \/ CloseChannel \/ Disconnect
Next == /\ ~panicked
        /\ \/ Radio \/ LoseLink \/ Tick \/ Send \/ Opening \/ PollStop \/ Pulling
           \/ Mark \/ Closing
           \/ \E r \in Receivers : RecvCall(r) \/ Expire(r) \/ Recv(r)

Spec == Init /\ [][Next]_vars

\* Goroutines that can run do, the ticker ticks, a Close that began ends, and
\* the random choice of select does not pass over the stop channel for ever.
Live(A) == ~panicked /\ A
Fairness ==
    /\ WF_vars(Live(Opening)) /\ WF_vars(Live(Pulling)) /\ WF_vars(Live(Closing))
    /\ WF_vars(Live(Tick)) /\ SF_vars(Live(PollStop))
    /\ \A r \in Receivers : WF_vars(Live(Recv(r)))
FairSpec == Spec /\ Fairness

-----------------------------------------------------------------------------
(* Properties.                                                             *)

TypeOK ==
    /\ made \in 0 .. Packets /\ Range(queue) \subseteq 1 .. made /\ faults \in 0 .. FaultBudget
    /\ link \in {"up", "lost", "down"} /\ {notifying, pulled, tick} \subseteq BOOLEAN
    /\ hand \in 0 .. made /\ newest \in 0 .. made /\ Len(packets) <= Capacity
    /\ (hand # 0) <=> poller \in {"check", "push", "evict", "retry"}
    /\ pc \in [Receivers -> {"idle", "wait"}]

Increasing(s) == \A i, j \in DOMAIN s : i < j => s[i] < s[j]

\* A full channel costs old packets, never the newest, and receivers see the
\* packets in the radio's order (pullPackets, ble_transport.go:175-186).
NewestKept ==
    /\ Increasing(received \o packets)
    /\ poller \in {"wait", "read"} /\ newest # 0 =>
          newest \in Range(received) \cup Range(packets)

\* Close crashes the process only when it overtakes the one packet that was
\* already past its check of closed (ble_transport.go:169-176).
PanicOnlyInFlight == panicked => inFlight

\* Every packet leaves the radio's queue, also when no notification ever fires
\* and reads fail now and then: the ticker sees to it (ble_transport.go:21-23).
Pulled ==
    \A k \in 1 .. Packets :
        made >= k ~> k \notin Range(queue) \/ link # "up" \/ poller = "failed"
                     \/ Closed \/ panicked

ReceiversReleased == \A r \in Receivers : Closed /\ pc[r] = "wait" ~> pc[r] = "idle" \/ panicked
PollerStops       == Closed /\ Started ~> poller = "stopped" \/ panicked

\* Close releases every blocked receiver, and ends the polling goroutine of a
\* transport that had started (ble_transport.go:46-48, 71-84).
CloseEnds == ReceiversReleased /\ PollerStops

\* The poller never stops short of its work, and always when it is told to.
PollerServes == Pulled /\ CloseEnds
=============================================================================
