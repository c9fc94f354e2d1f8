------------------------ MODULE BleTransport_proofs -------------------------
(* Close and the polling goroutine of the BLE transport, and the packets it *)
(* keeps when the channel is full: for every capacity and any number of     *)
(* packets, receivers and faults.                                           *)
EXTENDS BleTransport, SequenceTheorems, TLAPS

Past == poller \in {"push", "evict", "retry"}

\* closed is set before the channel is closed, and a poller past its check
\* afterwards had passed it before: the check itself lets no one through.
CloseInv == /\ chClosed => Closed
            /\ Closed /\ Past => inFlight
            /\ panicked => inFlight

LEMMA InitClose == Init => CloseInv
  BY DEF Init, CloseInv, Closed, Past

\* Only a check before Close lets the poller pass, so one packet is in flight
\* at most, and it is the one Mark has recorded.
LEMMA NextClose == CloseInv /\ [Next]_vars => CloseInv'
<1> SUFFICES ASSUME CloseInv, [Next]_vars PROVE CloseInv'
  OBVIOUS
<1> USE DEF CloseInv, Closed, Past
<1>1. CASE UNCHANGED vars
  BY <1>1 DEF vars, pull, chan, close
<1>2. CASE Radio \/ LoseLink \/ Tick \/ Send
  BY <1>2 DEF Radio, LoseLink, Tick, Send, pull, chan, close
<1>3. CASE Opening
  BY <1>3 DEF Opening, Greet, Drain, Enable, chan, close
<1>4. CASE PollStop \/ PollWake \/ PollRead
  BY <1>4 DEF PollStop, PollWake, PollRead, chan, close
<1>5. CASE PollCheck
  BY <1>5 DEF PollCheck, chan, close
<1>6. CASE PollPush \/ PollEvict \/ PollRetry
  BY <1>6 DEF PollPush, PollEvict, PollRetry, Place, close
<1>7. CASE SendOnClosed
  BY <1>7 DEF SendOnClosed, pull, chan, close
<1>8. CASE Mark
  <2>1. ~panicked
    BY <1>8 DEF Mark, Next, vars, close
  <2>2. ~chClosed /\ chClosed' = chClosed /\ poller' = poller /\ panicked' = panicked
    BY <1>8 DEF Mark, pull, chan
  <2>3. inFlight' <=> Past
    BY <1>8 DEF Mark
  <2> QED
    BY <2>1, <2>2, <2>3
<1>9. CASE Closing
  BY <1>9 DEF Closing, Silence, CloseChannel, Disconnect, pull, chan
<1>10. CASE \E r \in Receivers : RecvCall(r) \/ Expire(r) \/ Recv(r)
  BY <1>10 DEF RecvCall, Expire, Recv, pull, chan, close
<1> QED
  BY <1>1, <1>2, <1>3, <1>4, <1>5, <1>6, <1>7, <1>8, <1>9, <1>10 DEF Next, Pulling

\* Close crashes the process only over the packet that was already past its
\* check of closed (Close and pullPackets, ble_transport.go:71-84, 158-189).
THEOREM ClosePanicsInFlightOnly == Spec => []PanicOnlyInFlight
<1>1. CloseInv => PanicOnlyInFlight
  BY DEF CloseInv, PanicOnlyInFlight
<1> QED
  BY InitClose, NextClose, <1>1, PTL DEF Spec

-----------------------------------------------------------------------------
(* The types.                                                              *)

\* The poller's states in which pullPackets has a packet in its hands.
Carrying == {"check", "push", "evict", "retry"}

RadioTyped ==
    /\ made \in 0 .. Packets /\ queue \in Seq(1 .. made) /\ faults \in 0 .. FaultBudget
    /\ link \in {"up", "lost", "down"} /\ {notifying, pulled, tick} \subseteq BOOLEAN
PullTyped ==
    /\ hand \in 0 .. made /\ newest \in 0 .. made
    /\ hand # 0 <=> poller \in Carrying
ChanTyped ==
    /\ packets \in Seq(Nat) /\ Len(packets) <= Capacity /\ received \in Seq(Nat)
    /\ pc \in [Receivers -> {"idle", "wait"}]
TypeInv == RadioTyped /\ PullTyped /\ ChanTyped

\* The packets' ways through a sequence: one joins at its end, the first one leaves.
LEMMA Joins ==
  ASSUME NEW s \in Seq(Nat), NEW p \in Nat
  PROVE  /\ Append(s, p) \in Seq(Nat) /\ Len(Append(s, p)) = Len(s) + 1
         /\ DOMAIN s = 1 .. Len(s) /\ DOMAIN Append(s, p) = 1 .. Len(s) + 1
         /\ \A i \in 1 .. Len(s) : Append(s, p)[i] = s[i]
         /\ Append(s, p)[Len(s) + 1] = p
         /\ Range(Append(s, p)) = Range(s) \cup {p}
<1> DEFINE n == Len(s)
           t == Append(s, p)
<1>1. /\ t \in Seq(Nat) /\ Len(t) = n + 1 /\ n \in Nat
      /\ DOMAIN s = 1 .. n /\ DOMAIN t = 1 .. n + 1
      /\ (\A i \in 1 .. n : t[i] = s[i]) /\ t[n + 1] = p
  BY AppendProperties
<1> HIDE DEF n, t
<1>2. \A i \in 1 .. n : i \in 1 .. n + 1
  BY <1>1
<1>3. (\A i \in 1 .. n + 1 : i \in 1 .. n \/ i = n + 1) /\ n + 1 \in 1 .. n + 1
  BY <1>1
<1>4. Range(s) = {s[i] : i \in 1 .. n} /\ Range(t) = {t[i] : i \in 1 .. n + 1}
  BY <1>1 DEF Range
<1>5. Range(t) \subseteq Range(s) \cup {p}
  BY <1>1, <1>3, <1>4
<1>6. Range(s) \cup {p} \subseteq Range(t)
  BY <1>1, <1>2, <1>3, <1>4
<1>7. Range(t) = Range(s) \cup {p}
  BY <1>5, <1>6
<1> QED
  BY <1>1, <1>7 DEF n, t

LEMMA Leaves ==
  ASSUME NEW s \in Seq(Nat), s # <<>>
  PROVE  /\ Head(s) = s[1] /\ s[1] \in Nat /\ Len(s) \in Nat \ {0} /\ DOMAIN s = 1 .. Len(s)
         /\ Tail(s) \in Seq(Nat) /\ Len(Tail(s)) = Len(s) - 1
         /\ DOMAIN Tail(s) = 1 .. Len(s) - 1
         /\ \A i \in 1 .. Len(s) - 1 : Tail(s)[i] = s[i + 1] /\ i + 1 \in 1 .. Len(s)
         /\ Range(s) = Range(Tail(s)) \cup {s[1]}
<1> DEFINE n == Len(s)
           t == Tail(s)
<1>1. /\ t \in Seq(Nat) /\ Len(t) = n - 1 /\ n \in Nat \ {0} /\ s[1] \in Nat /\ Head(s) = s[1]
      /\ DOMAIN s = 1 .. n /\ DOMAIN t = 1 .. n - 1
      /\ \A i \in 1 .. n - 1 : t[i] = s[i + 1]
  BY HeadTailProperties, EmptySeq
<1> HIDE DEF n, t
<1>2. \A i \in 1 .. n - 1 : i + 1 \in 1 .. n
  BY <1>1
<1>3. \A i \in 1 .. n : i = 1 \/ (i - 1 \in 1 .. n - 1 /\ (i - 1) + 1 = i)
  BY <1>1
<1>4. Range(s) = {s[i] : i \in 1 .. n} /\ Range(t) = {t[i] : i \in 1 .. n - 1} /\ 1 \in 1 .. n
  BY <1>1 DEF Range
<1>5. Range(s) \subseteq Range(t) \cup {s[1]}
  <2> SUFFICES ASSUME NEW i \in 1 .. n PROVE s[i] \in Range(t) \cup {s[1]}
    BY <1>4
  <2>1. CASE i = 1
    BY <2>1
  <2>2. CASE i - 1 \in 1 .. n - 1 /\ (i - 1) + 1 = i
    <3>1. t[i - 1] = s[i]
      BY <1>1, <2>2
    <3> QED
      BY <1>4, <2>2, <3>1
  <2> QED
    BY <1>3, <2>1, <2>2
<1>6. Range(t) \cup {s[1]} \subseteq Range(s)
  BY <1>1, <1>2, <1>4
<1>7. Range(s) = Range(t) \cup {s[1]}
  BY <1>5, <1>6
<1> QED
  BY <1>1, <1>2, <1>7 DEF n, t

LEMMA InitType == Init => TypeInv
<1> SUFFICES ASSUME Init PROVE TypeInv
  OBVIOUS
<1>1. <<>> \in Seq(1 .. 0) /\ <<>> \in Seq(Nat) /\ Len(<<>>) = 0
  BY EmptySeq
<1>2. 0 \in 0 .. Packets /\ FaultBudget \in 0 .. FaultBudget /\ 0 <= Capacity
  BY BleAssumption
<1>3. made = 0 /\ queue = <<>> /\ packets = <<>> /\ received = <<>>
  BY DEF Init
<1>4. RadioTyped
  BY <1>1, <1>2, <1>3 DEF Init, RadioTyped
<1>5. PullTyped
  BY DEF Init, PullTyped, Carrying
<1>6. ChanTyped
  BY <1>1, <1>2, <1>3 DEF Init, ChanTyped
<1> QED
  BY <1>4, <1>5, <1>6 DEF TypeInv

\* A read takes the first packet or leaves the queue alone.
LEMMA Reads ==
  ASSUME RadioTyped, ReadOk \/ ReadEmpty \/ ReadErr, UNCHANGED <<made, link, wake>>
  PROVE  /\ RadioTyped'
         /\ queue' = queue \/ (queue # <<>> /\ queue' = Tail(queue))
         /\ ReadOk => queue # <<>> /\ queue' = Tail(queue) /\ Head(queue) \in 1 .. made
<1>1. /\ queue' = queue \/ (queue # <<>> /\ queue' = Tail(queue))
      /\ faults' = faults \/ (faults > 0 /\ faults' = faults - 1)
  BY DEF ReadOk, ReadEmpty, ReadErr
<1>2. queue \in Seq(1 .. made)
  BY DEF RadioTyped
<1>3. queue # <<>> => Tail(queue) \in Seq(1 .. made) /\ Head(queue) \in 1 .. made
  BY <1>2, HeadTailProperties
<1>4. faults' \in 0 .. FaultBudget
  BY <1>1, BleAssumption DEF RadioTyped
<1>5. RadioTyped'
  BY <1>1, <1>2, <1>3, <1>4 DEF RadioTyped, wake
<1> QED
  BY <1>1, <1>3, <1>5 DEF ReadOk

LEMMA NextType == TypeInv /\ [Next]_vars => TypeInv'
<1> SUFFICES ASSUME TypeInv, [Next]_vars PROVE TypeInv'
  OBVIOUS
<1> USE DEF TypeInv
<1>r. UNCHANGED <<radio, wake>> => RadioTyped'
  BY DEF RadioTyped, radio, wake
<1>p. UNCHANGED <<pull, made>> => PullTyped'
  BY DEF PullTyped, pull
<1>c. UNCHANGED <<packets, received, pc>> => ChanTyped'
  BY DEF ChanTyped
<1>1. CASE UNCHANGED vars
  BY <1>1, <1>r, <1>p, <1>c DEF vars, radio, chan, recv
<1>2. CASE Radio
  <2>1. made' = made + 1 /\ made < Packets /\ queue' = Append(queue, made + 1)
        /\ UNCHANGED <<link, faults, notifying, tick, pull, packets, received, pc>>
        /\ pulled' \in {pulled, TRUE}
    BY <1>2 DEF Radio, chan, recv
  <2>2. made \in Nat /\ made' \in 0 .. Packets
    BY <2>1, BleAssumption DEF RadioTyped
  <2>3. queue \in Seq(1 .. made + 1)
    <3>1. queue \in Seq(1 .. made)
      BY DEF RadioTyped
    <3>2. 1 .. made \subseteq 1 .. made + 1
      BY <2>2
    <3> QED
      BY <3>1, <3>2, SeqMonotonic
  <2>4. Append(queue, made + 1) \in Seq(1 .. made + 1)
    BY <2>2, <2>3, AppendProperties
  <2>5. RadioTyped'
    BY <2>1, <2>2, <2>4 DEF RadioTyped
  <2>6. PullTyped'
    BY <2>1, <2>2 DEF PullTyped, pull
  <2> QED
    BY <1>c, <2>1, <2>5, <2>6
<1>3. CASE LoseLink \/ Tick \/ Send
  <2>1. RadioTyped'
    BY <1>3 DEF LoseLink, Tick, Send, RadioTyped, radio, wake
  <2> QED
    BY <1>3, <1>p, <1>c, <2>1 DEF LoseLink, Tick, Send, radio, chan, recv
<1>4. CASE Greet \/ Enable
  <2>1. RadioTyped'
    BY <1>4 DEF Greet, Enable, RadioTyped, radio, wake
  <2>2. PullTyped'
    BY <1>4 DEF Greet, Enable, PullTyped, Carrying, radio
  <2> QED
    BY <1>4, <1>c, <2>1, <2>2 DEF Greet, Enable, chan, recv
<1>5. CASE Drain
  <2>1. RadioTyped'
    BY <1>5, Reads DEF Drain
  <2>2. PullTyped'
    BY <1>5 DEF Drain, PullTyped, Carrying
  <2> QED
    BY <1>5, <1>c, <2>1, <2>2 DEF Drain, chan, recv
<1>6. CASE PollStop \/ PollWake \/ PollCheck
  <2>1. RadioTyped'
    BY <1>6 DEF PollStop, PollWake, PollCheck, RadioTyped, radio, wake
  <2>2. PullTyped'
    BY <1>6 DEF PollStop, PollWake, PollCheck, PullTyped, RadioTyped, Carrying, radio
  <2> QED
    BY <1>6, <1>c, <2>1, <2>2 DEF PollStop, PollWake, PollCheck, chan, recv
<1>7. CASE PollRead
  <2>1. RadioTyped'
    BY <1>7, Reads DEF PollRead
  <2>2. PullTyped'
    <3>1. CASE ReadOk /\ hand' = Head(queue) /\ poller' = "check"
      <4>1. Head(queue) \in 1 .. made /\ made' = made /\ newest' = newest
        BY <1>7, <3>1, Reads DEF PollRead
      <4> QED
        BY <3>1, <4>1 DEF PullTyped, RadioTyped, Carrying
    <3>2. CASE poller' = "wait" /\ hand' = hand
      BY <1>7, <3>2 DEF PollRead, PullTyped, Carrying
    <3> QED
      BY <1>7, <3>1, <3>2 DEF PollRead
  <2> QED
    BY <1>7, <1>c, <2>1, <2>2 DEF PollRead, chan, recv
<1>8. CASE PollPush \/ PollRetry
  <2>1. UNCHANGED <<radio, wake, received, pc, made>>
    BY <1>8 DEF PollPush, PollRetry, recv, radio
  <2>2. PullTyped'
    BY <1>8, <2>1 DEF PollPush, PollRetry, Place, PullTyped, RadioTyped, Carrying
  <2>3. packets' = packets \/ (Len(packets) < Capacity /\ packets' = Append(packets, hand))
    BY <1>8 DEF PollPush, PollRetry, Place, Room
  <2>4. hand \in Nat /\ packets \in Seq(Nat) /\ Len(packets) \in Nat /\ Capacity \in Nat
    BY BleAssumption DEF PullTyped, RadioTyped, ChanTyped
  <2>5. Append(packets, hand) \in Seq(Nat) /\ Len(Append(packets, hand)) = Len(packets) + 1
    BY <2>4, Joins
  <2>6. packets' \in Seq(Nat) /\ Len(packets') <= Capacity
    <3>1. CASE packets' = packets
      BY <2>4, <3>1 DEF ChanTyped
    <3>2. CASE Len(packets) < Capacity /\ packets' = Append(packets, hand)
      <4>1. Len(packets') = Len(packets) + 1
        BY <2>5, <3>2
      <4> QED
        BY <2>4, <2>5, <3>2, <4>1
    <3> QED
      BY <2>3, <3>1, <3>2
  <2> QED
    BY <1>r, <2>1, <2>2, <2>6 DEF ChanTyped
<1>9. CASE PollEvict
  <2>1. UNCHANGED <<radio, wake, received, pc, made>>
    BY <1>9 DEF PollEvict, recv, radio
  <2>2. PullTyped'
    BY <1>9, <2>1 DEF PollEvict, PullTyped, Carrying
  <2>3. packets' = packets \/ (packets # <<>> /\ packets' = Tail(packets))
    BY <1>9 DEF PollEvict
  <2>4. packets \in Seq(Nat) /\ Len(packets) \in Nat /\ Len(packets) <= Capacity /\ Capacity \in Nat
    BY BleAssumption DEF ChanTyped
  <2>5. packets # <<>> => Tail(packets) \in Seq(Nat) /\ Len(Tail(packets)) = Len(packets) - 1
    BY <2>4, Leaves
  <2>6. packets' \in Seq(Nat) /\ Len(packets') <= Capacity
    <3>1. CASE packets # <<>> /\ packets' = Tail(packets)
      <4>1. Len(packets') = Len(packets) - 1
        BY <2>5, <3>1
      <4> QED
        BY <2>4, <2>5, <3>1, <4>1
    <3> QED
      BY <2>3, <2>4, <3>1
  <2> QED
    BY <1>r, <2>1, <2>2, <2>6 DEF ChanTyped
<1>10. CASE SendOnClosed
  BY <1>10, <1>r, <1>p, <1>c DEF SendOnClosed, radio, chan, recv
<1>11. CASE Mark \/ Closing
  <2>1. RadioTyped'
    BY <1>11 DEF Mark, Closing, Silence, CloseChannel, Disconnect, RadioTyped, radio, wake
  <2> QED
    BY <1>11, <1>p, <1>c, <2>1
       DEF Mark, Closing, Silence, CloseChannel, Disconnect, radio, chan, recv
<1>12. ASSUME NEW r \in Receivers, RecvCall(r) \/ Expire(r) PROVE TypeInv'
  <2>1. UNCHANGED <<radio, wake, pull, packets, received, made>>
    BY <1>12 DEF RecvCall, Expire, chan, radio
  <2>2. pc' \in [Receivers -> {"idle", "wait"}]
    BY <1>12 DEF RecvCall, Expire, ChanTyped
  <2> QED
    BY <1>r, <1>p, <2>1, <2>2 DEF ChanTyped
<1>13. ASSUME NEW r \in Receivers, Recv(r) PROVE TypeInv'
  <2>1. UNCHANGED <<radio, wake, pull, made>>
    BY <1>13 DEF Recv, radio
  <2>2. pc' \in [Receivers -> {"idle", "wait"}]
    BY <1>13 DEF Recv, ChanTyped
  <2>3. \/ UNCHANGED <<packets, received>>
        \/ packets # <<>> /\ packets' = Tail(packets) /\ received' = Append(received, Head(packets))
    BY <1>13 DEF Recv
  <2>4. packets \in Seq(Nat) /\ received \in Seq(Nat) /\ Len(packets) \in Nat
        /\ Len(packets) <= Capacity /\ Capacity \in Nat
    BY BleAssumption DEF ChanTyped
  <2>5. packets # <<>> => /\ Tail(packets) \in Seq(Nat) /\ Len(Tail(packets)) = Len(packets) - 1
                          /\ Append(received, Head(packets)) \in Seq(Nat)
    BY <2>4, Leaves, Joins
  <2>6. packets' \in Seq(Nat) /\ Len(packets') <= Capacity /\ received' \in Seq(Nat)
    <3>1. CASE packets # <<>> /\ packets' = Tail(packets) /\ received' = Append(received, Head(packets))
      <4>1. Len(packets') = Len(packets) - 1
        BY <2>5, <3>1
      <4> QED
        BY <2>4, <2>5, <3>1, <4>1
    <3> QED
      BY <2>3, <2>4, <3>1
  <2> QED
    BY <1>r, <1>p, <2>1, <2>2, <2>6 DEF ChanTyped
<1> QED
  BY <1>1, <1>2, <1>3, <1>4, <1>5, <1>6, <1>7, <1>8, <1>9, <1>10, <1>11, <1>12, <1>13
     DEF Next, Opening, Pulling

\* The variables keep their types: the channel never holds more than its capacity, and the
\* poller has a packet in hand exactly from reading it to placing it.
THEOREM BleTypeCorrect == Spec => []TypeOK
<1>1. TypeInv => TypeOK
  BY DEF TypeInv, RadioTyped, PullTyped, ChanTyped, Carrying, TypeOK, Range
<1> QED
  BY InitType, NextType, <1>1, PTL DEF Spec

-----------------------------------------------------------------------------
(* The order of the packets, and what is kept of them.                     *)

Below(s, p)  == \A i \in 1 .. Len(s) : s[i] <= p
Above(s, p)  == \A i \in 1 .. Len(s) : p < s[i]
Before(s, t) == \A i \in 1 .. Len(s), j \in 1 .. Len(t) : s[i] < t[j]

\* From the receivers back to the radio's queue, every packet is a later one.
Ordered ==
    /\ Increasing(received) /\ Increasing(packets) /\ Increasing(queue)
    /\ Before(received, packets) /\ Below(received, newest) /\ Below(packets, newest)
    /\ Above(queue, newest) /\ Above(queue, hand)
    /\ hand # 0 => newest < hand

\* The packet placed last is evicted only for the next; after an eviction there is room.
Kept ==
    /\ poller = "retry" => Room
    /\ poller \notin {"evict", "retry"} /\ newest # 0 => newest \in Range(received) \cup Range(packets)

LEMMA JoinsOrdered ==
  ASSUME NEW s \in Seq(Nat), NEW p \in Nat, Increasing(s), \A i \in 1 .. Len(s) : s[i] < p
  PROVE  Increasing(Append(s, p))
<1> PICK t : t = Append(s, p)
  OBVIOUS
<1> PICK n : n = Len(s)
  OBVIOUS
<1>1. /\ n \in Nat /\ DOMAIN s = 1 .. n /\ DOMAIN t = 1 .. n + 1
      /\ (\A i \in 1 .. n : t[i] = s[i]) /\ t[n + 1] = p
  BY Joins, LenProperties
<1> SUFFICES ASSUME NEW i \in 1 .. n + 1, NEW j \in 1 .. n + 1, i < j PROVE t[i] < t[j]
  BY <1>1 DEF Increasing
<1>2. i \in 1 .. n /\ t[i] = s[i] /\ (j \in 1 .. n \/ j = n + 1)
  BY <1>1
<1>3. CASE j = n + 1
  BY <1>1, <1>2, <1>3
<1>4. CASE j \in 1 .. n
  BY <1>1, <1>2, <1>4 DEF Increasing
<1> QED
  BY <1>2, <1>3, <1>4

LEMMA LeavesOrdered ==
  ASSUME NEW s \in Seq(Nat), s # <<>>, Increasing(s)
  PROVE  Increasing(Tail(s)) /\ Above(Tail(s), s[1])
<1> PICK t : t = Tail(s)
  OBVIOUS
<1> PICK n : n = Len(s)
  OBVIOUS
<1>1. /\ n \in Nat \ {0} /\ DOMAIN s = 1 .. n /\ DOMAIN t = 1 .. n - 1 /\ Len(t) = n - 1
      /\ \A i \in 1 .. n - 1 : t[i] = s[i + 1] /\ i + 1 \in 1 .. n
  BY Leaves
<1>2. ASSUME NEW i \in 1 .. n - 1, NEW j \in 1 .. n - 1, i < j PROVE t[i] < t[j]
  <2>1. t[i] = s[i + 1] /\ t[j] = s[j + 1] /\ i + 1 \in 1 .. n /\ j + 1 \in 1 .. n
    BY <1>1
  <2>2. i + 1 < j + 1
    BY <1>1, <1>2
  <2> QED
    BY <1>1, <2>1, <2>2 DEF Increasing
<1>3. ASSUME NEW i \in 1 .. n - 1 PROVE s[1] < t[i]
  <2>1. t[i] = s[i + 1] /\ i + 1 \in 1 .. n
    BY <1>1
  <2>2. 1 < i + 1 /\ 1 \in 1 .. n
    BY <1>1
  <2> QED
    BY <1>1, <2>1, <2>2 DEF Increasing
<1> QED
  BY <1>1, <1>2, <1>3 DEF Increasing, Above

LEMMA ConcatOrdered ==
  ASSUME NEW s \in Seq(Nat), NEW t \in Seq(Nat), Increasing(s), Increasing(t), Before(s, t)
  PROVE  Increasing(s \o t)
<1> PICK u : u = s \o t
  OBVIOUS
<1> PICK n : n = Len(s)
  OBVIOUS
<1> PICK m : m = Len(t)
  OBVIOUS
<1>1. /\ n \in Nat /\ m \in Nat /\ DOMAIN s = 1 .. n /\ DOMAIN t = 1 .. m
      /\ u \in Seq(Nat) /\ Len(u) = n + m
      /\ \A i \in 1 .. n + m : u[i] = IF i <= n THEN s[i] ELSE t[i - n]
  BY ConcatProperties, LenProperties
<1>2. DOMAIN u = 1 .. n + m
  BY <1>1
<1> SUFFICES ASSUME NEW i \in 1 .. n + m, NEW j \in 1 .. n + m, i < j PROVE u[i] < u[j]
  BY <1>2 DEF Increasing
<1>3. /\ i <= n => i \in 1 .. n /\ u[i] = s[i]
      /\ j <= n => j \in 1 .. n /\ u[j] = s[j]
      /\ i > n => i - n \in 1 .. m /\ u[i] = t[i - n]
      /\ j > n => j - n \in 1 .. m /\ u[j] = t[j - n]
  BY <1>1
<1>4. CASE j <= n
  <2>1. i <= n
    BY <1>1, <1>4
  <2> QED
    BY <1>1, <1>3, <1>4, <2>1 DEF Increasing
<1>5. CASE i <= n /\ j > n
  BY <1>1, <1>3, <1>5 DEF Before
<1>6. CASE i > n
  <2>1. j > n /\ i - n < j - n
    BY <1>1, <1>6
  <2> QED
    BY <1>1, <1>3, <1>6, <2>1 DEF Increasing
<1> QED
  BY <1>1, <1>4, <1>5, <1>6

LEMMA InitOrdered == Init => Ordered /\ Kept
<1> SUFFICES ASSUME Init PROVE Ordered /\ Kept
  OBVIOUS
<1>1. received = <<>> /\ packets = <<>> /\ queue = <<>> /\ newest = 0 /\ hand = 0 /\ poller = "greet"
  BY DEF Init
<1>2. Len(<<>>) = 0 /\ DOMAIN <<>> = 1 .. 0
  BY EmptySeq
<1> QED
  BY <1>1, <1>2 DEF Ordered, Kept, Increasing, Before, Below, Above

\* The radio's queue: a later packet joins, or the first one leaves.
LEMMA QueueStaysOrdered ==
  ASSUME TypeInv, Ordered, NEW p \in {newest, hand}
  PROVE  /\ Increasing(Append(queue, made + 1)) /\ Above(Append(queue, made + 1), p)
         /\ queue # <<>> => /\ Increasing(Tail(queue)) /\ Above(Tail(queue), p)
                            /\ Above(Tail(queue), Head(queue))
                            /\ newest < Head(queue) /\ Head(queue) \in Nat
<1>1. made \in Nat /\ queue \in Seq(Nat) /\ p \in 0 .. made /\ newest \in Nat
      /\ \A i \in 1 .. Len(queue) : queue[i] \in 1 .. made
  <2>1. queue \in Seq(1 .. made) /\ 1 .. made \subseteq Nat /\ made \in Nat
    BY BleAssumption DEF TypeInv, RadioTyped
  <2>2. queue \in Seq(Nat)
    BY <2>1, SeqMonotonic
  <2>3. \A i \in 1 .. Len(queue) : queue[i] \in 1 .. made
    BY <2>1, ElementOfSeq
  <2> QED
    BY <2>1, <2>2, <2>3 DEF TypeInv, PullTyped
<1>2. Increasing(queue) /\ Above(queue, p) /\ Above(queue, newest)
  BY DEF Ordered
<1> PICK n : n = Len(queue)
  OBVIOUS
<1>3. Increasing(Append(queue, made + 1))
  <2>1. \A i \in 1 .. Len(queue) : queue[i] < made + 1
    BY <1>1
  <2>2. made + 1 \in Nat
    BY <1>1
  <2> QED
    BY <1>1, <1>2, <2>1, <2>2, JoinsOrdered
<1>4. Above(Append(queue, made + 1), p)
  <2> PICK t : t = Append(queue, made + 1)
    OBVIOUS
  <2>1. /\ Len(t) = n + 1 /\ n \in Nat /\ t[n + 1] = made + 1
        /\ \A i \in 1 .. n : t[i] = queue[i]
    BY <1>1, AppendProperties
  <2>2. p < made + 1
    BY <1>1
  <2>3. \A i \in 1 .. n + 1 : i \in 1 .. n \/ i = n + 1
    BY <2>1
  <2> QED
    BY <1>2, <2>1, <2>2, <2>3 DEF Above
<1>5. ASSUME queue # <<>>
      PROVE  /\ Increasing(Tail(queue)) /\ Above(Tail(queue), p) /\ Above(Tail(queue), Head(queue))
             /\ newest < Head(queue) /\ Head(queue) \in Nat
  <2> PICK t : t = Tail(queue)
    OBVIOUS
  <2>1. /\ Head(queue) = queue[1] /\ queue[1] \in Nat /\ n \in Nat \ {0} /\ Len(t) = n - 1
        /\ \A i \in 1 .. n - 1 : t[i] = queue[i + 1] /\ i + 1 \in 1 .. n
    BY <1>1, <1>5, Leaves
  <2>2. Increasing(t) /\ Above(t, queue[1])
    BY <1>1, <1>2, <1>5, LeavesOrdered
  <2>3. Above(t, p)
    BY <1>2, <2>1 DEF Above
  <2>4. 1 \in 1 .. n
    BY <2>1
  <2>5. newest < queue[1]
    BY <1>2, <2>4 DEF Above
  <2> QED
    BY <2>1, <2>2, <2>3, <2>5
<1> QED
  BY <1>3, <1>4, <1>5

-----------------------------------------------------------------------------
(* A step keeps both.                                                      *)

\* The packet in hand is placed behind the others.
LEMMA PlaceKeepsOrder ==
  ASSUME TypeInv, Ordered, hand # 0, Place, UNCHANGED <<queue, received>>
  PROVE  Ordered' /\ hand \in Range(packets')
<1>1. /\ packets' = Append(packets, hand) /\ newest' = hand /\ hand' = 0
      /\ queue' = queue /\ received' = received
  BY DEF Place
<1>2. packets \in Seq(Nat) /\ hand \in Nat /\ newest \in Nat /\ received \in Seq(Nat) /\ newest < hand
      /\ hand > 0
  BY DEF TypeInv, RadioTyped, PullTyped, ChanTyped, Ordered
<1> PICK t : t = Append(packets, hand)
  OBVIOUS
<1> PICK n : n = Len(packets)
  OBVIOUS
<1>3. /\ n \in Nat /\ Len(t) = n + 1 /\ (\A i \in 1 .. n : t[i] = packets[i]) /\ t[n + 1] = hand
      /\ hand \in Range(t) /\ \A i \in 1 .. n + 1 : i \in 1 .. n \/ i = n + 1
  <2>1. /\ Len(t) = n + 1 /\ (\A i \in 1 .. n : t[i] = packets[i]) /\ t[n + 1] = hand
        /\ Range(t) = Range(packets) \cup {hand}
    BY <1>2, Joins
  <2>2. n \in Nat
    BY <1>2
  <2> QED
    BY <2>1, <2>2
<1>4. /\ \A i \in 1 .. n : packets[i] <= newest /\ packets[i] \in Nat
      /\ \A i \in 1 .. Len(received) : received[i] <= newest /\ received[i] \in Nat
  BY <1>2, ElementOfSeq DEF Ordered, Below
<1>5. Increasing(t)
  <2>1. \A i \in 1 .. Len(packets) : packets[i] < hand
    BY <1>2, <1>4
  <2> QED
    BY <1>2, <2>1, JoinsOrdered DEF Ordered
<1>6. Before(received, t)
  <2>1. \A i \in 1 .. Len(received) : received[i] < hand
    BY <1>2, <1>4
  <2> QED
    BY <1>3, <2>1 DEF Ordered, Before
<1>7. Below(received, hand)
  BY <1>2, <1>4 DEF Below
<1>8. Below(t, hand)
  BY <1>2, <1>3, <1>4 DEF Below
<1>9. Above(queue, hand) /\ Above(queue, 0)
  <2>1. \A i \in 1 .. Len(queue) : hand < queue[i] /\ queue[i] \in Nat
    <3>1. queue \in Seq(1 .. made)
      BY DEF TypeInv, RadioTyped
    <3>2. \A i \in 1 .. Len(queue) : queue[i] \in 1 .. made
      BY <3>1, ElementOfSeq
    <3>3. made \in Nat
      BY BleAssumption DEF TypeInv, RadioTyped
    <3> QED
      BY <3>2, <3>3 DEF Ordered, Above
  <2> QED
    BY <1>2, <2>1 DEF Above
<1> QED
  BY <1>1, <1>3, <1>5, <1>6, <1>7, <1>8, <1>9 DEF Ordered

\* The oldest packet of the channel goes to a receiver, or is lost.
LEMMA ChannelStaysOrdered ==
  ASSUME TypeInv, Ordered, packets # <<>>
  PROVE  /\ Increasing(Tail(packets)) /\ Below(Tail(packets), newest)
         /\ Before(received, Tail(packets))
         /\ Increasing(Append(received, Head(packets)))
         /\ Below(Append(received, Head(packets)), newest)
         /\ Before(Append(received, Head(packets)), Tail(packets))
         /\ Range(Append(received, Head(packets))) \cup Range(Tail(packets))
              = Range(received) \cup Range(packets)
<1> PICK t : t = Tail(packets)
  OBVIOUS
<1> PICK p : p = packets[1]
  OBVIOUS
<1> PICK u : u = Append(received, p)
  OBVIOUS
<1> PICK n : n = Len(packets)
  OBVIOUS
<1> PICK m : m = Len(received)
  OBVIOUS
<1>1. packets \in Seq(Nat) /\ received \in Seq(Nat) /\ newest \in Nat /\ m \in Nat
  BY DEF TypeInv, RadioTyped, PullTyped, ChanTyped
<1>2. /\ Head(packets) = p /\ p \in Nat /\ n \in Nat \ {0} /\ Len(t) = n - 1
      /\ \A i \in 1 .. n - 1 : t[i] = packets[i + 1] /\ i + 1 \in 1 .. n
      /\ Range(packets) = Range(t) \cup {p}
  BY <1>1, Leaves
<1>3. Increasing(t) /\ Above(t, p)
  BY <1>1, LeavesOrdered DEF Ordered
<1>4. /\ Len(u) = m + 1 /\ (\A i \in 1 .. m : u[i] = received[i]) /\ u[m + 1] = p
      /\ Range(u) = Range(received) \cup {p}
  BY <1>1, <1>2, Joins
<1>5. \A i \in 1 .. m + 1 : i \in 1 .. m \/ i = m + 1
  BY <1>1
<1>6. 1 \in 1 .. n
  BY <1>2
<1>7. (\A i \in 1 .. m : received[i] < p) /\ p <= newest
  BY <1>6 DEF Ordered, Before, Below
<1>8. Increasing(u)
  BY <1>1, <1>2, <1>7, JoinsOrdered DEF Ordered
<1>9. Below(t, newest) /\ Before(received, t)
  BY <1>2 DEF Ordered, Below, Before
<1>10. Below(u, newest)
  BY <1>4, <1>5, <1>7 DEF Ordered, Below
<1>11. Before(u, t)
  BY <1>3, <1>4, <1>5, <1>9 DEF Before, Above
<1> QED
  BY <1>2, <1>3, <1>4, <1>8, <1>9, <1>10, <1>11

LEMMA NextOrdered == TypeInv /\ Ordered /\ Kept /\ [Next]_vars => Ordered' /\ Kept'
<1> SUFFICES ASSUME TypeInv, Ordered, Kept, [Next]_vars PROVE Ordered' /\ Kept'
  OBVIOUS
<1>o. UNCHANGED <<received, packets, queue, newest, hand>> => Ordered'
  BY DEF Ordered, Increasing, Before, Below, Above
<1>k. /\ UNCHANGED <<received, packets, newest>>
      /\ poller' = poller \/ (poller' \notin {"evict", "retry"} /\ poller \notin {"evict", "retry"})
      => Kept'
  BY DEF Kept, Room
<1>1. CASE UNCHANGED vars
  BY <1>1, <1>o, <1>k DEF vars, radio, pull, chan, recv
<1>2. CASE Radio
  <2>1. queue' = Append(queue, made + 1) /\ UNCHANGED <<received, packets, newest, hand, poller>>
    BY <1>2 DEF Radio, pull, chan, recv
  <2>2. Increasing(queue') /\ Above(queue', newest) /\ Above(queue', hand)
    BY <2>1, QueueStaysOrdered
  <2> QED
    BY <1>k, <2>1, <2>2 DEF Ordered
<1>3. CASE LoseLink \/ Tick \/ Send \/ SendOnClosed \/ Mark \/ Closing
  BY <1>3, <1>o, <1>k DEF LoseLink, Tick, Send, SendOnClosed, Mark, Closing, Silence, CloseChannel,
     Disconnect, radio, pull, chan, recv
<1>4. CASE Greet \/ Enable \/ PollStop \/ PollWake
  BY <1>4, <1>o, <1>k DEF Greet, Enable, PollStop, PollWake, radio, chan, recv
<1>5. CASE Drain
  <2>1. /\ UNCHANGED <<received, packets, newest, hand>> /\ UNCHANGED <<made, link, wake>>
        /\ ReadOk \/ ReadEmpty \/ ReadErr
        /\ poller' \notin {"evict", "retry"} /\ poller \notin {"evict", "retry"}
    BY <1>5 DEF Drain, chan, recv
  <2>2. queue' = queue \/ (queue # <<>> /\ queue' = Tail(queue))
    BY <2>1, Reads DEF TypeInv
  <2>3. CASE queue' = queue
    BY <1>o, <1>k, <2>1, <2>3
  <2>4. CASE queue # <<>> /\ queue' = Tail(queue)
    <3>1. Increasing(queue') /\ Above(queue', newest) /\ Above(queue', hand)
      BY <2>4, QueueStaysOrdered
    <3> QED
      BY <1>k, <2>1, <3>1 DEF Ordered
  <2> QED
    BY <2>2, <2>3, <2>4
<1>6. CASE PollRead
  <2>1. /\ UNCHANGED <<received, packets, newest, made, link, wake>>
        /\ poller' \notin {"evict", "retry"} /\ poller \notin {"evict", "retry"}
        /\ \/ ReadOk /\ hand' = Head(queue)
           \/ (ReadEmpty \/ ReadErr) /\ hand' = hand
    BY <1>6 DEF PollRead, chan, recv
  <2>2. Kept'
    BY <1>k, <2>1
  <2>3. CASE ReadOk /\ hand' = Head(queue)
    <3>1. queue # <<>> /\ queue' = Tail(queue)
      BY <2>3 DEF ReadOk
    <3>2. /\ Increasing(queue') /\ Above(queue', newest) /\ Above(queue', hand')
          /\ newest < hand'
      BY <2>3, <3>1, QueueStaysOrdered
    <3> QED
      BY <2>1, <2>2, <3>2 DEF Ordered
  <2>4. CASE (ReadEmpty \/ ReadErr) /\ hand' = hand
    <3>1. queue' = queue \/ (queue # <<>> /\ queue' = Tail(queue))
      BY <2>1, <2>4, Reads DEF TypeInv
    <3>2. CASE queue' = queue
      BY <1>o, <2>1, <2>2, <2>4, <3>2
    <3>3. CASE queue # <<>> /\ queue' = Tail(queue)
      <4>1. Increasing(queue') /\ Above(queue', newest) /\ Above(queue', hand)
        BY <3>3, QueueStaysOrdered
      <4> QED
        BY <2>1, <2>2, <2>4, <4>1 DEF Ordered
    <3> QED
      BY <3>1, <3>2, <3>3
  <2> QED
    BY <2>1, <2>3, <2>4
<1>7. CASE PollCheck
  <2>1. /\ UNCHANGED <<received, packets, newest, queue>> /\ hand' \in {hand, 0}
        /\ poller' \notin {"evict", "retry"} /\ poller \notin {"evict", "retry"}
    BY <1>7 DEF PollCheck, radio, chan, recv
  <2>2. CASE hand' = hand
    BY <1>o, <1>k, <2>1, <2>2
  <2>3. CASE hand' = 0
    <3>1. \A i \in 1 .. Len(queue) : queue[i] \in Nat /\ 0 < queue[i]
      <4>1. queue \in Seq(1 .. made) /\ made \in Nat
        BY BleAssumption DEF TypeInv, RadioTyped
      <4> QED
        BY <4>1, ElementOfSeq
    <3>2. Above(queue, 0)
      BY <3>1 DEF Above
    <3> QED
      BY <1>k, <2>1, <2>3, <3>2 DEF Ordered
  <2> QED
    BY <2>1, <2>2, <2>3
\* After an eviction there is room, so the packet in hand always goes in.
<1>8. CASE PollPush \/ PollRetry
  <2>1. UNCHANGED <<queue, received>> /\ hand # 0
    BY <1>8 DEF PollPush, PollRetry, radio, recv, TypeInv, PullTyped, Carrying
  <2>2. \/ Place
        \/ poller' = "evict" /\ UNCHANGED <<packets, hand, newest>>
    BY <1>8 DEF PollPush, PollRetry, Kept
  <2>3. CASE Place
    <3>1. Ordered' /\ hand \in Range(packets') /\ newest' = hand /\ poller' = "read"
      BY <2>1, <2>3, PlaceKeepsOrder DEF Place
    <3> QED
      BY <3>1 DEF Kept
  <2>4. CASE poller' = "evict" /\ UNCHANGED <<packets, hand, newest>>
    BY <1>o, <2>1, <2>4 DEF Kept
  <2> QED
    BY <2>2, <2>3, <2>4
<1>9. CASE PollEvict
  <2>1. UNCHANGED <<queue, received, newest, hand>> /\ poller' = "retry"
        /\ packets' = IF packets = <<>> THEN packets ELSE Tail(packets)
    BY <1>9 DEF PollEvict, radio, recv
  <2>2. packets \in Seq(Nat) /\ Len(packets) \in Nat /\ Len(packets) <= Capacity /\ Capacity \in Nat \ {0}
    BY BleAssumption DEF TypeInv, ChanTyped
  <2>3. CASE packets = <<>>
    <3>1. packets' = packets /\ Len(packets) = 0
      BY <2>1, <2>3, EmptySeq
    <3>2. Room'
      BY <2>2, <3>1 DEF Room
    <3> QED
      BY <1>o, <2>1, <3>1, <3>2 DEF Kept
  <2>4. CASE packets # <<>>
    <3>1. packets' = Tail(packets) /\ Len(Tail(packets)) = Len(packets) - 1
      BY <2>1, <2>2, <2>4, Leaves
    <3>2. Len(packets') < Capacity
      BY <2>2, <3>1
    <3>3. Increasing(packets') /\ Below(packets', newest) /\ Before(received, packets')
      BY <2>4, <3>1, ChannelStaysOrdered
    <3> QED
      BY <2>1, <3>2, <3>3 DEF Ordered, Kept, Room
  <2> QED
    BY <2>3, <2>4
<1>10. ASSUME NEW r \in Receivers, RecvCall(r) \/ Expire(r) PROVE Ordered' /\ Kept'
  BY <1>10, <1>o, <1>k DEF RecvCall, Expire, radio, pull, chan
<1>11. ASSUME NEW r \in Receivers, Recv(r) PROVE Ordered' /\ Kept'
  <2>1. UNCHANGED <<queue, newest, hand, poller>>
    BY <1>11 DEF Recv, radio, pull
  <2>2. \/ UNCHANGED <<packets, received>>
        \/ packets # <<>> /\ packets' = Tail(packets) /\ received' = Append(received, Head(packets))
    BY <1>11 DEF Recv
  <2>3. CASE UNCHANGED <<packets, received>>
    BY <1>o, <1>k, <2>1, <2>3
  <2>4. CASE packets # <<>> /\ packets' = Tail(packets) /\ received' = Append(received, Head(packets))
    <3>1. /\ Increasing(packets') /\ Below(packets', newest)
          /\ Increasing(received') /\ Below(received', newest) /\ Before(received', packets')
          /\ Range(received') \cup Range(packets') = Range(received) \cup Range(packets)
      BY <2>4, ChannelStaysOrdered
    <3>2. packets \in Seq(Nat) /\ Len(packets) \in Nat /\ Capacity \in Nat
      BY BleAssumption DEF TypeInv, ChanTyped
    <3>3. Len(packets') = Len(packets) - 1
      BY <2>4, <3>2, Leaves
    <3>4. Room => Room'
      BY <3>2, <3>3 DEF Room
    <3> QED
      BY <2>1, <3>1, <3>4 DEF Ordered, Kept
  <2> QED
    BY <2>2, <2>3, <2>4
<1> QED
  BY <1>1, <1>2, <1>3, <1>4, <1>5, <1>6, <1>7, <1>8, <1>9, <1>10, <1>11 DEF Next, Opening, Pulling

\* A full channel costs old packets and never the newest, and receivers see the packets in
\* the radio's order (pullPackets, ble_transport.go:175-186).
THEOREM TheNewestIsKept == Spec => []NewestKept
<1>1. TypeInv /\ Ordered /\ Kept => NewestKept
  BY ConcatOrdered DEF TypeInv, ChanTyped, Ordered, Kept, NewestKept
<1> QED
  BY InitType, NextType, InitOrdered, NextOrdered, <1>1, PTL DEF Spec
=============================================================================
