--------------------------- MODULE SerialTransport ---------------------------
(***************************************************************************)
(* The serial transport: receivers, senders and Close share one port and   *)
(* one mutex, and a receiver finds the radio's frames in a byte stream     *)
(* that may carry noise, pause inside a frame or be abandoned half read.   *)
(*                                                                         *)
(* Bytes are bytes: a frame is START1, START2, its length in two bytes and *)
(* its payload, and the noise before it is any string of bytes.            *)
(***************************************************************************)
EXTENDS Integers, Sequences, FiniteSets, Functions
LOCAL INSTANCE FiniteSetsExt   \* Max

CONSTANTS
    Receivers, Senders,    \* goroutines that call ReceiveFromRadio, SendToRadio
    Scripts,               \* sequences of payloads the radio may have to send
    MaxPdu,                \* the longest payload (512)
    Noise,                 \* what the radio's console may print before a frame
    FaultBudget, MaxSends  \* bounds: pauses and deadlines; sends

START1 == 148   \* 0x94
START2 == 195   \* 0xc3
Actors == Receivers \cup Senders
Nobody == "nobody"

ASSUME SerialAssumption ==
    /\ Receivers \cap Senders = {} /\ Nobody \notin Actors
    /\ MaxPdu \in Nat /\ MaxPdu < 256 * 256
    /\ \A s \in Scripts :
          /\ s \in Seq(Seq(0 .. 255)) /\ \A k \in DOMAIN s : Len(s[k]) <= MaxPdu
          /\ \A j, k \in DOMAIN s : s[j] = s[k] => j = k
    /\ Noise \subseteq Seq(0 .. 255)
    /\ {FaultBudget, MaxSends} \subseteq Nat

VARIABLES
    frames,     \* the payloads the radio sends, in order
    wire,       \* bytes the operating system holds for the port
    air,        \* the rest of a frame the radio paused in
    sent,       \* frames the radio has started
    faults,     \* pauses and deadlines left
    port,       \* "open", "gone" (unplugged), or "closed" (st.port is nil)
    mutex,      \* holder of st.mu, or Nobody
    cancelled,  \* the command's context
    expired,    \* calls whose own deadline has passed
    pc,         \* per actor: idle, want (the mutex), read, header, body
    parse,      \* per receiver: [at, left, data, frame], readFrame's progress
    sends,      \* calls of SendToRadio left
    delivered,  \* history: payloads returned, in the order they were read
    hurt,       \* history: frames a timeout, deadline or error cut short
    masked,     \* history: frames behind noise that ends with a START1
    forged,     \* history: some noise held a START1 and a START2, as a frame does
    passed,     \* history: the last frame of which every byte was consumed
    panicked,   \* a method was called on the nil port
    orderly     \* history: the context was cancelled before Close

line  == <<frames, wire, air, sent, faults, masked, forged>>
calls == <<mutex, expired, pc, parse, sends>>
hist  == <<delivered, hurt, passed>>
ends  == <<port, cancelled, panicked, orderly>>
vars  == <<line, calls, hist, ends>>

Fresh == [at |-> "first", left |-> 0, data |-> <<>>, frame |-> 0]

Encode(k) == LET n == Len(frames[k])
             IN  <<START1, START2, n \div 256, n % 256>> \o frames[k]

\* A byte on the wire remembers its frame and its place there, counted from the
\* frame's first byte: noise before the frame is at place 0 and below.
Byte(b, k, i) == [b |-> b, frame |-> k, place |-> i]
Burst(k, noise) == LET bytes == noise \o Encode(k)
                   IN  [i \in DOMAIN bytes |-> Byte(bytes[i], k, i - Len(noise))]
Ends(x) == x.place = Len(frames[x.frame]) + 4

\* The noise hides the frame's START1, or looks like the start of a frame itself.
Masks(noise)  == noise # <<>> /\ noise[Len(noise)] = START1
Forges(noise) == \E i \in 1 .. Len(noise) - 1 : noise[i] = START1 /\ noise[i + 1] = START2

Init ==
    /\ frames \in Scripts /\ wire = <<>> /\ air = <<>> /\ sent = 0
    /\ faults = FaultBudget /\ masked = {} /\ forged = FALSE
    /\ port = "open" /\ mutex = Nobody /\ cancelled = FALSE /\ expired = {}
    /\ pc = [a \in Actors |-> "idle"] /\ parse = [r \in Receivers |-> Fresh]
    /\ sends = MaxSends /\ delivered = <<>> /\ hurt = {} /\ passed = 0
    /\ panicked = FALSE /\ orderly = FALSE

-----------------------------------------------------------------------------
(* The radio.                                                              *)

Fault == faults > 0 /\ faults' = faults - 1

\* A frame, with the noise before it, arrives whole or in two parts with a pause
\* of more than 250 ms between.
Transmit ==
    /\ port = "open" /\ air = <<>> /\ sent < Len(frames)
    /\ sent' = sent + 1
    /\ \E noise \in Noise :
         /\ masked' = IF Masks(noise) THEN masked \cup {sent + 1} ELSE masked
         /\ forged' = (forged \/ Forges(noise))
         /\ LET f == Burst(sent + 1, noise) IN
              \/ wire' = wire \o f /\ UNCHANGED <<air, faults>>
              \/ /\ Fault
                 /\ \E i \in 1 .. Len(f) - 1 : /\ wire' = wire \o SubSeq(f, 1, i)
                                               /\ air' = SubSeq(f, i + 1, Len(f))

Resume == /\ port = "open" /\ air # <<>>
          /\ wire' = wire \o air /\ air' = <<>>
          /\ UNCHANGED <<sent, faults, masked, forged>>

Radio == /\ Transmit \/ Resume
         /\ UNCHANGED <<frames, calls, hist, ends>>

Unplug == /\ port = "open" /\ port' = "gone"
          /\ UNCHANGED <<line, calls, hist, cancelled, panicked, orderly>>

-----------------------------------------------------------------------------
(* Contexts and calls.                                                     *)

Done(a) == cancelled \/ a \in expired

Cancel == /\ ~cancelled /\ cancelled' = TRUE
          /\ UNCHANGED <<line, calls, hist, port, panicked, orderly>>

Expire(a) == /\ pc[a] # "idle" /\ a \notin expired /\ Fault
             /\ expired' = expired \cup {a}
             /\ UNCHANGED <<frames, wire, air, sent, masked, forged, mutex, pc, parse, sends, hist, ends>>

\* Variants named Bug_... are what a plausible mistake would make of the
\* definition that follows them; no action of the specification uses them.
Bug_ReturnLocked(a) == /\ pc' = [pc EXCEPT ![a] = "idle"]
                       /\ expired' = expired \ {a} /\ UNCHANGED mutex

\* A call returns and gives the mutex back if it holds it.
Return(a) == /\ pc' = [pc EXCEPT ![a] = "idle"]
             /\ expired' = expired \ {a}
             /\ mutex' = IF mutex = a THEN Nobody ELSE mutex

Bug_NoRecheck(a) == FALSE
\* The context is looked at again once the mutex is held.
Recheck(a) == Done(a)

\* A nil port: the method call panics and the process is gone.
Panic == /\ panicked' = TRUE
         /\ UNCHANGED <<line, calls, hist, port, cancelled, orderly>>

Free == mutex = Nobody

-----------------------------------------------------------------------------
(* ReceiveFromRadio.                                                       *)

Abandon(r) == /\ parse' = [parse EXCEPT ![r] = Fresh]
              /\ hurt' = IF parse[r].at = "first" THEN hurt ELSE hurt \cup {parse[r].frame}

RecvCall(r) ==
    /\ pc[r] = "idle" /\ ~cancelled
    /\ pc' = [pc EXCEPT ![r] = "want"]
    /\ UNCHANGED <<line, mutex, expired, parse, sends, hist, ends>>

RecvLock(r) ==
    /\ pc[r] = "want" /\ Free
    /\ pc' = [pc EXCEPT ![r] = "read"] /\ mutex' = r
    /\ UNCHANGED <<line, expired, parse, sends, hist, ends>>

Deliver(r, data) == /\ delivered' = Append(delivered, data)
                    /\ parse' = [parse EXCEPT ![r] = Fresh] /\ Return(r)
Goes(r, p) == parse' = [parse EXCEPT ![r] = p] /\ UNCHANGED <<mutex, expired, pc, delivered>>

Bug_MaxExcluded(n) == n < MaxPdu
Fits(n) == n <= MaxPdu

\* readFrame on the next byte: any mismatch starts over with the byte after, so a
\* START1 read where START2 is expected is not taken for a start itself.
ReadByte(r) ==
    /\ pc[r] = "read" /\ ~Recheck(r) /\ port = "open" /\ wire # <<>>
    /\ wire' = Tail(wire)
    /\ LET p == parse[r]
           x == Head(wire)
           n == 256 * p.left + x.b   \* the length, once its second byte is here
           more == [p EXCEPT !.data = Append(@, x.b), !.left = @ - 1]
       IN
         /\ passed' = IF Ends(x) THEN x.frame ELSE passed
         /\ \/ p.at = "first" /\ x.b = START1
               /\ Goes(r, [p EXCEPT !.at = "second", !.frame = x.frame])
            \/ p.at = "second" /\ x.b = START2 /\ Goes(r, [p EXCEPT !.at = "high"])
            \/ p.at = "high" /\ Goes(r, [p EXCEPT !.at = "low", !.left = x.b])
            \/ p.at = "low" /\ Fits(n) /\ n > 0
               /\ Goes(r, [p EXCEPT !.at = "data", !.left = n])
            \/ p.at = "low" /\ n = 0 /\ Deliver(r, <<>>)
            \/ p.at = "data" /\ p.left > 1 /\ Goes(r, more)
            \/ p.at = "data" /\ p.left = 1 /\ Deliver(r, more.data)
            \/ /\ \/ p.at = "first" /\ x.b # START1
                  \/ p.at = "second" /\ x.b # START2
                  \/ p.at = "low" /\ ~Fits(n)
               /\ Goes(r, Fresh)
    /\ UNCHANGED <<frames, air, sent, faults, masked, forged, sends, hurt, ends>>

Bug_HoldsMutex(r) ==
    /\ pc[r] = "read" /\ ~Recheck(r) /\ port = "open" /\ wire = <<>>
    /\ Abandon(r)
    /\ UNCHANGED <<line, mutex, expired, pc, sends, delivered, passed, ends>>

\* 250 ms without a byte: the frame is abandoned and the loop starts over,
\* with the context's error if that is done.
ReadTimeout(r) ==
    /\ pc[r] = "read" /\ ~Recheck(r) /\ port = "open" /\ wire = <<>>
    /\ Abandon(r)
    /\ mutex' = Nobody /\ pc' = [pc EXCEPT ![r] = "want"]
    /\ UNCHANGED <<line, expired, sends, delivered, passed, ends>>

\* The context's error, or the port's.
ReadFails(r) ==
    /\ pc[r] = "read"
    /\ Recheck(r) \/ port = "gone"
    /\ Abandon(r) /\ Return(r)
    /\ UNCHANGED <<line, sends, delivered, passed, ends>>

ReadNil(r) == pc[r] = "read" /\ ~Recheck(r) /\ port = "closed" /\ Panic

-----------------------------------------------------------------------------
(* SendToRadio and Close.                                                  *)

SendCall(s) ==
    /\ pc[s] = "idle" /\ ~cancelled /\ sends > 0
    /\ sends' = sends - 1
    /\ pc' = [pc EXCEPT ![s] = "want"]
    /\ UNCHANGED <<line, mutex, expired, parse, hist, ends>>

SendLock(s) ==
    /\ pc[s] = "want" /\ Free
    /\ \/ Recheck(s) /\ Return(s)
       \/ /\ ~Recheck(s)
          /\ pc' = [pc EXCEPT ![s] = "header"] /\ mutex' = s /\ UNCHANGED expired
    /\ UNCHANGED <<line, parse, sends, hist, ends>>

\* Two writes under one mutex; an error of either ends the call.
Write(s) ==
    /\ pc[s] \in {"header", "body"}
    /\ \/ /\ port = "open"
          /\ IF pc[s] = "header" THEN /\ pc' = [pc EXCEPT ![s] = "body"]
                                      /\ UNCHANGED <<mutex, expired>>
                                 ELSE Return(s)
       \/ port = "gone" /\ Return(s)
    /\ UNCHANGED <<line, parse, sends, hist, ends>>

WriteNil(s) == pc[s] \in {"header", "body"} /\ port = "closed" /\ Panic

Close ==
    /\ Free /\ port # "closed"
    /\ port' = "closed" /\ orderly' = cancelled
    /\ UNCHANGED <<line, calls, hist, cancelled, panicked>>

Read(r) == ReadByte(r) \/ ReadTimeout(r) \/ ReadFails(r) \/ ReadNil(r)
Next == /\ ~panicked
        /\ \/ Radio \/ Unplug \/ Cancel \/ Close
           \/ \E a \in Actors : Expire(a)
           \/ \E r \in Receivers : RecvCall(r) \/ RecvLock(r) \/ Read(r)
           \/ \E s \in Senders : SendCall(s) \/ SendLock(s) \/ Write(s) \/ WriteNil(s)

Spec == Init /\ [][Next]_vars

\* A goroutine that can run runs; sync.Mutex hands itself to a goroutine that
\* has waited a millisecond, so no one waits for ever while it is released again
\* and again; readers call again; a radio that paused goes on.
Live(A) == ~panicked /\ A
Fairness ==
    /\ WF_vars(Live(Resume /\ Radio))
    /\ \A r \in Receivers : /\ WF_vars(Live(RecvCall(r))) /\ SF_vars(Live(RecvLock(r)))
                            /\ WF_vars(Live(Read(r)))
    /\ \A s \in Senders : SF_vars(Live(SendLock(s))) /\ WF_vars(Live(Write(s) \/ WriteNil(s)))
FairSpec == Spec /\ Fairness

-----------------------------------------------------------------------------
(* Properties.                                                             *)

TypeOK ==
    /\ sent \in 0 .. Len(frames) /\ passed \in 0 .. sent /\ hurt \subseteq 0 .. sent
    /\ port \in {"open", "gone", "closed"} /\ mutex \in Actors \cup {Nobody}
    /\ expired \subseteq {a \in Actors : pc[a] # "idle"}
    /\ \A a \in Actors : pc[a] \in {"read", "header", "body"} <=> mutex = a
    /\ masked \subseteq 1 .. sent /\ forged \in BOOLEAN
    /\ \A r \in Receivers : parse[r].at = "data" => parse[r].left \in 1 .. MaxPdu

\* Frames a receiver may miss: cut short, or behind noise that ends like a start.
Missed == hurt \cup masked

\* Nothing but a frame's start looks like one: no noise spells a header, and no
\* frame that is missed has a START1 after its first byte.
Clean == ~forged /\ \A k \in Missed : START1 \notin Range(Tail(Encode(k)))

Index(data) == CHOOSE k \in DOMAIN frames : frames[k] = data

InOrder ==
    /\ Range(delivered) \subseteq Range(frames)
    /\ \A i, j \in DOMAIN delivered :
          i < j => Index(delivered[i]) < Index(delivered[j])
NothingElseLost == \A k \in 1 .. passed : frames[k] \in Range(delivered) \/ k \in Missed

\* Receivers get what the radio sent, each frame once and in order, wherever a read
\* was abandoned, and only two kinds of frame are lost: one a pause or a deadline cut
\* short, and one right behind a noise byte 0x94, which makes the reader take the
\* frame's own 0x94 for a bad second byte.  With the next frame the reader is in step
\* again (readFrame, serial.go:68-105).  It says nothing once the noise spells 0x94
\* 0xc3, or a missed frame has a 0x94 in its length or payload.
InStep == Clean => InOrder /\ NothingElseLost

\* Closing after the context was cancelled, as the agent does on a signal
\* (agent.go:125-127), never lets a call that was waiting use the nil port.
NoUseAfterClose == orderly => ~panicked

\* A send ends: readers that wait for frames let the mutex go every 250 ms.
SendsEnd == \A s \in Senders : pc[s] # "idle" ~> pc[s] = "idle" \/ panicked

\* A frame reaches a receiver while the port is open and the command runs.
MaxFrames == Max({Len(s) : s \in Scripts})
Over == port # "open" \/ cancelled \/ panicked \/ ~Clean
FramesArrive ==
    \A k \in 1 .. MaxFrames :
        sent >= k ~> k \in Missed \/ (k <= sent /\ frames[k] \in Range(delivered)) \/ Over

\* Nobody starves on the one mutex (serial.go:44-46, 68-122).
Served == SendsEnd /\ FramesArrive
=============================================================================
