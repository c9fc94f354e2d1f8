----------------------- MODULE SerialTransport_proofs -----------------------
(* Mutual exclusion on the serial port, the nil port after Close, and readers *)
(* that stay in step with the radio's frames: for any number of receivers and *)
(* senders, any frames, any noise and any faults.                             *)
EXTENDS SerialTransport, SequenceTheorems, TLAPS

Inside(a) == pc[a] \in {"read", "header", "body"}
Writing(a) == pc[a] \in {"header", "body"}

\* Whoever reads or writes the port holds the mutex.
Exclusive == /\ pc \in [Actors -> {"idle", "want", "read", "header", "body"}]
             /\ \A a \in Actors : Inside(a) => mutex = a

\* Once a cancelled command has closed the port, no send is past its check.
ClosedInv == /\ orderly => cancelled /\ port = "closed"
             /\ orderly => \A a \in Actors : ~Writing(a)
             /\ orderly => ~panicked

PortInv == Exclusive /\ ClosedInv

LEMMA InitPort == Init => PortInv
  BY SerialAssumption DEF Init, PortInv, Exclusive, ClosedInv, Inside, Writing

\* A step of one call keeps the port to one call at a time.
LEMMA NextExclusive == Exclusive /\ [Next]_vars => Exclusive'
<1> SUFFICES ASSUME Exclusive, [Next]_vars PROVE Exclusive'
  OBVIOUS
<1> USE SerialAssumption DEF Exclusive, Inside, Actors, Free, Return, Nobody
<1>1. CASE UNCHANGED vars
  BY <1>1 DEF vars, calls
<1>2. CASE Radio \/ Unplug \/ Cancel \/ Close
  BY <1>2 DEF Radio, Unplug, Cancel, Close, calls
<1>3. ASSUME NEW a \in Actors, Expire(a) PROVE Exclusive'
  BY <1>3 DEF Expire
<1>4. ASSUME NEW r \in Receivers, RecvCall(r) \/ RecvLock(r) PROVE Exclusive'
  BY <1>4 DEF RecvCall, RecvLock
<1>5. ASSUME NEW r \in Receivers, ReadByte(r) PROVE Exclusive'
  <2>1. \/ UNCHANGED <<mutex, pc>>
        \/ Return(r)
    BY <1>5, Zenon DEF ReadByte, Goes, Deliver
  <2> QED
    BY <2>1
<1>6. ASSUME NEW r \in Receivers, ReadTimeout(r) \/ ReadFails(r) \/ ReadNil(r) PROVE Exclusive'
  BY <1>6 DEF ReadTimeout, ReadFails, ReadNil, Panic, calls
<1>7. ASSUME NEW s \in Senders, SendCall(s) \/ SendLock(s) PROVE Exclusive'
  BY <1>7 DEF SendCall, SendLock
<1>8. ASSUME NEW s \in Senders, Write(s) \/ WriteNil(s) PROVE Exclusive'
  BY <1>8 DEF Write, WriteNil, Panic, calls
<1> QED
  BY <1>1, <1>2, <1>3, <1>4, <1>5, <1>6, <1>7, <1>8 DEF Next, Read

\* After an orderly Close the calls that were waiting see the cancelled context
\* when they get the mutex, and Close itself waited for the mutex.
LEMMA NextClosed == Exclusive /\ ClosedInv /\ [Next]_vars => ClosedInv'
<1> SUFFICES ASSUME Exclusive, ClosedInv, [Next]_vars PROVE ClosedInv'
  OBVIOUS
<1> USE SerialAssumption DEF Exclusive, ClosedInv, Inside, Writing, Actors, Recheck, Done
<1>1. CASE UNCHANGED vars
  BY <1>1 DEF vars, calls, ends
<1>2. CASE Radio \/ Unplug \/ Cancel
  BY <1>2 DEF Radio, Unplug, Cancel, calls, ends
<1>3. CASE Close
  <2>1. ~panicked
    BY <1>3 DEF Close, Next, vars, ends
  <2> QED
    BY <2>1, <1>3 DEF Close, Free, calls, Nobody
<1>4. ASSUME NEW a \in Actors, Expire(a) PROVE ClosedInv'
  BY <1>4 DEF Expire, ends
<1>5. ASSUME NEW r \in Receivers, RecvCall(r) \/ RecvLock(r) PROVE ClosedInv'
  BY <1>5 DEF RecvCall, RecvLock, ends
<1>6. ASSUME NEW r \in Receivers, ReadByte(r) \/ ReadTimeout(r) \/ ReadFails(r) PROVE ClosedInv'
  BY <1>6 DEF ReadByte, ReadTimeout, ReadFails, Goes, Deliver, Return, ends
<1>7. ASSUME NEW r \in Receivers, ReadNil(r) PROVE ClosedInv'
  BY <1>7 DEF ReadNil, Panic, calls
<1>8. ASSUME NEW s \in Senders, SendCall(s) \/ SendLock(s) PROVE ClosedInv'
  BY <1>8 DEF SendCall, SendLock, Return, ends
<1>9. ASSUME NEW s \in Senders, Write(s) \/ WriteNil(s) PROVE ClosedInv'
  BY <1>9 DEF Write, WriteNil, Panic, Return, calls, ends
<1> QED
  BY <1>1, <1>2, <1>3, <1>4, <1>5, <1>6, <1>7, <1>8, <1>9 DEF Next, Read

\* Whoever is between two operations on the port holds its mutex, so no two
\* calls are (serialTransport.mu, serial.go:44-46, 140-141, 154-155).
THEOREM OneCallAtATime ==
    Spec => [](\A a, b \in Actors : Inside(a) /\ Inside(b) => a = b)
<1>1. Init => Exclusive
  BY InitPort DEF PortInv
<1>2. Exclusive => \A a, b \in Actors : Inside(a) /\ Inside(b) => a = b
  BY DEF Exclusive
<1> QED
  BY <1>1, NextExclusive, <1>2, PTL DEF Spec

\* A Close after the context was cancelled leaves no call that could use the
\* nil port (Close and the second context checks, serial.go:72, 109, 143, 153-162).
THEOREM OrderlyCloseIsSafe == Spec => []NoUseAfterClose
<1>1. PortInv /\ [Next]_vars => PortInv'
  BY NextExclusive, NextClosed DEF PortInv
<1>2. PortInv => NoUseAfterClose
  BY DEF PortInv, ClosedInv, NoUseAfterClose
<1> QED
  BY InitPort, <1>1, <1>2, PTL DEF Spec

-----------------------------------------------------------------------------
(* The stream of bytes.                                                    *)

\* What the radio has started and no reader has taken, the part it paused before included.
Rest    == wire \o air
Long(k) == Len(frames[k]) + 4
ByteSet == [b : 0 .. 255, frame : Nat, place : Int]

\* A byte is noise, the last of it START1 only where the frame counts as masked, or a
\* byte of its frame.
Coded(x) == /\ x.frame \in 1 .. sent /\ x.place \in Int /\ x.place <= Long(x.frame)
            /\ x.place > 0 => x.b = Encode(x.frame)[x.place]
            /\ x.place = 0 /\ x.b = START1 => x.frame \in masked
Follows(x, y) == /\ IF x.place < Long(x.frame)
                    THEN y.frame = x.frame /\ y.place = x.place + 1
                    ELSE y.frame = x.frame + 1 /\ y.place <= 1
                 /\ x.place < 0 /\ x.b = START1 /\ y.b = START2 => forged

LineTyped == /\ wire \in Seq(ByteSet) /\ air \in Seq(ByteSet)
             /\ frames \in Scripts /\ sent \in 0 .. Len(frames) /\ passed \in Nat
             /\ masked \subseteq 1 .. sent /\ forged \in BOOLEAN

\* The stream is the end of the radio's frames, from the frame after the last passed one.
StreamInv ==
    /\ LineTyped
    /\ \A i \in 1 .. Len(Rest) : Coded(Rest[i])
    /\ \A i \in 1 .. Len(Rest) - 1 : Follows(Rest[i], Rest[i + 1])
    /\ Rest = <<>> => passed = sent
    /\ Rest # <<>> => /\ Rest[1].frame = passed + 1
                      /\ Rest[Len(Rest)].frame = sent /\ Ends(Rest[Len(Rest)])

\* The two bytes of a length, and the length from its bytes.
LEMMA LengthBytes ==
  \A n \in 0 .. MaxPdu : /\ n \div 256 \in 0 .. 255 /\ n % 256 \in 0 .. 255
                         /\ 256 * (n \div 256) + (n % 256) = n
<1>1. MaxPdu \in Nat /\ MaxPdu \div 256 \in 0 .. 255
  BY SerialAssumption
<1> QED
  BY <1>1

LEMMA FramesTyped ==
  ASSUME frames \in Scripts
  PROVE  /\ frames \in Seq(Seq(0 .. 255)) /\ Len(frames) \in Nat /\ DOMAIN frames = 1 .. Len(frames)
         /\ \A k \in 1 .. Len(frames) :
              /\ frames[k] \in Seq(0 .. 255) /\ Len(frames[k]) \in 0 .. MaxPdu /\ Long(k) \in Nat
              /\ DOMAIN frames[k] = 1 .. Len(frames[k])
         /\ \A j, k \in 1 .. Len(frames) : frames[j] = frames[k] => j = k
<1>0. /\ MaxPdu \in Nat
      /\ frames \in Seq(Seq(0 .. 255))
      /\ \A k \in DOMAIN frames : Len(frames[k]) <= MaxPdu
      /\ \A j, k \in DOMAIN frames : frames[j] = frames[k] => j = k
  BY SerialAssumption
<1>1. Len(frames) \in Nat /\ DOMAIN frames = 1 .. Len(frames)
  BY <1>0
<1>2. ASSUME NEW k \in 1 .. Len(frames)
      PROVE  /\ frames[k] \in Seq(0 .. 255) /\ Len(frames[k]) \in 0 .. MaxPdu /\ Long(k) \in Nat
             /\ DOMAIN frames[k] = 1 .. Len(frames[k])
  <2>1. frames[k] \in Seq(0 .. 255)
    BY <1>0, ElementOfSeq
  <2>2. Len(frames[k]) \in Nat /\ DOMAIN frames[k] = 1 .. Len(frames[k])
    BY <2>1
  <2>3. Len(frames[k]) <= MaxPdu
    BY <1>0, <1>1
  <2> QED
    BY <1>0, <2>1, <2>2, <2>3 DEF Long
<1> QED
  BY <1>0, <1>1, <1>2

LEMMA EncodeShape ==
  ASSUME frames \in Scripts, NEW k \in 1 .. Len(frames)
  PROVE  /\ Encode(k) \in Seq(0 .. 255) /\ Len(Encode(k)) = Long(k)
         /\ Encode(k)[1] = START1 /\ Encode(k)[2] = START2
         /\ Encode(k)[3] \in 0 .. 255 /\ Encode(k)[4] \in 0 .. 255
         /\ 256 * Encode(k)[3] + Encode(k)[4] = Len(frames[k])
         /\ \A i \in 1 .. Len(frames[k]) : Encode(k)[i + 4] = frames[k][i]
<1> DEFINE n == Len(frames[k])
<1>1. frames[k] \in Seq(0 .. 255) /\ n \in 0 .. MaxPdu /\ n \in Nat /\ Long(k) = n + 4
  BY FramesTyped DEF Long
<1>hi. PICK hi : hi = n \div 256
  OBVIOUS
<1>lo. PICK lo : lo = n % 256
  OBVIOUS
<1>2. hi \in 0 .. 255 /\ lo \in 0 .. 255 /\ 256 * hi + lo = n
  <2>1. n \div 256 \in 0 .. 255 /\ n % 256 \in 0 .. 255 /\ 256 * (n \div 256) + (n % 256) = n
    BY <1>1, LengthBytes
  <2> QED
    BY <1>hi, <1>lo, <2>1, Zenon
<1> DEFINE head == <<START1, START2, hi, lo>>
<1>3. /\ head \in Seq(0 .. 255) /\ Len(head) = 4
      /\ head[1] = START1 /\ head[2] = START2 /\ head[3] = hi /\ head[4] = lo
  BY <1>2 DEF START1, START2
<1>4. Encode(k) = head \o frames[k]
  BY <1>hi, <1>lo DEF Encode
<1> HIDE DEF head
<1>5. /\ head \o frames[k] \in Seq(0 .. 255)
      /\ Len(head \o frames[k]) = Len(head) + Len(frames[k])
      /\ \A i \in 1 .. Len(head) + Len(frames[k]) :
            (head \o frames[k])[i] = IF i <= Len(head) THEN head[i] ELSE frames[k][i - Len(head)]
  BY <1>1, <1>3, ConcatProperties, ZenonT(30)
<1>6. \A i \in 1 .. 4 : Encode(k)[i] = head[i]
  BY <1>1, <1>3, <1>4, <1>5
<1>7. \A i \in 1 .. n : Encode(k)[i + 4] = frames[k][i]
  BY <1>1, <1>3, <1>4, <1>5
<1>8. Encode(k) \in Seq(0 .. 255) /\ Len(Encode(k)) = Long(k)
  BY <1>1, <1>3, <1>4, <1>5
<1>9. /\ Encode(k)[1] = START1 /\ Encode(k)[2] = START2
      /\ Encode(k)[3] = hi /\ Encode(k)[4] = lo
  BY <1>3, <1>6
<1> QED
  BY <1>2, <1>7, <1>8, <1>9

\* A frame on its way, behind its noise.
IsBurst(f, k) ==
    /\ f \in Seq(ByteSet) /\ Len(f) \in Nat /\ f[1].place \in Int /\ f[1].place <= 1
    /\ Len(f) = Long(k) + 1 - f[1].place
    /\ \A i \in 1 .. Len(f) : /\ f[i].frame = k /\ f[i].place = f[1].place + i - 1
                              /\ f[i].place > 0 => f[i].b = Encode(k)[f[i].place]
                              /\ f[i].place = 0 /\ f[i].b = START1 => k \in masked'
    /\ \A i \in 1 .. Len(f) - 1 :
          f[i].place < 0 /\ f[i].b = START1 /\ f[i + 1].b = START2 => forged'

LEMMA Bursts ==
  ASSUME frames \in Scripts, NEW k \in 1 .. Len(frames), NEW noise \in Noise,
         Masks(noise) => k \in masked', Forges(noise) => forged'
  PROVE  IsBurst(Burst(k, noise), k)
<1> DEFINE f == Burst(k, noise)
<1>e. PICK e : e = Encode(k)
  OBVIOUS
<1>m. PICK m : m = Len(noise)
  OBVIOUS
<1>b. PICK bytes : bytes = noise \o e
  OBVIOUS
<1>1. /\ e \in Seq(0 .. 255) /\ Len(e) = Long(k)
      /\ Long(k) \in Nat /\ Long(k) >= 4 /\ k \in Nat
  BY <1>e, EncodeShape, FramesTyped DEF Long
<1>2. noise \in Seq(0 .. 255) /\ m \in Nat
  BY <1>m, SerialAssumption
<1>3. /\ bytes \in Seq(0 .. 255) /\ Len(bytes) = m + Long(k)
      /\ \A i \in 1 .. m + Long(k) : bytes[i] = IF i <= m THEN noise[i] ELSE e[i - m]
  <2>1. /\ noise \o e \in Seq(0 .. 255) /\ Len(noise \o e) = Len(noise) + Len(e)
        /\ \A i \in 1 .. Len(noise) + Len(e) :
              (noise \o e)[i] = IF i <= Len(noise) THEN noise[i] ELSE e[i - Len(noise)]
    BY <1>1, <1>2, ConcatProperties, ZenonT(30)
  <2> QED
    BY <1>1, <1>m, <1>b, <2>1, Zenon
<1>4. f = [i \in 1 .. m + Long(k) |-> Byte(bytes[i], k, i - m)]
  <2>1. DOMAIN bytes = 1 .. m + Long(k)
    BY <1>3
  <2> QED
    BY <1>e, <1>m, <1>b, <2>1 DEF Burst
<1> HIDE DEF f
<1>5. \A i \in 1 .. m + Long(k) : bytes[i] \in 0 .. 255
  BY <1>3, ElementOfSeq
<1>6. ASSUME NEW i \in 1 .. m + Long(k)
      PROVE  /\ f[i] \in ByteSet /\ f[i].b = bytes[i] /\ f[i].frame = k /\ f[i].place = i - m
  <2>1. f[i] = Byte(bytes[i], k, i - m) /\ i - m \in Int /\ bytes[i] \in 0 .. 255
    BY <1>1, <1>2, <1>4, <1>5
  <2> QED
    BY <1>1, <2>1 DEF Byte, ByteSet
<1>7. f \in Seq(ByteSet) /\ Len(f) = m + Long(k)
  <2>1. m + Long(k) \in Nat
    BY <1>1, <1>2
  <2>2. f \in [1 .. m + Long(k) -> ByteSet]
    BY <1>4, <1>6
  <2> QED
    BY <2>1, <2>2
<1>8. f[1].place = 1 - m /\ 1 \in 1 .. m + Long(k)
  BY <1>1, <1>2, <1>6
<1>9. ASSUME NEW i \in 1 .. m + Long(k), f[i].place > 0 PROVE f[i].b = Encode(k)[f[i].place]
  <2>1. i > m
    BY <1>2, <1>6, <1>9
  <2> QED
    BY <1>2, <1>e, <1>3, <1>6, <2>1
<1>10. ASSUME NEW i \in 1 .. m + Long(k), f[i].place = 0, f[i].b = START1 PROVE k \in masked'
  <2>1. i = m /\ noise[m] = START1 /\ m > 0
    BY <1>2, <1>3, <1>6, <1>10
  <2> QED
    BY <1>2, <1>m, <2>1 DEF Masks
<1>11. ASSUME NEW i \in 1 .. (m + Long(k)) - 1, f[i].place < 0, f[i].b = START1, f[i + 1].b = START2
       PROVE  forged'
  <2>1. i \in 1 .. m + Long(k) /\ i + 1 \in 1 .. m + Long(k)
    BY <1>1, <1>2
  <2>2. i < m
    BY <1>2, <1>6, <1>11, <2>1
  <2>3. i \in 1 .. m - 1 /\ noise[i] = START1 /\ noise[i + 1] = START2
    BY <1>2, <1>3, <1>6, <1>11, <2>1, <2>2
  <2> QED
    BY <1>m, <2>3 DEF Forges
<1>12. IsBurst(f, k)
  <2>1. /\ Len(f) \in Nat /\ f[1].place \in Int /\ f[1].place <= 1
        /\ Len(f) = Long(k) + 1 - f[1].place
    BY <1>1, <1>2, <1>7, <1>8
  <2>2. \A i \in 1 .. Len(f) : f[i].frame = k /\ f[i].place = f[1].place + i - 1
    BY <1>1, <1>2, <1>6, <1>7, <1>8
  <2>3. \A i \in 1 .. Len(f) : /\ f[i].place > 0 => f[i].b = Encode(k)[f[i].place]
                               /\ f[i].place = 0 /\ f[i].b = START1 => k \in masked'
    BY <1>7, <1>9, <1>10
  <2>4. \A i \in 1 .. Len(f) - 1 :
           f[i].place < 0 /\ f[i].b = START1 /\ f[i + 1].b = START2 => forged'
    BY <1>7, <1>11
  <2> QED
    BY <1>7, <2>1, <2>2, <2>3, <2>4 DEF IsBurst
<1> QED
  BY <1>12 DEF f

LEMMA RestTyped ==
  ASSUME LineTyped
  PROVE  /\ Rest \in Seq(ByteSet) /\ Len(Rest) \in Nat
         /\ Rest = <<>> <=> Len(Rest) = 0
         /\ wire = <<>> /\ air = <<>> => Rest = <<>>
BY ConcatProperties, EmptySeq DEF LineTyped, Rest

\* What Transmit appends, in one part or two.
LEMMA RestGrows ==
  ASSUME LineTyped, Transmit
  PROVE  /\ wire' \in Seq(ByteSet) /\ air' \in Seq(ByteSet)
         /\ \E f : IsBurst(f, sent + 1) /\ Rest' = Rest \o f
<1>1. PICK noise \in Noise :
         /\ Masks(noise) => sent + 1 \in masked'
         /\ Forges(noise) => forged'
         /\ LET f == Burst(sent + 1, noise) IN
              \/ wire' = wire \o f /\ air' = air
              \/ \E i \in 1 .. Len(f) - 1 : wire' = wire \o SubSeq(f, 1, i) /\ air' = SubSeq(f, i + 1, Len(f))
  BY DEF Transmit
<1> DEFINE f == Burst(sent + 1, noise)
<1>2. IsBurst(f, sent + 1)
  <2>1. sent + 1 \in 1 .. Len(frames)
    BY FramesTyped DEF Transmit, LineTyped
  <2> QED
    BY <1>1, <2>1, Bursts DEF LineTyped
<1>3. air = <<>> /\ Rest = wire /\ wire \in Seq(ByteSet) /\ <<>> \in Seq(ByteSet)
  BY ConcatEmptySeq DEF Transmit, LineTyped, Rest
<1>4. \/ wire' = wire \o f /\ air' = air
      \/ \E i \in 1 .. Len(f) - 1 : wire' = wire \o SubSeq(f, 1, i) /\ air' = SubSeq(f, i + 1, Len(f))
  BY <1>1
<1> HIDE DEF f
<1>5. f \in Seq(ByteSet) /\ Len(f) \in Nat
  BY <1>2 DEF IsBurst
<1>6. CASE wire' = wire \o f /\ air' = air
  <2>1. wire \o f \in Seq(ByteSet) /\ (wire \o f) \o <<>> = wire \o f
    BY <1>3, <1>5, ConcatProperties, ConcatEmptySeq
  <2> QED
    BY <1>2, <1>3, <1>6, <2>1 DEF Rest
<1>7. ASSUME NEW i \in 1 .. Len(f) - 1, wire' = wire \o SubSeq(f, 1, i), air' = SubSeq(f, i + 1, Len(f))
      PROVE  /\ wire' \in Seq(ByteSet) /\ air' \in Seq(ByteSet) /\ Rest' = Rest \o f
  <2>1. SubSeq(f, 1, i) \in Seq(ByteSet) /\ SubSeq(f, i + 1, Len(f)) \in Seq(ByteSet)
    BY <1>5, SubSeqProperties, ElementOfSeq
  <2>2. SubSeq(f, 1, i) \o SubSeq(f, i + 1, Len(f)) = SubSeq(f, 1, Len(f))
    <3>1. 1 \in 1 .. Len(f) + 1 /\ i \in 1 - 1 .. Len(f) /\ Len(f) \in i .. Len(f)
      BY <1>5
    <3> QED
      BY <1>5, <3>1, ConcatAdjacentSubSeq
  <2>3. SubSeq(f, 1, Len(f)) = f
    BY <1>5, SubSeqFull
  <2>4. (wire \o SubSeq(f, 1, i)) \o SubSeq(f, i + 1, Len(f)) = wire \o f
    BY <1>3, <2>1, <2>2, <2>3, ConcatAssociative
  <2> QED
    BY <1>3, <1>7, <2>1, <2>4, ConcatProperties DEF Rest
<1> QED
  BY <1>2, <1>3, <1>4, <1>6, <1>7

-----------------------------------------------------------------------------
(* How the stream changes.                                                 *)

LEMMA PlaceInFrame ==
  ASSUME NEW p \in Int, p <= 1, NEW long \in Nat, NEW i \in 1 .. (long + 1 - p)
  PROVE  /\ p + i - 1 \in Int /\ p + i - 1 <= long
         /\ i < long + 1 - p => p + i - 1 < long /\ p + (i + 1) - 1 = (p + i - 1) + 1
OBVIOUS

\* The stream grows at its end,
LEMMA StreamGrows ==
  ASSUME StreamInv, Transmit, UNCHANGED <<frames, passed>>
  PROVE  /\ StreamInv' /\ Rest' # <<>>
         /\ Rest # <<>> => Rest'[1] = Rest[1]
         /\ Rest = <<>> => Rest'[1].place <= 1
<1>1. PICK f : IsBurst(f, sent + 1) /\ Rest' = Rest \o f
  BY RestGrows DEF StreamInv
<1>2. /\ wire' \in Seq(ByteSet) /\ air' \in Seq(ByteSet) /\ sent' = sent + 1 /\ sent' \in 0 .. Len(frames)
      /\ sent \in Nat /\ passed \in Nat
  <2>1. wire' \in Seq(ByteSet) /\ air' \in Seq(ByteSet)
    BY RestGrows DEF StreamInv
  <2>2. sent' = sent + 1 /\ sent < Len(frames)
    BY DEF Transmit
  <2>3. Len(frames) \in Nat /\ sent \in 0 .. Len(frames) /\ passed \in Nat
    BY FramesTyped DEF StreamInv, LineTyped
  <2> QED
    BY <2>1, <2>2, <2>3
<1>m. masked \subseteq masked' /\ masked' \subseteq 1 .. sent' /\ (forged => forged') /\ forged' \in BOOLEAN
  <2>1. /\ masked' \in {masked, masked \cup {sent + 1}}
        /\ \E noise \in Noise : forged' = (forged \/ Forges(noise))
    BY DEF Transmit
  <2>2. masked \subseteq 1 .. sent /\ forged \in BOOLEAN
    BY DEF StreamInv, LineTyped
  <2>3. \A noise \in Noise : Forges(noise) \in BOOLEAN
    BY DEF Forges
  <2> QED
    BY <1>2, <2>1, <2>2, <2>3
<1>3. LineTyped'
  BY <1>2, <1>m DEF StreamInv, LineTyped
<1>4. Rest \in Seq(ByteSet) /\ Len(Rest) \in Nat /\ (Rest = <<>> <=> Len(Rest) = 0)
  BY RestTyped DEF StreamInv
<1> DEFINE n == Len(Rest)
           m == Len(f)
<1> PICK r : r = Rest \o f
  OBVIOUS
<1>5. f \in Seq(ByteSet) /\ m \in Nat /\ m >= 2 /\ Long(sent + 1) \in Nat
  <2>1. Long(sent + 1) \in Nat /\ Long(sent + 1) >= 4
    BY <1>2, FramesTyped DEF StreamInv, LineTyped, Long
  <2> QED
    BY <1>1, <2>1 DEF IsBurst
<1>6. /\ r \in Seq(ByteSet) /\ Len(r) = n + m
      /\ \A i \in 1 .. n + m : r[i] = IF i <= n THEN Rest[i] ELSE f[i - n]
  BY <1>4, <1>5, ConcatProperties
<1>7. \A i \in 1 .. n : r[i] = Rest[i]
  BY <1>4, <1>5, <1>6
<1>8. \A i \in 1 .. m : r[n + i] = f[i]
  BY <1>4, <1>5, <1>6
<1>9. \A x, y : Follows(x, y) => Follows(x, y)'
  BY <1>m DEF Follows, Long
<1>10. \A x : Coded(x) => Coded(x)'
  BY <1>2, <1>m DEF Coded, Long, Encode
<1> PICK p \in Int : p = f[1].place /\ p <= 1
  BY <1>1 DEF IsBurst
<1>f. /\ m = Long(sent + 1) + 1 - p
      /\ \A i \in 1 .. m : f[i].frame = sent + 1 /\ f[i].place = p + i - 1
  BY <1>1 DEF IsBurst
<1>b. \A i \in 1 .. m : /\ f[i].place > 0 => f[i].b = Encode(sent + 1)[f[i].place]
                        /\ f[i].place = 0 /\ f[i].b = START1 => sent + 1 \in masked'
  BY <1>1 DEF IsBurst
<1>g. \A i \in 1 .. m - 1 : f[i].place < 0 /\ f[i].b = START1 /\ f[i + 1].b = START2 => forged'
  BY <1>1 DEF IsBurst
<1>11. \A i \in 1 .. m : Coded(f[i])'
  <2> SUFFICES ASSUME NEW i \in 1 .. m PROVE Coded(f[i])'
    OBVIOUS
  <2>1. /\ f[i].frame = sent + 1 /\ f[i].place = p + i - 1
        /\ f[i].place > 0 => f[i].b = Encode(sent + 1)[f[i].place]
        /\ f[i].place = 0 /\ f[i].b = START1 => sent + 1 \in masked'
    BY <1>f, <1>b
  <2>2. sent + 1 \in 1 .. sent'
    BY <1>2
  <2>3. f[i].place \in Int /\ f[i].place <= Long(sent + 1)
    <3>1. i \in 1 .. (Long(sent + 1) + 1 - p) /\ Long(sent + 1) \in Nat
      BY <1>5, <1>f
    <3>2. p + i - 1 \in Int /\ p + i - 1 <= Long(sent + 1)
      BY <3>1, PlaceInFrame
    <3> QED
      BY <2>1, <3>2
  <2> QED
    BY <2>1, <2>2, <2>3 DEF Coded, Long, Encode
<1>12. \A i \in 1 .. m - 1 : Follows(f[i], f[i + 1])'
  <2> SUFFICES ASSUME NEW i \in 1 .. m - 1 PROVE Follows(f[i], f[i + 1])'
    OBVIOUS
  <2>1. i \in 1 .. m /\ i + 1 \in 1 .. m
    BY <1>5
  <2>2. /\ f[i].frame = sent + 1 /\ f[i].place = p + i - 1
        /\ f[i + 1].frame = sent + 1 /\ f[i + 1].place = p + (i + 1) - 1
    BY <1>f, <2>1
  <2>3. f[i].place < Long(sent + 1) /\ f[i + 1].place = f[i].place + 1
    <3>1. i \in 1 .. m /\ i < m /\ m = Long(sent + 1) + 1 - p /\ Long(sent + 1) \in Nat
      BY <1>5, <1>f, <2>1
    <3>2. p + i - 1 < Long(sent + 1) /\ p + (i + 1) - 1 = (p + i - 1) + 1
      BY <3>1, PlaceInFrame
    <3> QED
      BY <2>2, <3>2
  <2> QED
    BY <1>g, <2>2, <2>3 DEF Follows, Long
<1>13. f[1].frame = sent + 1 /\ f[1].place <= 1 /\ f[m].frame = sent + 1 /\ Ends(f[m])
  <2>1. 1 \in 1 .. m /\ m \in 1 .. m
    BY <1>5
  <2>2. f[1].frame = sent + 1 /\ f[m].frame = sent + 1 /\ f[m].place = p + m - 1
    BY <1>f, <2>1
  <2>3. f[m].place = Long(sent + 1)
    <3>1. \A a, b, c \in Int : a = b + 1 - c => c + a - 1 = b
      OBVIOUS
    <3>2. m \in Int /\ Long(sent + 1) \in Int /\ m = Long(sent + 1) + 1 - p
      BY <1>5, <1>f
    <3> QED
      BY <2>2, <3>1, <3>2, Zenon
  <2> QED
    BY <2>2, <2>3 DEF Ends, Long
<1>14. Rest' = r
  BY <1>1
<1>15. \A i \in 1 .. n + m : Coded(r[i])'
  <2> SUFFICES ASSUME NEW i \in 1 .. n + m PROVE Coded(r[i])'
    OBVIOUS
  <2>1. CASE i \in 1 .. n
    BY <1>7, <1>10, <2>1 DEF StreamInv
  <2>2. CASE i \notin 1 .. n
    <3>1. i - n \in 1 .. m /\ r[i] = f[i - n]
      BY <1>4, <1>5, <1>6, <2>2
    <3> QED
      BY <1>11, <3>1
  <2> QED
    BY <2>1, <2>2
<1>16. \A i \in 1 .. n + m - 1 : Follows(r[i], r[i + 1])'
  <2> SUFFICES ASSUME NEW i \in 1 .. n + m - 1 PROVE Follows(r[i], r[i + 1])'
    OBVIOUS
  <2>1. CASE i < n
    <3>1. i \in 1 .. n - 1 /\ i \in 1 .. n /\ i + 1 \in 1 .. n
      BY <1>4, <1>5, <2>1
    <3> QED
      BY <1>7, <1>9, <3>1 DEF StreamInv
  <2>2. CASE i = n
    <3>1. n \in 1 .. n /\ 1 \in 1 .. m /\ Rest # <<>>
      BY <1>4, <1>5, <2>2
    <3>2. r[n] = Rest[n] /\ r[n + 1] = f[1]
      BY <1>7, <1>8, <3>1
    <3>3. Rest[n].frame = sent /\ Ends(Rest[n])
      BY <3>1 DEF StreamInv
    <3>4. sent \in 1 .. Len(frames) /\ Long(sent) \in Nat
      <4>1. Coded(Rest[n])
        BY <3>1 DEF StreamInv
      <4> QED
        BY <1>2, <3>3, <4>1, FramesTyped DEF Coded, StreamInv, LineTyped
    <3> QED
      BY <1>2, <1>13, <2>2, <3>2, <3>3, <3>4 DEF Follows, Ends, Long
  <2>3. CASE i > n
    <3>1. i - n \in 1 .. m - 1 /\ i - n \in 1 .. m /\ i - n + 1 \in 1 .. m
          /\ n + (i - n) = i /\ n + (i - n + 1) = i + 1
      BY <1>4, <1>5, <2>3
    <3>2. r[i] = f[i - n] /\ r[i + 1] = f[i - n + 1]
      BY <1>8, <3>1
    <3> QED
      BY <1>12, <3>1, <3>2
  <2> QED
    BY <1>4, <1>5, <2>1, <2>2, <2>3
<1>17. r # <<>> /\ r[n + m] = f[m]
  BY <1>4, <1>5, <1>6, <1>8
<1>e. ASSUME r[1].frame = passed + 1
      PROVE  StreamInv' /\ Rest' # <<>> /\ Rest'[1] = r[1]
  <2>1. Len(Rest') = n + m /\ Rest' # <<>>
    BY <1>6, <1>14, <1>17
  <2>2. (\A i \in 1 .. Len(Rest) : Coded(Rest[i]))'
    <3> SUFFICES ASSUME NEW i \in 1 .. n + m PROVE Coded(Rest[i])'
      BY <2>1
    <3>1. Coded(r[i])' /\ r[i] = Rest'[i]
      BY <1>14, <1>15
    <3> QED
      BY <3>1 DEF Coded
  <2>3. (\A i \in 1 .. Len(Rest) - 1 : Follows(Rest[i], Rest[i + 1]))'
    <3> SUFFICES ASSUME NEW i \in 1 .. n + m - 1 PROVE Follows(Rest[i], Rest[i + 1])'
      BY <2>1
    <3>1. Follows(r[i], r[i + 1])' /\ r[i] = Rest'[i] /\ r[i + 1] = Rest'[i + 1]
      BY <1>14, <1>16
    <3> QED
      BY <3>1 DEF Follows, Long
  <2>4. Rest'[Len(Rest')].frame = sent' /\ Ends(Rest[Len(Rest)])'
    BY <1>2, <1>13, <1>14, <1>17, <2>1 DEF Ends
  <2>5. Rest'[1].frame = passed' + 1 /\ Rest'[1] = r[1]
    BY <1>e, <1>14
  <2> QED
    BY <1>3, <2>1, <2>2, <2>3, <2>4, <2>5 DEF StreamInv
<1>18. CASE Rest = <<>>
  <2>1. r[1] = f[1] /\ r[1].frame = passed + 1
    BY <1>4, <1>5, <1>8, <1>13, <1>18 DEF StreamInv
  <2> QED
    BY <1>e, <1>13, <1>18, <2>1
<1>19. CASE Rest # <<>>
  <2>1. r[1] = Rest[1] /\ Rest[1].frame = passed + 1
    BY <1>4, <1>7, <1>19 DEF StreamInv
  <2> QED
    BY <1>e, <1>19, <2>1
<1> QED
  BY <1>13, <1>18, <1>19

\* stays as it is where its bytes stay, as they do when the radio goes on after a pause,
LEMMA SameStream ==
  ASSUME StreamInv, LineTyped', UNCHANGED <<Rest, frames, sent, passed, masked, forged>>
  PROVE  StreamInv'
<1>1. (\A i \in 1 .. Len(Rest) : Coded(Rest[i]))'
  <2> SUFFICES ASSUME NEW i \in 1 .. Len(Rest) PROVE Coded(Rest[i])'
    OBVIOUS
  <2>1. Coded(Rest[i]) /\ Rest'[i] = Rest[i]
    BY DEF StreamInv
  <2> QED
    BY <2>1 DEF Coded, Long, Encode
<1>2. (\A i \in 1 .. Len(Rest) - 1 : Follows(Rest[i], Rest[i + 1]))'
  <2> SUFFICES ASSUME NEW i \in 1 .. Len(Rest) - 1 PROVE Follows(Rest[i], Rest[i + 1])'
    OBVIOUS
  <2>1. Follows(Rest[i], Rest[i + 1]) /\ Rest'[i] = Rest[i] /\ Rest'[i + 1] = Rest[i + 1]
    BY DEF StreamInv
  <2> QED
    BY <2>1 DEF Follows, Long
<1> QED
  BY <1>1, <1>2 DEF StreamInv, Ends

LEMMA StreamResumes ==
  ASSUME StreamInv, Resume, UNCHANGED <<frames, passed>>
  PROVE  StreamInv' /\ Rest' = Rest
<1>1. wire' = wire \o air /\ air' = <<>> /\ UNCHANGED <<sent, masked, forged>>
  BY DEF Resume
<1>2. wire \o air \in Seq(ByteSet) /\ (wire \o air) \o <<>> = wire \o air /\ <<>> \in Seq(ByteSet)
  BY ConcatProperties, ConcatEmptySeq DEF StreamInv, LineTyped
<1>3. Rest' = Rest /\ LineTyped'
  BY <1>1, <1>2 DEF Rest, StreamInv, LineTyped
<1> QED
  BY <1>1, <1>3, SameStream DEF LineTyped

\* and loses its first byte to a reader.
TookByte == /\ wire # <<>> /\ wire' = Tail(wire) /\ UNCHANGED <<air, frames, sent, masked, forged>>
            /\ passed' = IF Ends(Head(wire)) THEN Head(wire).frame ELSE passed

LEMMA StreamShrinks ==
  ASSUME StreamInv, TookByte
  PROVE  /\ StreamInv' /\ Rest # <<>> /\ Head(wire) = Rest[1] /\ Coded(Rest[1])
         /\ Rest[1].frame = passed + 1 /\ Rest[1] \in ByteSet
         /\ Rest' # <<>> => Follows(Rest[1], Rest'[1])
         /\ Rest' = <<>> => Ends(Rest[1])
<1>1. wire \in Seq(ByteSet) /\ air \in Seq(ByteSet) /\ wire # <<>> /\ Len(wire) \in Nat \ {0} /\ Len(air) \in Nat
  BY DEF StreamInv, LineTyped, TookByte
<1>2. Rest \in Seq(ByteSet) /\ Len(Rest) = Len(wire) + Len(air)
      /\ \A i \in 1 .. Len(wire) + Len(air) : Rest[i] = IF i <= Len(wire) THEN wire[i] ELSE air[i - Len(wire)]
  BY <1>1, ConcatProperties DEF Rest
<1>3. Tail(wire) \in Seq(ByteSet) /\ Len(Tail(wire)) = Len(wire) - 1
      /\ \A i \in 1 .. Len(wire) - 1 : Tail(wire)[i] = wire[i + 1]
  BY <1>1
<1>4. Rest' = Tail(wire) \o air
  BY DEF Rest, TookByte
<1>5. /\ Rest' \in Seq(ByteSet) /\ Len(Rest') = Len(Tail(wire)) + Len(air)
      /\ \A i \in 1 .. Len(Tail(wire)) + Len(air) :
            Rest'[i] = IF i <= Len(Tail(wire)) THEN Tail(wire)[i] ELSE air[i - Len(Tail(wire))]
  <2>1. /\ Tail(wire) \o air \in Seq(ByteSet) /\ Len(Tail(wire) \o air) = Len(Tail(wire)) + Len(air)
        /\ \A i \in 1 .. Len(Tail(wire)) + Len(air) :
             (Tail(wire) \o air)[i] = IF i <= Len(Tail(wire)) THEN Tail(wire)[i] ELSE air[i - Len(Tail(wire))]
    BY <1>1, <1>3, ConcatProperties
  <2> QED
    BY <1>4, <2>1
<1> DEFINE n == Len(Rest)
<1>6. n \in Nat \ {0} /\ Len(Rest') = n - 1
  BY <1>1, <1>2, <1>3, <1>5
<1>7. \A i \in 1 .. n - 1 : Rest'[i] = Rest[i + 1]
  <2> SUFFICES ASSUME NEW i \in 1 .. n - 1 PROVE Rest'[i] = Rest[i + 1]
    OBVIOUS
  <2>1. CASE i <= Len(wire) - 1
    <3>1. Rest'[i] = Tail(wire)[i]
      BY <1>3, <1>5, <2>1
    <3>2. i \in 1 .. Len(Tail(wire)) /\ Tail(wire)[i] = wire[i + 1]
      BY <1>1, <1>3, <2>1
    <3>3. Rest[i + 1] = wire[i + 1]
      BY <1>1, <1>2, <1>3, <1>5, <2>1
    <3> QED
      BY <3>1, <3>2, <3>3
  <2>2. CASE i > Len(wire) - 1
    <3>1. Rest'[i] = air[i - (Len(wire) - 1)] /\ Rest[i + 1] = air[i + 1 - Len(wire)]
      BY <1>1, <1>2, <1>3, <1>5, <2>2, SMTT(30)
    <3>2. i - (Len(wire) - 1) = i + 1 - Len(wire)
      BY <1>1
    <3> QED
      BY <3>1, <3>2
  <2> QED
    BY <1>1, <2>1, <2>2
<1>8. Rest # <<>> /\ Head(wire) = Rest[1] /\ Rest[1] \in ByteSet /\ (Rest' = <<>> <=> n = 1)
  BY <1>1, <1>2, <1>5, <1>6
<1>9. Coded(Rest[1]) /\ Rest[1].frame = passed + 1 /\ Rest[n].frame = sent /\ Ends(Rest[n])
  BY <1>6, <1>8 DEF StreamInv
<1>10. passed \in Nat /\ sent \in Nat /\ frames \in Scripts /\ Rest[1].frame \in 1 .. Len(frames)
       /\ Rest[1].place \in Int /\ Rest[1].place <= Long(Rest[1].frame) /\ Long(Rest[1].frame) \in Nat
  BY <1>9, FramesTyped DEF StreamInv, LineTyped, Coded
<1>11. passed' \in Nat /\ passed' = IF Ends(Rest[1]) THEN passed + 1 ELSE passed
  BY <1>8, <1>9, <1>10 DEF TookByte
<1>12. LineTyped'
  BY <1>1, <1>3, <1>11 DEF TookByte, StreamInv, LineTyped
<1>14. (\A i \in 1 .. Len(Rest) : Coded(Rest[i]))'
  <2> SUFFICES ASSUME NEW i \in 1 .. n - 1 PROVE Coded(Rest[i])'
    BY <1>6
  <2>1. i + 1 \in 1 .. n
    BY <1>6
  <2>2. Coded(Rest[i + 1]) /\ Rest'[i] = Rest[i + 1]
    BY <1>7, <2>1 DEF StreamInv
  <2> QED
    BY <2>2 DEF Coded, Long, Encode, TookByte
<1>15. (\A i \in 1 .. Len(Rest) - 1 : Follows(Rest[i], Rest[i + 1]))'
  <2> SUFFICES ASSUME NEW i \in 1 .. n - 2 PROVE Follows(Rest[i], Rest[i + 1])'
    BY <1>6
  <2>1. i \in 1 .. n - 1 /\ i + 1 \in 1 .. n - 1
    BY <1>6
  <2>2. Follows(Rest[i + 1], Rest[i + 1 + 1]) /\ Rest'[i] = Rest[i + 1] /\ Rest'[i + 1] = Rest[i + 1 + 1]
    BY <1>7, <2>1 DEF StreamInv
  <2> QED
    BY <2>2 DEF Follows, Long, TookByte
<1>16. CASE n = 1
  <2>1. Ends(Rest[1]) /\ Rest[1].frame = sent
    BY <1>9, <1>16
  <2> QED
    BY <1>6, <1>8, <1>9, <1>10, <1>11, <1>12, <1>14, <1>15, <1>16, <2>1 DEF StreamInv, TookByte
<1>17. CASE n # 1
  <2>1. 1 \in 1 .. n - 1 /\ n - 1 \in 1 .. n - 1 /\ n - 1 + 1 = n
    BY <1>6, <1>17
  <2>2. Rest'[1] = Rest[2] /\ Follows(Rest[1], Rest[2]) /\ Rest'[n - 1] = Rest[n]
    BY <1>7, <2>1 DEF StreamInv
  <2>3. Rest'[1].frame = passed' + 1
    BY <1>9, <1>10, <1>11, <2>2 DEF Follows, Ends, Long
  <2>4. Rest'[Len(Rest')].frame = sent' /\ Ends(Rest[Len(Rest)])'
    BY <1>6, <1>9, <2>1, <2>2 DEF Ends, TookByte
  <2>5. Rest' # <<>>
    BY <1>8, <1>17
  <2> QED
    BY <1>8, <1>9, <1>12, <1>14, <1>15, <2>2, <2>3, <2>4, <2>5 DEF StreamInv
<1> QED
  BY <1>16, <1>17

-----------------------------------------------------------------------------
(* The types.                                                              *)

\* Who touches the stream, and who does not.
Untouched == UNCHANGED <<frames, wire, air, sent, passed, masked, forged>>

LEMMA StepOfStream ==
  ASSUME [Next]_vars
  PROVE  \/ Untouched
         \/ (Transmit \/ Resume) /\ UNCHANGED <<frames, calls, hist, ends>>
         \/ \E r \in Receivers : ReadByte(r) /\ TookByte
<1>1. CASE UNCHANGED vars
  BY <1>1 DEF vars, hist, line, Untouched
<1>2. CASE Radio
  BY <1>2 DEF Radio
<1>3. CASE Unplug \/ Cancel \/ Close
  BY <1>3 DEF Unplug, Cancel, Close, hist, line, Untouched
<1>4. ASSUME NEW a \in Actors, Expire(a) PROVE Untouched
  BY <1>4 DEF Expire, Fault, line, hist, Untouched
<1>5. ASSUME NEW r \in Receivers, RecvCall(r) \/ RecvLock(r) PROVE Untouched
  BY <1>5 DEF RecvCall, RecvLock, hist, line, Untouched
<1>6. ASSUME NEW r \in Receivers, ReadByte(r) PROVE TookByte
  BY <1>6, Zenon DEF ReadByte, TookByte
<1>7. ASSUME NEW r \in Receivers, ReadTimeout(r) \/ ReadFails(r) \/ ReadNil(r)
      PROVE  Untouched
  BY <1>7 DEF ReadTimeout, ReadFails, ReadNil, Panic, hist, line, Untouched
<1>8. ASSUME NEW s \in Senders, SendCall(s) \/ SendLock(s) \/ Write(s) \/ WriteNil(s)
      PROVE  Untouched
  BY <1>8 DEF SendCall, SendLock, Write, WriteNil, Panic, hist, line, Untouched
<1> QED
  BY <1>1, <1>2, <1>3, <1>4, <1>5, <1>6, <1>7, <1>8 DEF Next, Read

LEMMA InitStream == Init => StreamInv
<1> SUFFICES ASSUME Init PROVE StreamInv
  OBVIOUS
<1>1. wire = <<>> /\ air = <<>> /\ <<>> \in Seq(ByteSet) /\ Len(frames) \in Nat /\ frames \in Scripts
  BY FramesTyped DEF Init
<1>2. LineTyped /\ sent = 0 /\ passed = 0
  <2>1. masked = {} /\ forged = FALSE /\ sent = 0 /\ passed = 0
    BY DEF Init
  <2>2. masked \subseteq 1 .. sent /\ forged \in BOOLEAN /\ passed \in Nat
    BY <2>1
  <2>4. sent \in 0 .. Len(frames)
    <3>1. Len(frames) \in Nat
      BY <1>1
    <3> QED
      BY <2>1, <3>1
  <2>3. wire \in Seq(ByteSet) /\ air \in Seq(ByteSet)
    BY <1>1
  <2> QED
    BY <1>1, <2>1, <2>2, <2>3, <2>4 DEF LineTyped
<1>3. Rest = <<>> /\ Len(Rest) = 0
  BY <1>1, <1>2, RestTyped
<1> QED
  BY <1>2, <1>3 DEF StreamInv

LEMMA NextStream == StreamInv /\ [Next]_vars => StreamInv'
<1> SUFFICES ASSUME StreamInv, [Next]_vars PROVE StreamInv'
  OBVIOUS
<1>1. CASE Untouched
  <2>1. Rest' = Rest
    BY <1>1 DEF Rest, Untouched
  <2>2. LineTyped'
    BY <1>1 DEF StreamInv, LineTyped, Untouched
  <2> QED
    BY <1>1, <2>1, <2>2, SameStream DEF Untouched
<1>2. CASE Transmit /\ UNCHANGED <<frames, calls, hist, ends>>
  BY <1>2, StreamGrows DEF hist
<1>3. CASE Resume /\ UNCHANGED <<frames, calls, hist, ends>>
  BY <1>3, StreamResumes DEF hist
<1>4. CASE TookByte
  BY <1>4, StreamShrinks
<1> QED
  BY <1>1, <1>2, <1>3, <1>4, StepOfStream

\* The types: what a reader has of a frame, and who holds the mutex.
Parses == [at : {"first", "second", "high", "low", "data"}, left : Nat,
           data : Seq(0 .. 255), frame : Nat]
ParseTyped ==
    /\ parse \in [Receivers -> Parses]
    /\ \A r \in Receivers : /\ parse[r].frame \in 0 .. sent
                            /\ parse[r].at = "first" => parse[r] = Fresh
                            /\ parse[r].at # "first" => pc[r] = "read"
                            /\ parse[r].at = "data" => parse[r].left \in 1 .. MaxPdu

CallsTyped ==
    /\ Exclusive
    /\ port \in {"open", "gone", "closed"} /\ mutex \in Actors \cup {Nobody}
    /\ \A a \in Actors : mutex = a => Inside(a)
    /\ expired \subseteq {a \in Actors : pc[a] # "idle"}
    /\ hurt \subseteq 0 .. sent

TypeInv == ParseTyped /\ CallsTyped

LEMMA InitType == Init => TypeInv
<1>1. Init => Exclusive
  BY InitPort DEF PortInv
<1>2. Init => ParseTyped
  BY SerialAssumption DEF Init, ParseTyped, Parses, Fresh
<1> QED
  BY <1>1, <1>2, SerialAssumption DEF Init, TypeInv, CallsTyped, Inside, Actors

\* The length's bytes and the length are kept where a parse has its count.
LEMMA GoesOn ==
  ASSUME NEW p \in Parses, NEW a \in {"low", "data"}, NEW v \in Nat
  PROVE  LET q == [p EXCEPT !.at = a, !.left = v]
         IN  q \in Parses /\ q.at = a /\ q.left = v /\ q.frame = p.frame /\ q.data = p.data
BY DEF Parses

\* What a byte does to a parse.
LEMMA ByteParses ==
  ASSUME StreamInv, TypeInv, NEW r \in Receivers, ReadByte(r)
  PROVE  /\ ParseTyped' /\ UNCHANGED <<frames, sent, hurt, port>>
         /\ UNCHANGED <<mutex, expired, pc>> \/ Return(r)
<1> DEFINE p == parse[r]
           x == Head(wire)
           n == 256 * p.left + x.b
           more == [p EXCEPT !.data = Append(@, x.b), !.left = @ - 1]
<1>1. TookByte /\ x = Rest[1] /\ x.frame \in 1 .. sent /\ x \in ByteSet /\ sent \in Nat /\ MaxPdu \in Nat
  <2>1. TookByte
    BY Zenon DEF ReadByte, TookByte
  <2>2. x = Rest[1] /\ x \in ByteSet /\ Coded(x)
    BY <2>1, StreamShrinks
  <2>3. sent \in Nat /\ MaxPdu \in Nat
    <3>1. MaxPdu \in Nat
      BY SerialAssumption
    <3>2. frames \in Scripts /\ sent \in 0 .. Len(frames)
      BY DEF StreamInv, LineTyped
    <3>3. Len(frames) \in Nat
      BY <3>2, FramesTyped
    <3> QED
      BY <3>1, <3>2, <3>3
  <2> QED
    BY <2>1, <2>2, <2>3 DEF Coded
<1>2. /\ p \in Parses
      /\ p.frame \in 0 .. sent /\ (p.at = "first" => p = Fresh) /\ (p.at = "data" => p.left \in 1 .. MaxPdu)
  BY DEF TypeInv, ParseTyped
<1>3. pc[r] = "read" /\ UNCHANGED <<frames, sent, hurt, port>>
  BY DEF ReadByte, ends
<1>4. /\ \/ p.at = "first" /\ x.b = START1
               /\ Goes(r, [p EXCEPT !.at = "second", !.frame = x.frame])
         \/ p.at = "second" /\ x.b = START2 /\ Goes(r, [p EXCEPT !.at = "high"])
         \/ p.at = "high" /\ Goes(r, [p EXCEPT !.at = "low", !.left = x.b])
         \/ p.at = "low" /\ Fits(n) /\ n > 0
               /\ Goes(r, [p EXCEPT !.at = "data", !.left = n])
         \/ p.at = "low" /\ n = 0 /\ Deliver(r, <<>>)
         \/ p.at = "data" /\ p.left > 1 /\ Goes(r, more)
         \/ p.at = "data" /\ p.left = 1 /\ Deliver(r, more.data)
         \/ Goes(r, Fresh)
  BY DEF ReadByte
<1> DEFINE Fine(q) == /\ q \in Parses
                      /\ q.frame \in 0 .. sent /\ (q.at = "first" => q = Fresh)
                      /\ (q.at = "data" => q.left \in 1 .. MaxPdu)
<1> USE DEF Parses
<1>5. Fine(Fresh)
  BY <1>1 DEF Fresh
<1>6. x.b \in 0 .. 255 /\ x.frame \in Nat
  BY <1>1 DEF ByteSet
<1> PICK y : y = x
  OBVIOUS
<1>y. y.frame \in Nat /\ y.frame \in 0 .. sent /\ y.b \in 0 .. 255 /\ MaxPdu \in Nat
  BY <1>1, <1>6
<1>7. p.at = "first" => Fine([p EXCEPT !.at = "second", !.frame = y.frame])
  BY <1>y, <1>2
<1>8. p.at = "second" => Fine([p EXCEPT !.at = "high"])
  BY <1>2
<1>h. p.at = "high" => Fine([p EXCEPT !.at = "low", !.left = y.b])
  <2>1. y.b \in Nat /\ "low" # "first" /\ "low" # "data"
    BY <1>y
  <2> PICK q : q = [p EXCEPT !.at = "low", !.left = y.b]
    OBVIOUS
  <2>2. q \in Parses /\ q.at = "low" /\ q.frame = p.frame
    BY <1>2, <2>1, GoesOn, ZenonT(30)
  <2> QED
    BY <1>2, <2>1, <2>2
<1>9. p.at = "low" /\ n <= MaxPdu /\ n > 0 => Fine([p EXCEPT !.at = "data", !.left = n])
  <2>1. n \in Nat
    <3>1. p.left \in Nat
      BY <1>2
    <3>2. y.b \in Nat
      BY <1>y
    <3>3. n = 256 * p.left + y.b
      OBVIOUS
    <3> HIDE DEF n
    <3> QED
      BY <3>1, <3>2, <3>3
  <2>2. n <= MaxPdu /\ n > 0 => n \in 1 .. MaxPdu
    BY <1>1, <2>1
  <2> HIDE DEF n
  <2> PICK q : q = [p EXCEPT !.at = "data", !.left = n]
    OBVIOUS
  <2>3. q \in Parses /\ q.at = "data" /\ q.left = n /\ q.frame = p.frame
    BY <1>2, <2>1, GoesOn, ZenonT(30)
  <2> QED
    BY <1>2, <2>2, <2>3
<1>10. p.at = "data" /\ p.left > 1 => Fine([p EXCEPT !.data = Append(@, y.b), !.left = @ - 1])
  <2> SUFFICES ASSUME p.at = "data", p.left > 1
               PROVE  Fine([p EXCEPT !.data = Append(@, y.b), !.left = @ - 1])
    OBVIOUS
  <2>1. Append(p.data, y.b) \in Seq(0 .. 255)
    BY <1>2, <1>6
  <2>2. p.left - 1 \in Nat /\ p.left - 1 \in 1 .. MaxPdu
    BY <1>1, <1>2
  <2> QED
    BY <1>2, <2>1, <2>2
<1>11. \E q : Fine(q) /\ parse' = [parse EXCEPT ![r] = q]
              /\ (UNCHANGED <<mutex, expired, pc>> \/ (q = Fresh /\ Return(r)))
  <2> DEFINE To(q) == /\ Fine(q) /\ parse' = [parse EXCEPT ![r] = q]
                       /\ (UNCHANGED <<mutex, expired, pc>> \/ (q = Fresh /\ Return(r)))
  <2> SUFFICES \E q : To(q)
    OBVIOUS
  <2>1. ASSUME NEW q, Fine(q), Goes(r, q) PROVE To(q)
    BY <2>1 DEF Goes
  <2>2. ASSUME NEW d, Deliver(r, d) PROVE To(Fresh)
    BY <2>2, <1>5 DEF Deliver
  <2> HIDE DEF To, Fine
  <2>3. CASE p.at = "first" /\ Goes(r, [p EXCEPT !.at = "second", !.frame = y.frame])
    BY <2>1, <2>3, <1>7
  <2>4. CASE p.at = "second" /\ Goes(r, [p EXCEPT !.at = "high"])
    BY <2>1, <2>4, <1>8
  <2>h. CASE p.at = "high" /\ Goes(r, [p EXCEPT !.at = "low", !.left = y.b])
    BY <2>1, <2>h, <1>h
  <2>5. CASE p.at = "low" /\ n <= MaxPdu /\ n > 0 /\ Goes(r, [p EXCEPT !.at = "data", !.left = n])
    BY <2>1, <2>5, <1>9
  <2>6. CASE p.at = "data" /\ p.left > 1
             /\ Goes(r, [p EXCEPT !.data = Append(@, y.b), !.left = @ - 1])
    BY <2>1, <2>6, <1>10
  <2>7. CASE Goes(r, Fresh)
    BY <2>1, <2>7, <1>5
  <2>8. CASE \E d : Deliver(r, d)
    BY <2>2, <2>8
  <2> QED
    BY <1>4, <2>3, <2>4, <2>h, <2>5, <2>6, <2>7, <2>8 DEF Fits
<1>12. PICK q : Fine(q) /\ parse' = [parse EXCEPT ![r] = q]
                /\ (UNCHANGED <<mutex, expired, pc>> \/ (q = Fresh /\ Return(r)))
  BY <1>11
<1>13. q = Fresh => q.at = "first"
  BY DEF Fresh
<1>14. parse' \in [Receivers -> Parses]
  BY <1>12 DEF TypeInv, ParseTyped
<1>15. ASSUME NEW t \in Receivers
       PROVE  /\ parse'[t].frame \in 0 .. sent'
              /\ parse'[t].at = "first" => parse'[t] = Fresh
              /\ parse'[t].at # "first" => pc'[t] = "read"
              /\ parse'[t].at = "data" => parse'[t].left \in 1 .. MaxPdu
  <2>1. CASE t = r
    <3>1. parse'[t] = q
      BY <1>12, <2>1 DEF TypeInv, ParseTyped
    <3> QED
      BY <1>3, <1>12, <1>13, <2>1, <3>1
  <2>2. CASE t # r
    <3>1. parse'[t] = parse[t] /\ pc'[t] = pc[t]
      BY <1>12, <2>2 DEF TypeInv, ParseTyped, Return, CallsTyped, Exclusive, Actors
    <3> QED
      BY <1>3, <3>1 DEF TypeInv, ParseTyped
  <2> QED
    BY <2>1, <2>2
<1> QED
  BY <1>3, <1>12, <1>14, <1>15 DEF ParseTyped

LEMMA NextType == StreamInv /\ TypeInv /\ [Next]_vars => TypeInv'
<1> SUFFICES ASSUME StreamInv, TypeInv, [Next]_vars PROVE TypeInv'
  OBVIOUS
<1>0. Exclusive' /\ Exclusive
  BY NextExclusive DEF TypeInv, CallsTyped
<1>s. sent \in Nat
  BY FramesTyped DEF StreamInv, LineTyped
<1>p. UNCHANGED <<parse, sent>> /\ (\A r \in Receivers : pc[r] = "read" => pc'[r] = "read") => ParseTyped'
  BY DEF TypeInv, ParseTyped
<1>c. ASSUME NEW a \in Actors, NEW to \in {"want", "read", "header", "body"},
             pc' = [pc EXCEPT ![a] = to], expired' = expired
      PROVE  expired' \subseteq {b \in Actors : pc'[b] # "idle"}
  BY <1>0, <1>c DEF TypeInv, CallsTyped, Exclusive
<1>r. ASSUME NEW a \in Actors, Return(a), UNCHANGED <<sent, port>>, hurt' \subseteq 0 .. sent
      PROVE  CallsTyped'
  <2>1. \A b \in Actors : mutex' = b => Inside(b)'
    BY <1>0, <1>r, SerialAssumption DEF TypeInv, CallsTyped, Exclusive, Return, Inside
  <2> QED
    BY <1>0, <1>r, <2>1 DEF TypeInv, CallsTyped, Return, Exclusive
<1>k. UNCHANGED <<mutex, pc, expired, port, hurt, sent>> => CallsTyped'
  BY <1>0 DEF TypeInv, CallsTyped, Inside
<1>1. CASE UNCHANGED vars
  <2>1. UNCHANGED <<mutex, pc, parse, expired, port, hurt, sent>>
    BY <1>1 DEF vars, line, calls, hist, ends
  <2> QED
    BY <2>1, <1>k, <1>p DEF TypeInv
<1>2. CASE Radio
  <2>1. UNCHANGED <<mutex, pc, parse, expired, port, hurt>> /\ sent' \in {sent, sent + 1}
    BY <1>2 DEF Radio, Transmit, Resume, calls, hist, ends
  <2> QED
    BY <1>0, <1>s, <2>1 DEF TypeInv, CallsTyped, ParseTyped, Inside
<1>3. CASE Unplug \/ Cancel \/ Close
  <2>1. UNCHANGED <<mutex, pc, parse, expired, hurt, sent>> /\ port' \in {"open", "gone", "closed"}
    BY <1>3 DEF Unplug, Cancel, Close, TypeInv, CallsTyped, line, calls, hist
  <2> QED
    BY <1>0, <1>p, <2>1 DEF TypeInv, CallsTyped, Inside
<1>4. ASSUME NEW a \in Actors, Expire(a) PROVE TypeInv'
  <2>1. UNCHANGED <<mutex, pc, parse, hurt, sent, port>> /\ expired' = expired \cup {a} /\ pc[a] # "idle"
    BY <1>4 DEF Expire, hist, ends
  <2> QED
    BY <1>0, <1>p, <2>1 DEF TypeInv, CallsTyped, Inside
<1>5. ASSUME NEW r \in Receivers, RecvCall(r) PROVE TypeInv'
  <2>1. /\ pc[r] = "idle" /\ pc' = [pc EXCEPT ![r] = "want"] /\ UNCHANGED <<mutex, parse, expired, hurt, sent, port>>
    BY <1>5 DEF RecvCall, line, hist, ends
  <2>2. ParseTyped'
    BY <1>0, <1>p, <2>1 DEF Exclusive, Actors
  <2> QED
    BY <1>0, <1>c, <2>1, <2>2 DEF TypeInv, CallsTyped, Inside, Exclusive, Actors
<1>6. ASSUME NEW r \in Receivers, RecvLock(r) PROVE TypeInv'
  <2>1. /\ pc[r] = "want" /\ pc' = [pc EXCEPT ![r] = "read"] /\ mutex' = r
        /\ UNCHANGED <<parse, expired, hurt, sent, port>>
    BY <1>6 DEF RecvLock, line, hist, ends
  <2>2. ParseTyped'
    BY <1>0, <1>p, <2>1 DEF Exclusive, Actors
  <2> QED
    BY <1>0, <1>c, <2>1, <2>2 DEF TypeInv, CallsTyped, Inside, Exclusive, Actors
<1>7. ASSUME NEW r \in Receivers, ReadByte(r) PROVE TypeInv'
  <2>1. /\ ParseTyped' /\ UNCHANGED <<frames, sent, hurt, port>>
        /\ UNCHANGED <<mutex, expired, pc>> \/ Return(r)
    BY <1>7, ByteParses
  <2>2. hurt' \subseteq 0 .. sent
    BY <2>1 DEF TypeInv, CallsTyped
  <2> QED
    BY <1>k, <1>r, <2>1, <2>2 DEF TypeInv, Actors
\* A frame is abandoned.
<1>8. ASSUME NEW r \in Receivers, Abandon(r), sent' = sent, pc' = [pc EXCEPT ![r] = pc'[r]]
      PROVE  ParseTyped' /\ hurt' \subseteq 0 .. sent
  <2>1. Fresh \in Parses /\ Fresh.at = "first" /\ Fresh.frame = 0
    BY DEF Fresh, Parses
  <2>2. ParseTyped'
    BY <1>0, <1>8, <1>s, <2>1 DEF Abandon, TypeInv, ParseTyped, Exclusive, Actors
  <2>3. hurt' \subseteq 0 .. sent
    BY <1>8 DEF Abandon, TypeInv, ParseTyped, CallsTyped
  <2> QED
    BY <2>2, <2>3
<1>9. ASSUME NEW r \in Receivers, ReadTimeout(r) PROVE TypeInv'
  <2>1. /\ pc[r] = "read" /\ Abandon(r) /\ mutex' = Nobody /\ pc' = [pc EXCEPT ![r] = "want"]
        /\ UNCHANGED <<sent, expired, port>>
    BY <1>9 DEF ReadTimeout, line, ends
  <2>2. ParseTyped' /\ hurt' \subseteq 0 .. sent
    BY <1>0, <1>8, <2>1 DEF Exclusive, Actors
  <2>3. \A b \in Actors : mutex' # b
    BY <2>1, SerialAssumption
  <2> QED
    BY <1>0, <1>c, <2>1, <2>2, <2>3 DEF TypeInv, CallsTyped, Actors
<1>10. ASSUME NEW r \in Receivers, ReadFails(r) PROVE TypeInv'
  <2>1. Abandon(r) /\ Return(r) /\ UNCHANGED <<sent, port>>
    BY <1>10 DEF ReadFails, line, ends
  <2>2. ParseTyped' /\ hurt' \subseteq 0 .. sent
    BY <1>0, <1>8, <2>1 DEF Exclusive, Actors, Return
  <2> QED
    BY <1>r, <2>1, <2>2 DEF TypeInv, Actors
<1>11. CASE Panic
  BY <1>11, <1>k, <1>p DEF Panic, line, calls, hist, TypeInv
<1>12. ASSUME NEW s \in Senders, pc[s] # "read", pc' = [pc EXCEPT ![s] = pc'[s]],
              parse' = parse, sent' = sent
       PROVE  ParseTyped'
  BY <1>0, <1>12, <1>p, SerialAssumption DEF Exclusive, Actors
<1>13. ASSUME NEW s \in Senders, SendCall(s) PROVE TypeInv'
  <2>1. /\ pc[s] = "idle" /\ pc' = [pc EXCEPT ![s] = "want"] /\ UNCHANGED <<mutex, parse, expired, hurt, sent, port>>
    BY <1>13 DEF SendCall, line, hist, ends
  <2>2. ParseTyped'
    BY <1>0, <1>12, <2>1 DEF Exclusive, Actors
  <2> QED
    BY <1>0, <1>c, <2>1, <2>2 DEF TypeInv, CallsTyped, Inside, Exclusive, Actors
<1>14. ASSUME NEW s \in Senders, SendLock(s) PROVE TypeInv'
  <2>1. /\ pc[s] = "want" /\ UNCHANGED <<parse, hurt, sent, port>>
        /\ \/ Return(s)
           \/ pc' = [pc EXCEPT ![s] = "header"] /\ mutex' = s /\ UNCHANGED expired
    BY <1>14 DEF SendLock, line, hist, ends
  <2>2. ParseTyped'
    BY <1>0, <1>12, <2>1 DEF Exclusive, Actors, Return
  <2>3. hurt' \subseteq 0 .. sent
    BY <2>1 DEF TypeInv, CallsTyped
  <2>4. CASE Return(s)
    BY <1>r, <2>1, <2>2, <2>3, <2>4 DEF TypeInv, Actors
  <2>5. CASE pc' = [pc EXCEPT ![s] = "header"] /\ mutex' = s /\ UNCHANGED expired
    BY <1>0, <1>c, <2>1, <2>2, <2>5 DEF TypeInv, CallsTyped, Inside, Exclusive, Actors
  <2> QED
    BY <2>1, <2>4, <2>5
<1>15. ASSUME NEW s \in Senders, Write(s) PROVE TypeInv'
  <2>1. /\ pc[s] \in {"header", "body"} /\ UNCHANGED <<parse, hurt, sent, port>>
        /\ \/ Return(s)
           \/ pc' = [pc EXCEPT ![s] = "body"] /\ UNCHANGED <<mutex, expired>>
    BY <1>15 DEF Write, line, hist, ends
  <2>2. ParseTyped'
    BY <1>0, <1>12, <2>1 DEF Exclusive, Actors, Return
  <2>3. hurt' \subseteq 0 .. sent
    BY <2>1 DEF TypeInv, CallsTyped
  <2>4. CASE Return(s)
    BY <1>r, <2>1, <2>2, <2>3, <2>4 DEF TypeInv, Actors
  <2>5. CASE pc' = [pc EXCEPT ![s] = "body"] /\ UNCHANGED <<mutex, expired>>
    BY <1>0, <1>c, <2>1, <2>2, <2>5 DEF TypeInv, CallsTyped, Inside, Exclusive, Actors
  <2> QED
    BY <2>1, <2>4, <2>5
<1> QED
  BY <1>1, <1>2, <1>3, <1>4, <1>5, <1>6, <1>7, <1>9, <1>10, <1>11, <1>13, <1>14, <1>15
     DEF Next, Read, ReadNil, WriteNil

LEMMA TypesFollow == StreamInv /\ TypeInv => TypeOK
<1> SUFFICES ASSUME StreamInv, TypeInv PROVE TypeOK
  OBVIOUS
<1>1. passed \in 0 .. sent /\ sent \in 0 .. Len(frames)
  <2>1. sent \in Nat /\ passed \in Nat /\ sent \in 0 .. Len(frames)
    BY FramesTyped DEF StreamInv, LineTyped
  <2>2. CASE Rest = <<>>
    BY <2>1, <2>2 DEF StreamInv
  <2>3. CASE Rest # <<>>
    <3>1. 1 \in 1 .. Len(Rest)
      BY <2>3, RestTyped DEF StreamInv
    <3>2. Rest[1].frame = passed + 1 /\ Rest[1].frame \in 1 .. sent
      BY <2>3, <3>1 DEF StreamInv, Coded
    <3> QED
      BY <2>1, <3>2
  <2> QED
    BY <2>2, <2>3
<1>2. \A a \in Actors : pc[a] \in {"read", "header", "body"} <=> mutex = a
  BY DEF TypeInv, CallsTyped, Exclusive, Inside
<1>3. \A r \in Receivers : parse[r].at = "data" => parse[r].left \in 1 .. MaxPdu
  BY DEF TypeInv, ParseTyped
<1>4. masked \subseteq 1 .. sent /\ forged \in BOOLEAN
  BY DEF StreamInv, LineTyped
<1> QED
  BY <1>1, <1>2, <1>3, <1>4 DEF TypeInv, CallsTyped, TypeOK

\* The variables keep their types: whoever holds the mutex is using the port, and no
\* frame is passed that was not sent.
THEOREM SerialTypeCorrect == Spec => []TypeOK
  BY InitStream, NextStream, InitType, NextType, TypesFollow, PTL DEF Spec

-----------------------------------------------------------------------------
(* What is returned, and where readers are.                                *)

\* What has been delivered: frames, in the order they were sent, none of them later than
\* the last one passed, and all of those that no read was cut short in.
Returned == /\ delivered \in Seq(Range(frames)) /\ InOrder /\ NothingElseLost
            /\ \A i \in 1 .. Len(delivered) : Index(delivered[i]) \in 1 .. passed

\* A reader past a START1: the next byte of the stream is the one it waits for, unless
\* the START1 was noise.
Parsing(r) ==
    LET p == parse[r]
        n == Len(p.data)
        x == Rest[1]
    IN  p.at # "first" =>
          /\ Rest # <<>> /\ x.frame = p.frame
          /\ p.at = "second" => /\ p.data = <<>>
                                /\ \/ x.place = 2
                                   \/ x.place = 1 /\ x.frame \in masked
                                   \/ x.place <= 0 /\ x.b # START2
          /\ p.at = "high" => x.place = 3 /\ p.data = <<>>
          /\ p.at = "low" => x.place = 4 /\ p.data = <<>> /\ p.left = Encode(p.frame)[3]
          /\ p.at = "data" => /\ x.place = n + 5 /\ p.left + n = Len(frames[p.frame])
                              /\ \A i \in 1 .. n : p.data[i] = frames[p.frame][i]

\* No reader past a START1: the next byte is noise or starts a frame, or belongs to a frame
\* that is missed.
Between == (\A r \in Receivers : parse[r].at = "first") /\ Rest # <<>> =>
              Rest[1].place <= 1 \/ Rest[1].frame \in Missed

StepInv == Clean => Returned /\ Between /\ \A r \in Receivers : Parsing(r)

LEMMA InitStep == Init => StepInv
<1> SUFFICES ASSUME Init PROVE StepInv
  OBVIOUS
<1>1. Rest = <<>>
  BY EmptySeq, InitStream DEF Init, StreamInv, LineTyped, Rest
<1>2. delivered = <<>> /\ passed = 0 /\ \A r \in Receivers : parse[r].at = "first"
  BY DEF Init, Fresh
<1>3. Returned
  BY <1>2 DEF Returned, InOrder, NothingElseLost, Range
<1> QED
  BY <1>1, <1>2, <1>3 DEF StepInv, Between, Parsing

LEMMA IndexOfFrame ==
  ASSUME frames \in Scripts, NEW k \in 1 .. Len(frames)
  PROVE  Index(frames[k]) = k /\ frames[k] \in Range(frames)
<1>1. DOMAIN frames = 1 .. Len(frames)
  BY FramesTyped
<1>2. \A j \in DOMAIN frames : frames[j] = frames[k] => j = k
  BY <1>1, FramesTyped
<1> QED
  BY <1>1, <1>2 DEF Index, Range

\* A frame is delivered with its last byte.
LEMMA Delivers ==
  ASSUME LineTyped, Returned, NEW k \in 1 .. Len(frames), k = passed + 1,
         delivered' = Append(delivered, frames[k]), passed' = k, UNCHANGED <<frames, hurt, masked>>
  PROVE  Returned'
<1>1. passed \in Nat /\ frames \in Scripts
  BY DEF LineTyped
<1>2. Index(frames[k]) = k /\ frames[k] \in Range(frames)
  BY <1>1, IndexOfFrame
<1> DEFINE n == Len(delivered)
<1>3. delivered \in Seq(Range(frames)) /\ n \in Nat
  BY DEF Returned
<1>4. /\ delivered' \in Seq(Range(frames)) /\ Len(delivered') = n + 1
      /\ \A i \in 1 .. n : delivered'[i] = delivered[i]
      /\ delivered'[n + 1] = frames[k]
  BY <1>2, <1>3
<1>5. DOMAIN delivered = 1 .. n /\ DOMAIN delivered' = 1 .. n + 1
  BY <1>3, <1>4
<1>6. \A d : Index(d)' = Index(d)
  BY DEF Index
<1>7. \A i \in 1 .. n : Index(delivered[i]) \in 1 .. passed
  BY DEF Returned
<1>8. \A i \in 1 .. n + 1 : Index(delivered'[i]) \in 1 .. k
  BY <1>1, <1>2, <1>3, <1>4, <1>7
<1>9. \A i, j \in 1 .. n : i < j => Index(delivered[i]) < Index(delivered[j])
  BY <1>5 DEF Returned, InOrder
<1>10. ASSUME NEW i \in 1 .. n + 1, NEW j \in 1 .. n + 1, i < j
       PROVE  Index(delivered'[i]) < Index(delivered'[j])
  <2>1. i \in 1 .. n
    BY <1>3, <1>10
  <2>2. delivered'[i] = delivered[i] /\ Index(delivered[i]) \in 1 .. passed
    BY <1>4, <1>7, <2>1
  <2>3. CASE j = n + 1
    BY <1>1, <1>2, <1>4, <2>2, <2>3
  <2>4. CASE j # n + 1
    <3>1. j \in 1 .. n
      BY <1>3, <2>4
    <3> QED
      BY <1>4, <1>9, <1>10, <2>1, <3>1
  <2> QED
    BY <2>3, <2>4
<1>11. Range(delivered') = Range(delivered) \cup {frames[k]}
  <2>1. \A i \in 1 .. n : i \in 1 .. n + 1
    BY <1>3
  <2>2. \A i \in 1 .. n + 1 : i \in 1 .. n \/ i = n + 1
    BY <1>3
  <2>3. n + 1 \in 1 .. n + 1
    BY <1>3
  <2>4. /\ Range(delivered) = {delivered[i] : i \in 1 .. n}
        /\ Range(delivered') = {delivered'[i] : i \in 1 .. n + 1}
    BY <1>5 DEF Range
  <2>5. Range(delivered') \subseteq Range(delivered) \cup {frames[k]}
    BY <1>4, <2>2, <2>4
  <2>6. Range(delivered) \cup {frames[k]} \subseteq Range(delivered')
    BY <1>4, <2>1, <2>3, <2>4
  <2> QED
    BY <2>5, <2>6
<1>12. InOrder'
  BY <1>2, <1>5, <1>6, <1>10, <1>11 DEF InOrder, Returned
<1>13. NothingElseLost'
  <2>1. \A j \in 1 .. k : j \in 1 .. passed \/ j = k
    BY <1>1
  <2>2. \A j \in 1 .. passed : frames[j] \in Range(delivered) \/ j \in Missed
    BY DEF Returned, NothingElseLost
  <2> QED
    BY <1>11, <2>1, <2>2 DEF NothingElseLost, Missed
<1> QED
  BY <1>4, <1>6, <1>8, <1>12, <1>13 DEF Returned

\* What is delivered stays so while the bytes of a frame are passed that is missed, or that
\* do not end one.
LEMMA StaysReturned ==
  ASSUME LineTyped, Returned, UNCHANGED <<frames, delivered>>, Missed \subseteq Missed',
         passed' = passed \/ (passed' = passed + 1 /\ passed + 1 \in Missed)
  PROVE  Returned'
<1>1. passed \in Nat
  BY DEF LineTyped
<1>2. \A d : Index(d)' = Index(d)
  BY DEF Index
<1>3. InOrder'
  BY <1>2 DEF InOrder, Returned
<1>4. \A j \in 1 .. passed' : j \in 1 .. passed \/ j \in Missed
  BY <1>1
<1>5. NothingElseLost'
  BY <1>4 DEF NothingElseLost, Returned
<1>6. \A j \in 1 .. passed : j \in 1 .. passed'
  BY <1>1
<1> QED
  BY <1>2, <1>3, <1>5, <1>6 DEF Returned

\* Frames keep their bytes, and a history without a false start never had one.
LEMMA SameFrames ==
  ASSUME UNCHANGED frames
  PROVE  \A k : Encode(k)' = Encode(k)
BY DEF Encode

LEMMA CleanBefore ==
  ASSUME UNCHANGED frames, forged => forged', Missed \subseteq Missed', Clean'
  PROVE  Clean
<1>1. ~forged' /\ \A k \in Missed' : START1 \notin Range(Tail(Encode(k)'))
  BY DEF Clean
<1>2. \A k : Encode(k)' = Encode(k)
  BY SameFrames
<1> QED
  BY <1>1, <1>2, Zenon DEF Clean

\* Only the holder of the mutex is inside a frame.
LEMMA OneReader ==
  ASSUME TypeInv, NEW r \in Receivers, pc[r] = "read"
  PROVE  \A t \in Receivers \ {r} : parse[t].at = "first"
BY DEF TypeInv, ParseTyped, CallsTyped, Exclusive, Inside, Actors

-----------------------------------------------------------------------------
(* A reader takes a byte.                                                  *)

\* What is known of the next byte when a reader takes it.
LEMMA NextByte ==
  ASSUME StreamInv, TookByte
  PROVE  LET x == Rest[1]
             k == x.frame
         IN  /\ Rest # <<>> /\ x = Head(wire) /\ k \in 1 .. Len(frames) /\ k = passed + 1
             /\ x.place \in Int /\ x.place <= Long(k) /\ Len(frames[k]) \in 0 .. MaxPdu
             /\ x.place > 0 => x.b = Encode(k)[x.place]
             /\ x.place = 0 /\ x.b = START1 => k \in masked
             /\ x.place < Long(k) => /\ passed' = passed /\ Rest' # <<>>
                                     /\ Rest'[1].frame = k /\ Rest'[1].place = x.place + 1
                                     /\ x.place < 0 /\ x.b = START1 => forged \/ Rest'[1].b # START2
             /\ x.place = Long(k) => /\ passed' = k
                                     /\ Rest' # <<>> => Rest'[1].place <= 1
<1> PICK x : x = Rest[1]
  OBVIOUS
<1> DEFINE k == x.frame
<1>1. /\ Rest # <<>> /\ x = Head(wire) /\ Coded(x) /\ k = passed + 1
      /\ Rest' # <<>> => Follows(x, Rest'[1])
      /\ Rest' = <<>> => Ends(x)
  BY StreamShrinks
<1>2. k \in 1 .. Len(frames) /\ Long(k) \in Nat /\ Len(frames[k]) \in 0 .. MaxPdu
      /\ x.place \in Int /\ x.place <= Long(k) /\ (Ends(x) <=> x.place = Long(k))
  <2>1. k \in 1 .. Len(frames)
    BY <1>1, FramesTyped DEF Coded, StreamInv, LineTyped
  <2> QED
    BY <1>1, <2>1, FramesTyped DEF Coded, StreamInv, LineTyped, Ends, Long
<1>3. passed' = IF Ends(x) THEN k ELSE passed
  BY <1>1 DEF TookByte
<1>4. x.place < Long(k) => ~Ends(x)
  BY <1>2
<1>5. /\ x.place > 0 => x.b = Encode(k)[x.place]
      /\ x.place = 0 /\ x.b = START1 => k \in masked
  BY <1>1 DEF Coded
<1>6. ASSUME x.place < Long(k)
      PROVE  /\ passed' = passed /\ Rest' # <<>> /\ Rest'[1].frame = k /\ Rest'[1].place = x.place + 1
             /\ x.place < 0 /\ x.b = START1 => forged \/ Rest'[1].b # START2
  BY <1>1, <1>3, <1>4, <1>6 DEF Follows
<1>7. ASSUME x.place = Long(k)
      PROVE  passed' = k /\ (Rest' # <<>> => Rest'[1].place <= 1)
  BY <1>1, <1>2, <1>3, <1>7 DEF Follows
<1> QED
  BY <1>1, <1>2, <1>5, <1>6, <1>7

\* Inside a frame that is missed, no byte is taken for a start.
LEMMA NoFalseStart ==
  ASSUME Clean, StreamInv, Rest # <<>>, Coded(Rest[1]), Rest[1].place > 1,
         Rest[1].frame \in Missed
  PROVE  Rest[1].b # START1
<1> PICK x : x = Rest[1]
  OBVIOUS
<1> DEFINE k == x.frame
           f == Encode(k)
<1>1. k \in 1 .. Len(frames) /\ x.b = f[x.place] /\ x.place \in 2 .. Long(k)
  BY FramesTyped DEF Coded, StreamInv, LineTyped
<1>2. f \in Seq(0 .. 255) /\ Len(f) = Long(k) /\ Long(k) \in Nat
  BY <1>1, EncodeShape, FramesTyped DEF StreamInv, LineTyped
<1>3. START1 \notin Range(Tail(f))
  BY DEF Clean
<1> HIDE DEF f
<1>4. /\ Tail(f) \in Seq(0 .. 255) /\ Len(Tail(f)) = Len(f) - 1
      /\ \A i \in 1 .. Len(f) - 1 : Tail(f)[i] = f[i + 1]
  <2>1. f # <<>>
    BY <1>1, <1>2
  <2> QED
    BY <1>2, <2>1
<1>5. x.place - 1 \in DOMAIN Tail(f) /\ Tail(f)[x.place - 1] = x.b
  BY <1>1, <1>2, <1>4
<1> QED
  BY <1>3, <1>5 DEF Range

\* A byte moves from those left to those read.
LEMMA ByteMoves ==
  \A n, left \in Nat : (left - 1) + (n + 1) = left + n
OBVIOUS

LEMMA ByteKeepsStep ==
  ASSUME StreamInv, TypeInv, StepInv, NEW r \in Receivers, ReadByte(r)
  PROVE  StepInv'
<1> SUFFICES ASSUME Clean' PROVE (Returned /\ Between /\ \A t \in Receivers : Parsing(t))'
  BY DEF StepInv
<1>1. TookByte /\ UNCHANGED <<frames, hurt, masked, forged>> /\ pc[r] = "read"
  BY Zenon DEF ReadByte, TookByte
<1>2. Clean /\ UNCHANGED Missed /\ ~forged
  <2>1. UNCHANGED Missed
    BY <1>1 DEF Missed
  <2>2. Clean
    BY <1>1, <2>1, CleanBefore
  <2> QED
    BY <2>1, <2>2 DEF Clean
<1>3. Returned /\ Between /\ Parsing(r) /\ LineTyped
  BY <1>2 DEF StepInv, StreamInv
<1> PICK x : x = Rest[1]
  OBVIOUS
<1> PICK p : p = parse[r]
  OBVIOUS
<1> PICK k : k = x.frame
  OBVIOUS
<1>4. /\ Rest # <<>> /\ x = Head(wire) /\ k \in 1 .. Len(frames) /\ k = passed + 1
      /\ x.place \in Int /\ x.place <= Long(k) /\ Len(frames[k]) \in 0 .. MaxPdu
      /\ x.place > 0 => x.b = Encode(k)[x.place]
      /\ x.place = 0 /\ x.b = START1 => k \in masked
      /\ x.place < Long(k) => /\ passed' = passed /\ Rest' # <<>>
                              /\ Rest'[1].frame = k /\ Rest'[1].place = x.place + 1
                              /\ x.place < 0 /\ x.b = START1 => forged \/ Rest'[1].b # START2
      /\ x.place = Long(k) => /\ passed' = k
                              /\ Rest' # <<>> => Rest'[1].place <= 1
  BY <1>1, NextByte
<1>5. /\ frames \in Scripts /\ frames[k] \in Seq(0 .. 255) /\ Len(frames[k]) \in Nat
      /\ Long(k) = Len(frames[k]) + 4 /\ MaxPdu \in Nat /\ passed \in Nat
  BY <1>3, <1>4, FramesTyped, SerialAssumption DEF LineTyped, Long
<1>e. /\ Encode(k)[1] = START1 /\ Encode(k)[2] = START2
      /\ Encode(k)[3] \in 0 .. 255 /\ Encode(k)[4] \in 0 .. 255
      /\ 256 * Encode(k)[3] + Encode(k)[4] = Len(frames[k])
      /\ \A i \in 1 .. Len(frames[k]) : Encode(k)[i + 4] = frames[k][i]
  BY <1>4, <1>5, EncodeShape, ZenonT(30)
<1>s. \A j : Encode(j)' = Encode(j)
  BY <1>1, SameFrames
<1>6. /\ p \in Parses
      /\ p.at = "first" => p = Fresh
      /\ p.at = "data" => p.left \in 1 .. MaxPdu
  BY DEF TypeInv, ParseTyped
<1>7. /\ \A t \in Receivers \ {r} : parse[t].at = "first"
      /\ parse \in [Receivers -> Parses]
  BY <1>1, OneReader DEF TypeInv, ParseTyped
<1>m. PICK m : m = 256 * p.left + x.b
  OBVIOUS
<1>8. /\ \/ p.at = "first" /\ x.b = START1
               /\ Goes(r, [p EXCEPT !.at = "second", !.frame = k])
         \/ p.at = "second" /\ x.b = START2 /\ Goes(r, [p EXCEPT !.at = "high"])
         \/ p.at = "high" /\ Goes(r, [p EXCEPT !.at = "low", !.left = x.b])
         \/ p.at = "low" /\ m <= MaxPdu /\ m > 0
               /\ Goes(r, [p EXCEPT !.at = "data", !.left = m])
         \/ p.at = "low" /\ m = 0 /\ Deliver(r, <<>>)
         \/ p.at = "data" /\ p.left > 1
               /\ Goes(r, [p EXCEPT !.data = Append(@, x.b), !.left = @ - 1])
         \/ p.at = "data" /\ p.left = 1 /\ Deliver(r, Append(p.data, x.b))
         \/ /\ \/ p.at = "first" /\ x.b # START1
               \/ p.at = "second" /\ x.b # START2
               \/ p.at = "low" /\ ~(m <= MaxPdu)
            /\ Goes(r, Fresh)
  BY <1>4, <1>6, <1>m DEF ReadByte, Fits
\* Three ways on: inside the frame, past a byte of no frame, or at the frame's end.
<1>9. ASSUME NEW q \in Parses, q.at # "first",
             Goes(r, q), x.place < Long(k), q.frame = k,
             q.at = "second" => /\ q.data = <<>>
                                /\ \/ x.place = 1
                                   \/ x.place = 0 /\ k \in masked
                                   \/ x.place < 0 /\ Rest'[1].b # START2,
             q.at = "high" => x.place = 2 /\ q.data = <<>>,
             q.at = "low" => x.place = 3 /\ q.data = <<>> /\ q.left = Encode(k)[3],
             q.at = "data" => /\ x.place = Len(q.data) + 4 /\ q.left + Len(q.data) = Len(frames[k])
                              /\ \A i \in 1 .. Len(q.data) : q.data[i] = frames[k][i]
      PROVE  (Returned /\ Between /\ \A t \in Receivers : Parsing(t))'
  <2>1. /\ parse'[r] = q /\ UNCHANGED delivered /\ \A t \in Receivers \ {r} : parse'[t].at = "first"
    BY <1>7, <1>9 DEF Goes
  <2>2. Returned'
    BY <1>1, <1>2, <1>3, <1>4, <1>9, <2>1, StaysReturned
  <2>3. Between'
    BY <1>9, <2>1 DEF Between
  <2>4. Rest' # <<>> /\ Rest'[1].frame = k /\ Rest'[1].place = x.place + 1
    BY <1>4, <1>9
  <2>5. Parsing(r)'
    <3>1. q.at = "second" => \/ x.place + 1 = 2
                             \/ x.place + 1 = 1 /\ k \in masked
                             \/ x.place + 1 <= 0 /\ Rest'[1].b # START2
      BY <1>4, <1>9
    <3>2. q.at = "high" => x.place + 1 = 3
      BY <1>9
    <3>3. q.at = "low" => x.place + 1 = 4
      BY <1>9
    <3>4. q.at = "data" => x.place + 1 = Len(q.data) + 5
      <4>1. Len(q.data) \in Nat
        BY <1>9 DEF Parses
      <4> QED
        BY <1>9, <4>1
    <3> QED
      BY <1>1, <1>s, <1>9, <2>1, <2>4, <3>1, <3>2, <3>3, <3>4 DEF Parsing
  <2>6. \A t \in Receivers \ {r} : Parsing(t)'
    BY <2>1 DEF Parsing
  <2> QED
    BY <2>2, <2>3, <2>5, <2>6
<1>10. ASSUME Goes(r, Fresh), x.place <= 0 \/ (k \in Missed /\ x.place > 0)
       PROVE  (Returned /\ Between /\ \A t \in Receivers : Parsing(t))'
  <2>1. UNCHANGED delivered /\ \A t \in Receivers : parse'[t].at = "first"
    BY <1>7, <1>10 DEF Goes, Fresh
  <2>2. passed' = passed \/ (passed' = passed + 1 /\ passed + 1 \in Missed)
    BY <1>4, <1>5, <1>10
  <2>3. Returned'
    BY <1>1, <1>2, <1>3, <2>1, <2>2, StaysReturned
  <2>4. Rest' # <<>> => Rest'[1].place <= 1 \/ Rest'[1].frame \in Missed
    BY <1>4, <1>5, <1>10
  <2>5. Between'
    BY <1>2, <2>4 DEF Between
  <2> QED
    BY <2>1, <2>3, <2>5 DEF Parsing
<1>11. ASSUME Deliver(r, frames[k]), x.place = Long(k)
       PROVE  (Returned /\ Between /\ \A t \in Receivers : Parsing(t))'
  <2>1. delivered' = Append(delivered, frames[k]) /\ \A t \in Receivers : parse'[t].at = "first"
    BY <1>7, <1>11 DEF Deliver, Fresh
  <2>2. Returned'
    BY <1>1, <1>3, <1>4, <1>11, <2>1, Delivers
  <2>3. Rest' # <<>> => Rest'[1].place <= 1
    BY <1>4, <1>11
  <2>4. Between'
    BY <2>3 DEF Between
  <2> QED
    BY <2>1, <2>2, <2>4 DEF Parsing
<1>12. CASE p.at = "first"
  <2>1. \A t \in Receivers : parse[t].at = "first"
    BY <1>7, <1>12
  <2>2. x.place <= 1 \/ k \in Missed
    BY <1>3, <1>4, <2>1 DEF Between
  <2>p. p.data = <<>> /\ k \in Nat
    BY <1>4, <1>5, <1>6, <1>12 DEF Fresh
  <2>3. CASE x.b = START1
    <3>1. x.place <= 1 /\ x.place < Long(k)
      <4>1. ~(x.place > 1)
        BY <1>1, <1>2, <1>4, <2>2, <2>3, NoFalseStart, StreamShrinks
      <4> QED
        BY <1>4, <1>5, <4>1
    <3> DEFINE q == [p EXCEPT !.at = "second", !.frame = k]
    <3>2. Goes(r, q)
      BY <1>8, <1>12, <2>3
    <3>3. q \in Parses /\ q.at = "second" /\ q.frame = k /\ q.data = <<>>
      BY <1>6, <2>p, ZenonT(30) DEF Parses
    <3> HIDE DEF q
    <3>4. \/ x.place = 1
          \/ x.place = 0 /\ k \in masked
          \/ x.place < 0 /\ Rest'[1].b # START2
      BY <1>2, <1>4, <2>3, <3>1
    <3>5. q.at # "first" /\ q.at # "high" /\ q.at # "low" /\ q.at # "data"
      BY <3>3
    <3> QED
      BY <1>9, <3>1, <3>2, <3>3, <3>4, <3>5
  <2>4. CASE x.b # START1
    <3>1. x.place # 1
      <4>1. Encode(k)[1] # x.b
        BY <1>e, <2>4
      <4>2. x.place = 1 => x.b = Encode(k)[1]
        BY <1>4
      <4> QED
        BY <4>1, <4>2
    <3>2. Goes(r, Fresh)
      BY <1>8, <1>12, <2>4
    <3>3. x.place <= 0 \/ (k \in Missed /\ x.place > 0)
      BY <1>4, <2>2, <3>1
    <3> QED
      BY <1>10, <3>2, <3>3
  <2> QED
    BY <2>3, <2>4
<1>13. CASE p.at = "second"
  <2>1. /\ p.data = <<>> /\ p.frame = k
        /\ \/ x.place = 2
           \/ x.place = 1 /\ k \in masked
           \/ x.place <= 0 /\ x.b # START2
    BY <1>3, <1>13 DEF Parsing
  <2>2. CASE x.place = 2
    <3>1. x.b = START2 /\ x.place < Long(k)
      BY <1>4, <1>5, <1>e, <2>2
    <3> DEFINE q == [p EXCEPT !.at = "high"]
    <3>2. Goes(r, q)
      BY <1>8, <1>13, <3>1
    <3>3. q \in Parses /\ q.at = "high" /\ q.frame = k /\ q.data = <<>>
      BY <1>6, <2>1 DEF Parses
    <3> HIDE DEF q
    <3>4. q.at # "first" /\ q.at # "second" /\ q.at # "low" /\ q.at # "data"
      BY <3>3
    <3> QED
      BY <1>9, <2>2, <3>1, <3>2, <3>3, <3>4
  \* The START1 was noise, and this byte starts over.
  <2>3. CASE x.place # 2
    <3>1. x.b # START2 /\ (x.place <= 0 \/ (k \in Missed /\ x.place > 0))
      BY <1>4, <1>e, <2>1, <2>3 DEF Missed, START1, START2
    <3>2. Goes(r, Fresh)
      BY <1>8, <1>13, <3>1
    <3> QED
      BY <1>10, <3>1, <3>2
  <2> QED
    BY <2>2, <2>3
<1>h. CASE p.at = "high"
  <2>1. x.place = 3 /\ p.data = <<>> /\ p.frame = k
    BY <1>3, <1>h DEF Parsing
  <2>2. x.b = Encode(k)[3] /\ x.b \in 0 .. 255 /\ x.place < Long(k)
    <3>1. x.b = Encode(k)[3] /\ x.place < Long(k)
      BY <1>4, <1>5, <2>1
    <3> QED
      BY <1>e, <3>1
  <2> DEFINE q == [p EXCEPT !.at = "low", !.left = x.b]
  <2>3. Goes(r, q)
    <3>1. p.at # "first" /\ p.at # "second" /\ p.at # "low" /\ p.at # "data"
      BY <1>h
    <3> HIDE DEF q
    <3>2. q = [p EXCEPT !.at = "low", !.left = x.b]
      BY DEF q
    <3> QED
      BY <1>8, <3>1, <3>2, Zenon
  <2>4. q \in Parses /\ q.at = "low" /\ q.frame = k /\ q.data = <<>> /\ q.left = x.b
    <3>1. x.b \in Nat
      BY <2>2
    <3> QED
      BY <1>6, <2>1, <3>1, GoesOn, ZenonT(30)
  <2> HIDE DEF q
  <2>5. q.at # "first" /\ q.at # "second" /\ q.at # "high" /\ q.at # "data"
    BY <2>4
  <2> QED
    BY <1>9, <2>1, <2>2, <2>3, <2>4, <2>5
<1>14. CASE p.at = "low"
  <2>1. x.place = 4 /\ p.data = <<>> /\ p.frame = k /\ p.left = Encode(k)[3]
    BY <1>3, <1>14 DEF Parsing
  <2>2. m = Len(frames[k]) /\ m <= MaxPdu /\ m \in Nat
    <3>1. x.b = Encode(k)[4]
      BY <1>4, <2>1
    <3>2. m = Len(frames[k])
      BY <1>e, <1>m, <2>1, <3>1, Zenon
    <3> QED
      BY <1>4, <1>5, <3>2
  <2>3. CASE Len(frames[k]) > 0
    <3> DEFINE q == [p EXCEPT !.at = "data", !.left = m]
    <3>1. Goes(r, q)
      BY <1>8, <1>14, <2>2, <2>3
    <3>2. q \in Parses /\ q.at = "data" /\ q.frame = k /\ q.data = <<>> /\ q.left = Len(frames[k])
      BY <1>6, <2>1, <2>2 DEF Parses
    <3> HIDE DEF q
    <3>3. x.place < Long(k) /\ q.at # "first" /\ q.at # "second" /\ q.at # "high" /\ q.at # "low"
      BY <1>5, <2>1, <2>3, <3>2
    <3>4. Len(q.data) = 0 /\ q.left + 0 = Len(frames[k]) /\ x.place = 0 + 4
      BY <1>5, <2>1, <3>2
    <3> QED
      BY <1>9, <3>1, <3>2, <3>3, <3>4
  <2>4. CASE Len(frames[k]) = 0
    <3>1. frames[k] = <<>> /\ x.place = Long(k)
      BY <1>5, <2>1, <2>4, EmptySeq
    <3>2. Deliver(r, <<>>)
      BY <1>8, <1>14, <2>2, <2>4
    <3> QED
      BY <1>11, <3>1, <3>2
  <2> QED
    BY <1>5, <2>3, <2>4
<1>15. CASE p.at = "data"
  <2> PICK n : n = Len(p.data)
    OBVIOUS
  <2>1. /\ x.place = n + 5 /\ p.left + n = Len(frames[k]) /\ p.frame = k
        /\ \A i \in 1 .. n : p.data[i] = frames[k][i]
    BY <1>3, <1>15 DEF Parsing
  <2>2. n \in Nat /\ p.data \in Seq(0 .. 255) /\ p.left \in 1 .. MaxPdu /\ n + 1 \in 1 .. Len(frames[k])
    <3>1. n \in Nat /\ p.data \in Seq(0 .. 255) /\ p.left \in 1 .. MaxPdu
      BY <1>6, <1>15 DEF Parses
    <3> QED
      BY <1>5, <2>1, <3>1, SMTT(30)
  <2>3. x.b = frames[k][n + 1] /\ x.b \in 0 .. 255
    <3>1. x.place > 0 /\ x.place = (n + 1) + 4
      BY <2>1, <2>2
    <3>2. frames[k][n + 1] \in 0 .. 255
      BY <1>5, <2>2, ElementOfSeq
    <3> QED
      BY <1>4, <1>e, <2>2, <3>1, <3>2, ZenonT(30)
  <2> PICK d : d = Append(p.data, x.b)
    OBVIOUS
  <2>4. /\ d \in Seq(0 .. 255) /\ Len(d) = n + 1 /\ d[n + 1] = x.b
        /\ \A i \in 1 .. n : d[i] = p.data[i]
    <3> PICK a : a = p.data
      OBVIOUS
    <3> PICK b : b = x.b
      OBVIOUS
    <3>1. a \in Seq(0 .. 255) /\ b \in 0 .. 255 /\ Len(a) = n /\ d = Append(a, b)
      BY <2>2, <2>3
    <3>2. /\ Append(a, b) \in Seq(0 .. 255) /\ Len(Append(a, b)) = Len(a) + 1
          /\ \A i \in 1 .. Len(a) : Append(a, b)[i] = a[i]
          /\ Append(a, b)[Len(a) + 1] = b
      BY <3>1, AppendProperties
    <3> QED
      BY <3>1, <3>2
  <2>b. /\ p.left > 1 => /\ n + 5 < Long(k) /\ n + 5 = (n + 1) + 4
                          /\ (p.left - 1) + (n + 1) = Len(frames[k])
        /\ p.left = 1 => n + 1 = Len(frames[k]) /\ n + 5 = Long(k)
    <3>1. p.left \in Nat
      BY <2>2
    <3> PICK left : left = p.left
      OBVIOUS
    <3> PICK len : len = Len(frames[k])
      OBVIOUS
    <3>2. left \in Nat /\ n \in Nat /\ len \in Nat /\ left + n = len
      BY <1>5, <2>1, <2>2, <3>1
    <3>3. left > 1 => n + 5 < len + 4 /\ n + 5 = (n + 1) + 4
      BY <3>2, SMTT(30)
    <3>5. (left - 1) + (n + 1) = len
      BY <3>2, ByteMoves, Zenon
    <3>6. ASSUME left = 1 PROVE n + 1 = len /\ n + 5 = len + 4
      <4>1. len = 1 + n
        BY <3>2, <3>6, Zenon
      <4>2. 1 + n = n + 1 /\ n + 5 = (n + 1) + 4
        BY <3>2
      <4> QED
        BY <4>1, <4>2, Zenon
    <3>4. Long(k) = len + 4
      BY <1>5
    <3> QED
      BY <3>3, <3>4, <3>5, <3>6
  <2>5. \A i \in 1 .. n + 1 : d[i] = frames[k][i]
    <3> SUFFICES ASSUME NEW i \in 1 .. n + 1 PROVE d[i] = frames[k][i]
      OBVIOUS
    <3>1. CASE i = n + 1
      BY <2>3, <2>4, <3>1
    <3>2. CASE i # n + 1
      <4>1. i \in 1 .. n
        BY <2>2, <3>2
      <4>2. d[i] = p.data[i]
        BY <2>4, <4>1
      <4> QED
        BY <2>1, <4>1, <4>2
    <3> QED
      BY <3>1, <3>2
  <2>6. CASE p.left > 1
    <3> DEFINE q == [p EXCEPT !.data = Append(@, x.b), !.left = @ - 1]
    <3>1. Goes(r, q)
      BY <1>8, <1>15, <2>6
    <3>2. p.left - 1 \in Nat
      BY <1>5, <2>2
    <3>3. /\ q \in Parses
          /\ q.at = "data" /\ q.frame = k /\ q.data = d /\ q.left = p.left - 1
      <4>1. q = [p EXCEPT !.data = d, !.left = p.left - 1]
        OBVIOUS
      <4> HIDE DEF q
      <4>2. p \in Parses
        BY <1>6
      <4>3. p.at = "data" /\ p.frame = k
        BY <1>15, <2>1
      <4>4. d \in Seq(0 .. 255)
        BY <2>4
      <4>5. q.at = p.at /\ q.frame = p.frame /\ q.data = d /\ q.left = p.left - 1
        BY <4>1, <4>2 DEF Parses
      <4>6. q = [at |-> q.at, left |-> q.left, data |-> q.data, frame |-> q.frame]
        BY <4>1, <4>2 DEF Parses
      <4>7. p.frame \in Nat
        BY <4>2 DEF Parses
      <4>8. q.at = "data" /\ q.left \in Nat /\ q.data \in Seq(0 .. 255) /\ q.frame \in Nat
        BY <3>2, <4>3, <4>4, <4>5, <4>7
      <4>9. q \in Parses
        BY <4>6, <4>8 DEF Parses
      <4> QED
        BY <4>3, <4>5, <4>9
    <3> HIDE DEF q
    <3>4. x.place < Long(k) /\ x.place = Len(q.data) + 4 /\ q.left + Len(q.data) = Len(frames[k])
      <4>1. Len(q.data) = n + 1 /\ q.left = p.left - 1 /\ p.left \in Nat
        BY <2>2, <2>4, <3>3
      <4> QED
        BY <2>1, <2>6, <2>b, <4>1
    <3>5. q.at # "first" /\ q.at # "second" /\ q.at # "high" /\ q.at # "low" /\ \A i \in 1 .. Len(q.data) : q.data[i] = frames[k][i]
      BY <2>4, <2>5, <3>3
    <3> QED
      BY <1>9, <3>1, <3>3, <3>4, <3>5
  <2>7. CASE p.left = 1
    <3>1. Deliver(r, d)
      BY <1>8, <1>15, <2>7
    <3>2. Len(d) = Len(frames[k]) /\ x.place = Long(k)
      BY <2>1, <2>4, <2>7, <2>b
    <3>3. d = frames[k]
      <4>1. \A i \in 1 .. Len(d) : d[i] = frames[k][i]
        BY <2>4, <2>5
      <4> QED
        BY <1>5, <2>4, <3>2, <4>1, SeqEqual
    <3> QED
      BY <1>11, <3>1, <3>2, <3>3
  <2> QED
    BY <2>2, <2>6, <2>7
<1> QED
  BY <1>6, <1>12, <1>13, <1>h, <1>14, <1>15 DEF Parses

-----------------------------------------------------------------------------
(* Readers stay in step.                                                   *)

\* A read is cut short: what is left of its frame is no frame's start.
LEMMA AbandonKeepsStep ==
  ASSUME StreamInv, TypeInv, StepInv, NEW r \in Receivers, pc[r] = "read", Abandon(r),
         Untouched, UNCHANGED delivered
  PROVE  StepInv'
<1> SUFFICES ASSUME Clean' PROVE (Returned /\ Between /\ \A t \in Receivers : Parsing(t))'
  BY DEF StepInv
<1>1. /\ Missed \subseteq Missed' /\ UNCHANGED <<frames, passed, Rest>>
      /\ \A t \in Receivers : parse'[t].at = "first"
  <2>1. \A t \in Receivers \ {r} : parse[t].at = "first"
    BY OneReader
  <2> QED
    BY <2>1 DEF Abandon, Untouched, Rest, TypeInv, ParseTyped, Fresh, Missed
<1>2. Clean
  BY <1>1, CleanBefore DEF Untouched
<1>3. Returned /\ Between /\ Parsing(r) /\ LineTyped
  BY <1>2 DEF StepInv, StreamInv
<1>4. Returned'
  BY <1>1, <1>3, StaysReturned
<1>5. Between'
  <2>1. CASE parse[r].at = "first"
    <3>1. \A t \in Receivers : parse[t].at = "first"
      BY <2>1, OneReader
    <3> QED
      BY <1>1, <1>3, <3>1 DEF Between
  <2>2. CASE parse[r].at # "first"
    BY <1>1, <1>3, <2>2 DEF Between, Parsing, Abandon, Missed
  <2> QED
    BY <2>1, <2>2
<1> QED
  BY <1>1, <1>4, <1>5 DEF Parsing

\* The stream grows behind what the readers wait for.
LEMMA RadioKeepsStep ==
  ASSUME StreamInv, StepInv, Transmit \/ Resume, UNCHANGED <<frames, parse, hist>>
  PROVE  StepInv'
<1> SUFFICES ASSUME Clean' PROVE (Returned /\ Between /\ \A t \in Receivers : Parsing(t))'
  BY DEF StepInv
<1>1. /\ UNCHANGED <<frames, parse, delivered, hurt, passed>>
      /\ masked \subseteq masked' /\ (forged => forged') /\ Missed \subseteq Missed'
  <2>1. CASE Transmit
    <3>1. PICK noise \in Noise : /\ masked' = IF Masks(noise) THEN masked \cup {sent + 1} ELSE masked
                               /\ forged' = (forged \/ Forges(noise))
      BY <2>1 DEF Transmit
    <3>2. masked \subseteq masked' /\ (forged => forged')
      BY <3>1
    <3> QED
      BY <3>2 DEF hist, Missed
  <2>2. CASE Resume
    BY <2>2 DEF Resume, hist, Missed
  <2> QED
    BY <2>1, <2>2
<1>e. \A k : Encode(k)' = Encode(k)
  BY <1>1, SameFrames
<1>2. Returned /\ Between /\ (\A t \in Receivers : Parsing(t)) /\ LineTyped
  <2>1. Clean
    BY <1>1, CleanBefore
  <2> QED
    BY <2>1 DEF StepInv, StreamInv
<1>3. /\ Rest # <<>> => Rest' # <<>> /\ Rest'[1] = Rest[1]
      /\ Rest = <<>> /\ Rest' # <<>> => Rest'[1].place <= 1
  BY <1>1, StreamGrows, StreamResumes
<1>4. Returned'
  BY <1>1, <1>2, StaysReturned
<1>5. Between'
  BY <1>1, <1>2, <1>3 DEF Between
<1>6. \A t \in Receivers : Parsing(t)'
  BY <1>1, <1>e, <1>2, <1>3 DEF Parsing
<1> QED
  BY <1>4, <1>5, <1>6

LEMMA NextStep == StreamInv /\ TypeInv /\ StepInv /\ [Next]_vars => StepInv'
<1> SUFFICES ASSUME StreamInv, TypeInv, StepInv, [Next]_vars PROVE StepInv'
  OBVIOUS
\* Most steps touch neither the stream nor a reader.
<1>k. UNCHANGED <<parse, hist>> /\ Untouched => StepInv'
  <2> SUFFICES ASSUME UNCHANGED <<parse, hist>>, Untouched PROVE StepInv'
    OBVIOUS
  <2>1. UNCHANGED <<parse, delivered, hurt, passed, frames, masked, forged, Rest, Missed>>
    BY DEF hist, Untouched, Rest, Missed
  <2> QED
    <3>1. Clean' => Clean
      BY <2>1, CleanBefore
    <3>2. Between => Between'
      BY <2>1 DEF Between
    <3>3. \A r \in Receivers : Parsing(r) => Parsing(r)'
      BY <2>1, SameFrames DEF Parsing
    <3>4. Returned => Returned'
      BY <2>1, StaysReturned DEF StreamInv
    <3> QED
      BY <3>1, <3>2, <3>3, <3>4 DEF StepInv
<1>1. CASE UNCHANGED vars
  BY <1>1, <1>k DEF vars, line, calls, hist, Untouched
<1>2. CASE Radio
  BY <1>2, RadioKeepsStep DEF Radio, calls
<1>3. CASE Unplug \/ Cancel \/ Close
  BY <1>3, <1>k DEF Unplug, Cancel, Close, line, calls, hist, Untouched
<1>4. ASSUME NEW a \in Actors, Expire(a) PROVE StepInv'
  BY <1>4, <1>k DEF Expire, hist, Untouched
<1>5. ASSUME NEW r \in Receivers, RecvCall(r) \/ RecvLock(r) PROVE StepInv'
  BY <1>5, <1>k DEF RecvCall, RecvLock, line, hist, Untouched
<1>6. ASSUME NEW r \in Receivers, ReadByte(r) PROVE StepInv'
  BY <1>6, ByteKeepsStep
<1>7. ASSUME NEW r \in Receivers, ReadTimeout(r) \/ ReadFails(r) PROVE StepInv'
  <2>1. pc[r] = "read" /\ Abandon(r) /\ UNCHANGED <<line, delivered>> /\ passed' = passed
    BY <1>7 DEF ReadTimeout, ReadFails
  <2> QED
    BY <2>1, AbandonKeepsStep DEF line, Untouched
<1>8. CASE Panic
  BY <1>8, <1>k DEF Panic, line, calls, hist, Untouched
<1>9. ASSUME NEW s \in Senders, SendCall(s) \/ SendLock(s) \/ Write(s) PROVE StepInv'
  BY <1>9, <1>k DEF SendCall, SendLock, Write, line, hist, Untouched
<1> QED
  BY <1>1, <1>2, <1>3, <1>4, <1>5, <1>6, <1>7, <1>8, <1>9 DEF Next, Read, ReadNil, WriteNil

\* Receivers get the radio's frames each once and in order, and lose none but those a read
\* was cut short in and those right behind a noise byte 0x94: whatever the bytes of noise
\* and of the payloads, as long as no noise spells 0x94 0xc3 and no frame that is missed
\* has a 0x94 after its first byte (readFrame, serial.go:68-105).
THEOREM ReadersStayInStep == Spec => []InStep
<1>1. StepInv => InStep
  BY DEF StepInv, Returned, InStep
<1> QED
  BY InitStream, NextStream, InitType, NextType, InitStep, NextStep, <1>1, PTL DEF Spec
=============================================================================
