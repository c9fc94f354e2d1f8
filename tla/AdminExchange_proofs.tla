------------------------ MODULE AdminExchange_proofs ------------------------
(***************************************************************************)
(* Proofs about AdminExchange, for any number of packets, any node         *)
(* numbers, any buffer and any chatter on the mesh.                        *)
(***************************************************************************)
EXTENDS AdminExchange, TLAPS

\* The frame at place k answers packet i.
AnswerAt(k, i) == inbox[k].kind \in {"ack", "nak"} /\ inbox[k].req = i
Unread(i)      == \E k \in DOMAIN inbox : AnswerAt(k, i)

\* Packets are taken once and in the order they were sent.
Line ==
    /\ \A k \in DOMAIN rx : /\ rx[k].id <= cur /\ rx[k].id \notin taken
                            /\ pc = "send" => rx[k].id < cur
                            /\ \A j \in DOMAIN rx : j # k => rx[j].id # rx[k].id
    /\ \A i \in taken : i <= cur /\ (pc = "send" => i < cur)

\* At most one answer to a packet is on the way, and it says what happened.
Replies ==
    /\ rejected \subseteq taken
    /\ \A k \in DOMAIN inbox : \A i \in 0 .. LastPacket :
         AnswerAt(k, i) => /\ i \in taken
                           /\ inbox[k].kind = "nak" <=> i \in rejected
                           /\ \A j \in DOMAIN inbox : j # k => ~AnswerAt(j, i)

\* The answer of a packet whose wait did not run out has been read.
Answered(i) == i \in taken /\ ~Unread(i)
Waits ==
    /\ \A i \in 1 .. cur - 1 : i \in timedOut \/ Answered(i)
    /\ pc = "drain" => Answered(cur)

ExchangeInv == TypeOK /\ Line /\ Replies /\ Waits /\ Blame

-----------------------------------------------------------------------------
(* Sequences.                                                              *)

LEMMA TailFacts ==
    ASSUME NEW S, NEW s \in Seq(S), s # <<>>
    PROVE  /\ Tail(s) \in Seq(S) /\ 1 \in DOMAIN s /\ Head(s) = s[1] /\ s[1] \in S
           /\ \A k \in DOMAIN Tail(s) : k + 1 \in DOMAIN s /\ k + 1 # 1 /\ Tail(s)[k] = s[k + 1]
           /\ \A k \in DOMAIN s : k = 1 \/ (k - 1 \in DOMAIN Tail(s) /\ Tail(s)[k - 1] = s[k])
  OBVIOUS

LEMMA AppendFacts ==
    ASSUME NEW S, NEW s \in Seq(S), NEW x \in S
    PROVE  /\ Append(s, x) \in Seq(S) /\ Len(s) + 1 \in DOMAIN Append(s, x)
           /\ Append(s, x)[Len(s) + 1] = x
           /\ \A k \in DOMAIN s : k \in DOMAIN Append(s, x) /\ Append(s, x)[k] = s[k]
           /\ \A k \in DOMAIN Append(s, x) : k \in DOMAIN s \/ k = Len(s) + 1
           /\ Len(s) + 1 \notin DOMAIN s
  OBVIOUS

LEMMA ShortSequences ==
    ASSUME NEW S
    PROVE  <<>> \in Seq(S) /\ \A x \in S : <<x>> \in Seq(S) /\ \A y \in S : <<x, y>> \in Seq(S)
  OBVIOUS

LEMMA OneMore ==
    ASSUME NEW a \in Nat, NEW b \in Nat, b = a \/ b = a + 1, NEW i \in 1 .. b - 1
    PROVE  i \in 1 .. a - 1 \/ (i = a /\ a # 0 /\ b # a)
  OBVIOUS

Packet == [id : 0 .. LastPacket, to : Nodes \cup {0}]

LEMMA Ids == TypeOK => /\ rx \in Seq(Packet) /\ \A k \in DOMAIN rx : rx[k] \in Packet /\ rx[k].id \in 0 .. LastPacket
<1> SUFFICES ASSUME TypeOK PROVE /\ rx \in Seq(Packet)
                                 /\ \A k \in DOMAIN rx : rx[k] \in Packet /\ rx[k].id \in 0 .. LastPacket
  OBVIOUS
<1>1. rx \in Seq(Packet)
  BY DEF TypeOK, Packet
<1>2. \A k \in DOMAIN rx : rx[k] \in Packet
  BY <1>1
<1>3. \A p \in Packet : p.id \in 0 .. LastPacket
  BY DEF Packet
<1> QED
  BY <1>1, <1>2, <1>3

-----------------------------------------------------------------------------
(* The steps that receive nothing.                                         *)

LEMMA Constants ==
    /\ LastPacket \in Nat /\ LastPacket >= 2 /\ Me \in Nodes \cup {0} /\ 0 \in Nodes \cup {0}
  BY ExchangeAssumption DEF Nodes

LEMMA ExchangeStart == Init => ExchangeInv
<1> SUFFICES ASSUME Init PROVE ExchangeInv
  OBVIOUS
<1>1. /\ rx = <<>> /\ inbox = <<>> /\ taken = {} /\ rejected = {} /\ blamed = {} /\ pc = "send"
      /\ timedOut = {} /\ abroad = {} /\ cur \in {0, 1} /\ to \in {0, Me}
  BY DEF Init, FirstPacket
<1>2. TypeOK
  <2>1. rx \in Seq([id : 0 .. LastPacket, to : Nodes \cup {0}]) /\ inbox \in Seq(Frames)
    BY <1>1
  <2>2. cur \in 0 .. LastPacket /\ to \in Nodes \cup {0} /\ chatter \in 0 .. MaxChatter
    BY <1>1, Constants, ExchangeAssumption DEF Init
  <2> QED
    BY <1>1, <2>1, <2>2 DEF Init, TypeOK
<1>3. Line /\ Replies /\ Blame
  BY <1>1 DEF Line, Replies, Blame
<1>4. Waits
  BY <1>1 DEF Waits
<1> QED
  BY <1>2, <1>3, <1>4 DEF ExchangeInv

LEMMA SendAdminStep == ExchangeInv /\ SendAdmin => ExchangeInv'
<1> SUFFICES ASSUME ExchangeInv, SendAdmin PROVE ExchangeInv'
  OBVIOUS
<1> DEFINE packet == [id |-> cur, to |-> to]
<1>0. TypeOK /\ Line /\ Replies /\ Waits /\ Blame
  BY DEF ExchangeInv
<1>1. packet \in [id : 0 .. LastPacket, to : Nodes \cup {0}] /\ packet.id = cur
  BY <1>0 DEF TypeOK
<1>2. rx' = Append(rx, packet) \/ rx' = rx
  BY DEF SendAdmin
<1>3. TypeOK'
  <2> HIDE DEF packet
  <2>1. rx' \in Seq([id : 0 .. LastPacket, to : Nodes \cup {0}])
    <3>1. packet \in Packet /\ rx \in Seq(Packet)
      BY <1>0, <1>1, Ids DEF Packet
    <3>2. rx' \in Seq(Packet)
      BY <1>2, <3>1, AppendFacts
    <3> QED
      BY <3>2 DEF Packet
  <2>2. /\ UNCHANGED <<given, to, cur, inbox, chatter, rebooted, blamed, timedOut, taken, abroad, rejected>>
        /\ pc' = NextWait
    BY DEF SendAdmin, radio
  <2>3. cur \in 0 .. LastPacket
    BY <1>0 DEF TypeOK
  <2>4. /\ pc' \in {"probing", "await", "observe"}
        /\ pc' = "probing" => cur = 0
        /\ pc' \in {"await", "drain"} => cur \in 1 .. LastPacket - 1
    BY <2>2, <2>3, Constants DEF NextWait
  <2> QED
    BY <1>0, <2>1, <2>2, <2>4 DEF TypeOK
<1>4. Line'
  <2> HIDE DEF packet
  <2>1. CASE rx' = rx
    <3>1. pc' # "send" /\ UNCHANGED <<cur, taken>>
      BY DEF SendAdmin, NextWait, radio
    <3> QED
      BY <1>0, <2>1, <3>1 DEF Line
  <2>2. CASE rx' = Append(rx, packet)
    <3>1. \A k \in DOMAIN rx : k \in DOMAIN rx' /\ rx'[k] = rx[k]
      BY <1>0, <1>1, <2>2, Ids, AppendFacts DEF Packet
    <3>2. \A k \in DOMAIN rx' : k \in DOMAIN rx \/ (k = Len(rx) + 1 /\ rx'[k] = packet)
      BY <1>0, <1>1, <2>2, Ids, AppendFacts DEF Packet
    <3>3. \A k \in DOMAIN rx : rx[k].id \in 0 .. LastPacket /\ rx[k].id < cur
      BY <1>0, Ids DEF Line, SendAdmin
    <3>4. cur \notin taken /\ taken' = taken /\ cur' = cur /\ pc' # "send" /\ cur \in Nat
      BY <1>0 DEF TypeOK, Line, SendAdmin, radio, NextWait
    <3>5. \A i \in taken : i <= cur
      BY <1>0 DEF Line
    <3>6. \A k, j \in DOMAIN rx : j # k => rx[j].id # rx[k].id /\ rx[k].id \notin taken
      BY <1>0 DEF Line
    <3>7. \A k \in DOMAIN rx : rx[k].id \notin taken
      BY <1>0 DEF Line
    <3>8. \A k \in DOMAIN rx' : rx'[k].id <= cur /\ rx'[k].id \notin taken
      BY <1>1, <3>2, <3>1, <3>3, <3>4, <3>7
    <3>9. \A k, j \in DOMAIN rx' : j # k => rx'[j].id # rx'[k].id
      BY <1>1, <3>2, <3>1, <3>3, <3>4, <3>6
    <3> QED
      BY <3>4, <3>5, <3>8, <3>9 DEF Line
  <2> QED
    BY <1>2, <2>1, <2>2
<1>5. Replies' /\ Waits' /\ Blame'
  BY <1>0 DEF SendAdmin, NextWait, radio, Replies, Waits, Blame, Answered, Unread, AnswerAt
<1> QED
  BY <1>3, <1>4, <1>5 DEF ExchangeInv

LEMMA HostStep ==
    ExchangeInv /\ (SendFails \/ ProbeSilent \/ AckTimeout \/ DrainEnds \/ ObserveEnds)
        => ExchangeInv'
<1> SUFFICES ASSUME ExchangeInv, SendFails \/ ProbeSilent \/ AckTimeout \/ DrainEnds \/ ObserveEnds
             PROVE  ExchangeInv'
  OBVIOUS
<1> USE DEF link, radio
<1>0. TypeOK /\ Line /\ Replies /\ Waits /\ Blame
  BY DEF ExchangeInv
<1>1. /\ UNCHANGED <<rx, inbox, chatter, taken, abroad, rejected, blamed, rebooted, given>>
      /\ timedOut \subseteq timedOut'
  BY DEF SendFails, ProbeSilent, AckTimeout, DrainEnds, ObserveEnds
<1>2. TypeOK'
  <2>1. cur \in 0 .. LastPacket /\ LastPacket \in Nat /\ (cur = LastPacket => cur # 0)
    BY <1>0, Constants DEF TypeOK
  <2>2. /\ to' \in Nodes \cup {0} /\ timedOut' \subseteq 0 .. LastPacket /\ cur' \in 0 .. LastPacket
        /\ pc' \in {"send", "done", "failed"}
    BY <1>0, <2>1, Constants DEF TypeOK, SendFails, ProbeSilent, AckTimeout, DrainEnds, ObserveEnds
  <2> QED
    BY <1>0, <1>1, <2>2 DEF TypeOK
<1>3. cur \in Nat /\ cur' \in Nat /\ pc' # "drain"
  BY <1>0, <1>2 DEF TypeOK, SendFails, ProbeSilent, AckTimeout, DrainEnds, ObserveEnds
<1>4. (cur' = cur /\ pc' # "send") \/ cur' = cur + 1
  BY <1>0 DEF TypeOK, SendFails, ProbeSilent, AckTimeout, DrainEnds, ObserveEnds
<1>5. Line'
  <2>1. \A k \in DOMAIN rx : rx[k].id \in Nat
    BY <1>0, Ids
  <2>2. \A i \in taken : i \in Nat
    <3>1. taken \subseteq 0 .. LastPacket
      BY <1>0 DEF TypeOK
    <3> QED
      BY <3>1
  <2>4. \A i \in Nat : i <= cur /\ (pc = "send" => i < cur) => i <= cur' /\ (pc' = "send" => i < cur')
    BY <1>3, <1>4
  <2>5. \A i \in taken : i <= cur' /\ (pc' = "send" => i < cur')
    BY <1>0, <2>2, <2>4 DEF Line
  <2>6. \A k \in DOMAIN rx : rx[k].id <= cur' /\ (pc' = "send" => rx[k].id < cur')
    BY <1>0, <2>1, <2>4 DEF Line
  <2> QED
    BY <1>0, <1>1, <2>5, <2>6 DEF Line
<1>6. Replies'
  BY <1>0, <1>1 DEF Replies, AnswerAt
<1>7. Waits'
  <2>1. \A i \in 1 .. cur' - 1 : i \in 1 .. cur - 1 \/ (i = cur /\ cur # 0 /\ cur' # cur)
    BY <1>3, <1>4, OneMore
  <2>2. cur' = cur \/ cur = 0 \/ cur \in timedOut' \/ (cur \in taken /\ ~Unread(cur))
    BY <1>0 DEF SendFails, ProbeSilent, AckTimeout, DrainEnds, ObserveEnds, TypeOK, Waits, Answered
  <2>3. \A i \in 1 .. cur' - 1 : i \in timedOut' \/ (i \in taken /\ ~Unread(i))
    <3> SUFFICES ASSUME NEW i \in 1 .. cur' - 1 PROVE i \in timedOut' \/ (i \in taken /\ ~Unread(i))
      OBVIOUS
    <3>1. CASE i \in 1 .. cur - 1
      BY <1>0, <1>1, <3>1 DEF Waits, Answered
    <3>2. CASE i = cur /\ cur # 0 /\ cur' # cur
      BY <2>2, <3>2
    <3> QED
      BY <2>1, <3>1, <3>2
  <2> QED
    BY <1>1, <1>3, <2>3 DEF Waits, Answered, Unread, AnswerAt
<1>8. Blame'
  BY <1>0, <1>1 DEF Blame
<1> QED
  BY <1>2, <1>5, <1>6, <1>7, <1>8 DEF ExchangeInv

-----------------------------------------------------------------------------
(* The steps that receive a frame.                                         *)

\* What every one of them does to the host's record of packets.
Reads == Latch \/ AwaitAck \/ DrainNotifications \/ ObserveCommit

LEMMA ReceiveStep == ExchangeInv /\ Reads => ExchangeInv'
<1> SUFFICES ASSUME ExchangeInv, Reads PROVE ExchangeInv'
  OBVIOUS
<1> USE DEF radio
<1>0. TypeOK /\ Line /\ Replies /\ Waits /\ Blame
  BY DEF ExchangeInv
<1>1. /\ inbox # <<>> /\ inbox' = Tail(inbox)
      /\ UNCHANGED <<rx, chatter, taken, abroad, rejected, given, timedOut>>
  BY DEF Reads, Latch, AwaitAck, DrainNotifications, ObserveCommit, Receive
<1>2. inbox \in Seq(Frames) /\ cur \in 0 .. LastPacket /\ cur \in Nat
  BY <1>0, Constants DEF TypeOK
<1>3. /\ inbox' \in Seq(Frames) /\ 1 \in DOMAIN inbox /\ frame = inbox[1] /\ frame \in Frames
      /\ \A k \in DOMAIN inbox' : k + 1 \in DOMAIN inbox /\ k + 1 # 1 /\ inbox'[k] = inbox[k + 1]
      /\ \A k \in DOMAIN inbox : k = 1 \/ (k - 1 \in DOMAIN inbox' /\ inbox'[k - 1] = inbox[k])
  BY <1>1, <1>2, TailFacts DEF frame
<1>4. \/ /\ pc \in {"await", "drain", "observe"} /\ cur' = cur /\ to' = to
         /\ blamed' = IF frame.kind = "nak" /\ frame.req = cur THEN blamed \cup {cur} ELSE blamed
      \/ /\ pc = "probing" /\ cur = 0 /\ UNCHANGED blamed
         /\ \/ UNCHANGED <<cur, to, pc>>
            \/ cur' = 1 /\ pc' = "send" /\ to' = frame.from
  BY <1>0 DEF Reads, Latch, AwaitAck, DrainNotifications, ObserveCommit, Notify, Ours, TypeOK
<1>5. pc' = "drain" => \/ pc = "drain"
                       \/ pc = "await" /\ frame.kind \in {"ack", "nak"} /\ frame.req = cur
  BY DEF Reads, Latch, AwaitAck, DrainNotifications, ObserveCommit, IsRoutingResponseFor
<1>6. /\ pc' \in {"send", "probing", "await", "drain", "observe", "done"}
      /\ pc' \in {"await", "drain"} => pc \in {"await", "drain"}
      /\ pc' = "probing" => pc = "probing" /\ cur' = cur
      /\ rebooted' \in BOOLEAN
  BY <1>0 DEF Reads, Latch, AwaitAck, DrainNotifications, ObserveCommit, TypeOK
<1>7. TypeOK'
  <2>1. frame.from \in Nodes \cup {0}
    BY <1>3 DEF Frames
  <2>2. cur' \in 0 .. LastPacket /\ to' \in Nodes \cup {0} /\ blamed' \subseteq 0 .. LastPacket
    BY <1>0, <1>2, <1>4, <2>1, Constants DEF TypeOK
  <2>3. pc' \in {"await", "drain"} => cur' \in 1 .. LastPacket - 1
    BY <1>0, <1>4, <1>6 DEF TypeOK
  <2>4. pc' = "probing" => cur' = 0
    BY <1>0, <1>6 DEF TypeOK
  <2> QED
    BY <1>0, <1>1, <1>3, <1>6, <2>2, <2>3, <2>4 DEF TypeOK
<1>8. Line'
  <2>1. \A i \in Nat : i <= cur => i <= cur' /\ (pc' = "send" => i < cur')
    BY <1>2, <1>4, <1>6 DEF Reads, Latch, AwaitAck, DrainNotifications, ObserveCommit
  <2>2. \A k \in DOMAIN rx : rx[k].id \in Nat
    BY <1>0, Ids
  <2>3. taken \subseteq Nat
    BY <1>0 DEF TypeOK
  <2>4. \A k \in DOMAIN rx : rx[k].id <= cur' /\ (pc' = "send" => rx[k].id < cur')
    BY <1>0, <2>1, <2>2 DEF Line
  <2>5. \A i \in taken : i <= cur' /\ (pc' = "send" => i < cur')
    BY <1>0, <2>1, <2>3 DEF Line
  <2> QED
    BY <1>0, <1>1, <2>4, <2>5 DEF Line
<1>9. Replies'
  <2>1. \A k \in DOMAIN inbox' : \A i : AnswerAt(k, i)' <=> AnswerAt(k + 1, i)
    BY <1>3 DEF AnswerAt
  <2> SUFFICES ASSUME NEW k \in DOMAIN inbox', NEW i \in 0 .. LastPacket, AnswerAt(k, i)'
               PROVE  /\ i \in taken
                      /\ inbox'[k].kind = "nak" <=> i \in rejected
                      /\ \A j \in DOMAIN inbox' : j # k => ~(AnswerAt(j, i)')
    BY <1>0, <1>1 DEF Replies, AnswerAt
  <2>2. AnswerAt(k + 1, i) /\ k + 1 \in DOMAIN inbox /\ inbox'[k] = inbox[k + 1]
    BY <1>3, <2>1
  <2>3. \A j \in DOMAIN inbox' : j # k => j + 1 # k + 1 /\ j + 1 \in DOMAIN inbox
    BY <1>3
  <2> QED
    BY <1>0, <2>1, <2>2, <2>3 DEF Replies
<1>10. \A i : i \in taken /\ ~Unread(i) => ~(Unread(i)')
  BY <1>3 DEF Unread, AnswerAt
<1>11. Waits'
  <2>1. \A i \in 1 .. cur' - 1 : i \in 1 .. cur - 1
    BY <1>2, <1>4
  <2>2. \A i \in 1 .. cur' - 1 : i \in timedOut \/ (i \in taken /\ ~(Unread(i)'))
    BY <1>0, <1>10, <2>1 DEF Waits, Answered
  <2>3. ASSUME pc' = "drain" PROVE cur' = cur /\ cur \in taken /\ ~(Unread(cur)')
    <3>0. cur' = cur
      BY <1>4, <1>5, <2>3
    <3>1. CASE pc = "drain"
      BY <1>0, <1>10, <3>0, <3>1 DEF Waits, Answered, Unread, AnswerAt
    <3>2. CASE pc = "await" /\ frame.kind \in {"ack", "nak"} /\ frame.req = cur
      <4>1. AnswerAt(1, cur) /\ cur \in 0 .. LastPacket
        BY <1>2, <1>3, <3>2 DEF AnswerAt
      <4>2. cur \in taken /\ \A j \in DOMAIN inbox : j # 1 => ~AnswerAt(j, cur)
        BY <1>0, <1>3, <4>1 DEF Replies
      <4> QED
        BY <1>3, <3>0, <4>2 DEF Unread, AnswerAt
    <3> QED
      BY <1>5, <2>3, <3>1, <3>2
  <2> QED
    BY <1>1, <2>2, <2>3 DEF Waits, Answered, Unread, AnswerAt
<1>12. Blame'
  <2>1. blamed' \subseteq rejected
    <3>1. ASSUME frame.kind = "nak", frame.req = cur PROVE cur \in rejected
      BY <1>0, <1>2, <1>3, <3>1 DEF Replies, AnswerAt
    <3> QED
      BY <1>0, <1>4, <3>1 DEF Blame
  <2> SUFFICES ASSUME NEW i \in rejected \ {0}, i \notin blamed', i \notin timedOut
               PROVE  \E k \in DOMAIN inbox' : inbox'[k].kind = "nak" /\ inbox'[k].req = i
    BY <1>1, <2>1 DEF Blame
  <2>2. i \notin blamed
    BY <1>4
  <2>3. PICK k \in DOMAIN inbox : inbox[k].kind = "nak" /\ inbox[k].req = i
    BY <1>0, <2>2 DEF Blame
  <2>4. i \in taken /\ i \in Nat /\ i <= cur /\ i # 0
    BY <1>0 DEF Replies, Line, TypeOK
  <2>5. ~(i \in 1 .. cur - 1)
    BY <1>0, <2>3 DEF Waits, Answered, Unread, AnswerAt
  <2>6. i = cur /\ cur # 0
    BY <1>2, <2>4, <2>5
  <2>7. k # 1
    BY <1>3, <1>4, <2>3, <2>6
  <2> QED
    BY <1>3, <2>3, <2>7
<1> QED
  BY <1>7, <1>8, <1>9, <1>11, <1>12 DEF ExchangeInv

-----------------------------------------------------------------------------
(* The radio's steps.                                                      *)

LEMMA TakeStep == ExchangeInv /\ Take => ExchangeInv'
<1> SUFFICES ASSUME ExchangeInv, Take PROVE ExchangeInv'
  OBVIOUS
<1>0. TypeOK /\ Line /\ Replies /\ Waits /\ Blame
  BY DEF ExchangeInv
<1>1. PICK i \in {Head(rx).id}, n \in {IF Head(rx).to = 0 THEN Me ELSE Head(rx).to} :
        /\ taken' = taken \cup {i}
        /\ abroad' = IF n = Me THEN abroad ELSE abroad \cup {i}
        /\ \E a \in Answers(n, i) :
             /\ inbox' = inbox \o a
             /\ rejected' = IF a = <<Nak(n, i)>> THEN rejected \cup {i} ELSE rejected
  BY DEF Take
<1>2. PICK a \in Answers(n, i) :
        /\ inbox' = inbox \o a
        /\ rejected' = IF a = <<Nak(n, i)>> THEN rejected \cup {i} ELSE rejected
  BY <1>1
<1>3. /\ rx # <<>> /\ rx' = Tail(rx) /\ inbox \in Seq(Frames)
      /\ UNCHANGED <<given, to, pc, cur, rebooted, blamed, timedOut, chatter>>
  BY <1>0 DEF Take, TypeOK, host
<1>4. /\ rx' \in Seq(Packet) /\ 1 \in DOMAIN rx /\ Head(rx) = rx[1]
      /\ \A k \in DOMAIN rx' : k + 1 \in DOMAIN rx /\ k + 1 # 1 /\ rx'[k] = rx[k + 1]
  BY <1>0, <1>3, Ids, TailFacts
<1>5. /\ i = rx[1].id /\ i \in 0 .. LastPacket /\ i \notin taken /\ i <= cur
      /\ pc = "send" => i < cur
  BY <1>0, <1>1, <1>4, Ids DEF Line
<1>6. n \in Nodes \cup {0}
  BY <1>0, <1>1, <1>4, Ids, Constants DEF Packet
<1>7. /\ a \in Seq(Frames) /\ Len(a) \in 0 .. 2
      /\ \A k \in DOMAIN a : a[k].req \in {i, -1} /\ (a[k].kind = "nak" => a = <<Nak(n, i)>>)
      /\ \A k \in DOMAIN a : a[k].req = -1 => a[k].kind \notin {"ack", "nak"}
      /\ \A k \in DOMAIN a : \A j \in DOMAIN a :
           a[k].kind \in {"ack", "nak"} /\ a[j].kind \in {"ack", "nak"} => k = j
      /\ a = <<Nak(n, i)>> => 1 \in DOMAIN a /\ a[1].kind = "nak" /\ a[1].req = i
  <2>1. /\ Ack(n, i) \in Frames /\ Nak(n, i) \in Frames /\ Heard(n) \in Frames /\ Booted \in Frames
        /\ i # -1
    BY <1>5, <1>6, Constants DEF Ack, Nak, Heard, Booted, Frame, Frames
  <2>2. \/ a = <<>> \/ a = <<Ack(n, i)>> \/ a = <<Nak(n, i)>> \/ a = <<Heard(n)>> \/ a = <<Booted>>
        \/ a = <<Ack(n, i), Heard(n)>> \/ a = <<Ack(n, i), Booted>>
    BY <1>2 DEF Answers
  <2>3. CASE a = <<>>
    BY <2>1, <2>3
  <2>4. CASE a = <<Ack(n, i)>>
    BY <2>1, <2>4 DEF Ack, Nak, Frame
  <2>5. CASE a = <<Nak(n, i)>>
    BY <2>1, <2>5 DEF Nak, Frame
  <2>6. CASE a = <<Heard(n)>>
    BY <2>1, <2>6 DEF Heard, Nak, Frame
  <2>7. CASE a = <<Booted>>
    BY <2>1, <2>7 DEF Booted, Nak, Frame
  <2>8. CASE a = <<Ack(n, i), Heard(n)>>
    BY <2>1, <2>8 DEF Ack, Heard, Nak, Frame
  <2>9. CASE a = <<Ack(n, i), Booted>>
    BY <2>1, <2>9 DEF Ack, Booted, Nak, Frame
  <2> QED
    BY <2>2, <2>3, <2>4, <2>5, <2>6, <2>7, <2>8, <2>9
<1>8. /\ inbox' \in Seq(Frames)
      /\ \A k \in DOMAIN inbox : k \in DOMAIN inbox' /\ inbox'[k] = inbox[k]
      /\ \A k \in DOMAIN inbox' : k \in DOMAIN inbox
            \/ (k - Len(inbox) \in DOMAIN a /\ inbox'[k] = a[k - Len(inbox)])
      /\ \A k \in DOMAIN a : Len(inbox) + k \in DOMAIN inbox' /\ inbox'[Len(inbox) + k] = a[k]
  BY <1>2, <1>3, <1>7
<1>8b. \A k \in DOMAIN inbox' : k \notin DOMAIN inbox =>
          /\ inbox'[k].req = i \/ inbox'[k].req = -1
          /\ inbox'[k].req = -1 => inbox'[k].kind \notin {"ack", "nak"}
  <2> SUFFICES ASSUME NEW k \in DOMAIN inbox', k \notin DOMAIN inbox
               PROVE  /\ inbox'[k].req = i \/ inbox'[k].req = -1
                      /\ inbox'[k].req = -1 => inbox'[k].kind \notin {"ack", "nak"}
    OBVIOUS
  <2> DEFINE m == k - Len(inbox)
  <2>1. m \in DOMAIN a /\ inbox'[k] = a[m]
    BY <1>8
  <2> HIDE DEF m
  <2>2. a[m].req \in {i, -1} /\ (a[m].req = -1 => a[m].kind \notin {"ack", "nak"})
    BY <1>7, <2>1
  <2> QED
    BY <2>1, <2>2
<1>9. \A k \in DOMAIN inbox : ~AnswerAt(k, i)
  BY <1>0, <1>5 DEF Replies
<1>10. /\ rejected' \subseteq rejected \cup {i} /\ rejected \subseteq rejected'
       /\ i \in rejected' <=> a = <<Nak(n, i)>>
  BY <1>0, <1>2, <1>5 DEF Replies
<1>11. TypeOK'
  <2>1. \A S \in {taken', rejected', abroad'} : S \subseteq 0 .. LastPacket
    BY <1>0, <1>1, <1>2, <1>5 DEF TypeOK
  <2>2. rx' \in Seq([id : 0 .. LastPacket, to : Nodes \cup {0}])
    BY <1>4 DEF Packet
  <2> QED
    BY <1>0, <1>3, <1>8, <2>1, <2>2 DEF TypeOK
<1>12. Line'
  <2>1. \A k \in DOMAIN rx' : /\ rx'[k].id <= cur /\ rx'[k].id \notin taken'
                              /\ pc = "send" => rx'[k].id < cur
                              /\ \A j \in DOMAIN rx' : j # k => rx'[j].id # rx'[k].id
    BY <1>0, <1>1, <1>4, <1>5 DEF Line
  <2>2. \A j \in taken' : j <= cur /\ (pc = "send" => j < cur)
    BY <1>0, <1>1, <1>5 DEF Line
  <2> QED
    BY <1>3, <2>1, <2>2 DEF Line
<1>13. Replies'
  <2>1. rejected' \subseteq taken'
    BY <1>0, <1>1, <1>10 DEF Replies
  <2> SUFFICES ASSUME NEW k \in DOMAIN inbox', NEW p \in 0 .. LastPacket,
                      inbox'[k].kind \in {"ack", "nak"}, inbox'[k].req = p
               PROVE  /\ p \in taken'
                      /\ inbox'[k].kind = "nak" <=> p \in rejected'
                      /\ \A j \in DOMAIN inbox' :
                           j # k => ~(inbox'[j].kind \in {"ack", "nak"} /\ inbox'[j].req = p)
    BY <2>1 DEF Replies, AnswerAt
  <2>2. CASE k \in DOMAIN inbox
    <3>1. AnswerAt(k, p) /\ p # i
      BY <1>8, <1>9, <2>2 DEF AnswerAt
    <3>2. /\ p \in taken /\ (inbox[k].kind = "nak" <=> p \in rejected)
          /\ \A j \in DOMAIN inbox : j # k => ~AnswerAt(j, p)
      BY <1>0, <2>2, <3>1 DEF Replies
    <3>3. \A j \in DOMAIN inbox' :
             j \notin DOMAIN inbox => ~(inbox'[j].kind \in {"ack", "nak"} /\ inbox'[j].req = p)
      BY <1>8b, <3>1
    <3> QED
      BY <1>1, <1>8, <1>10, <2>2, <3>1, <3>2, <3>3 DEF AnswerAt
  <2>3. CASE k \notin DOMAIN inbox
    <3>1. k - Len(inbox) \in DOMAIN a /\ inbox'[k] = a[k - Len(inbox)]
      BY <1>8, <2>3
    <3>2. p = i
      BY <1>7, <3>1
    <3>3. \A j \in DOMAIN inbox' : j # k => ~(inbox'[j].kind \in {"ack", "nak"} /\ inbox'[j].req = p)
      <4> SUFFICES ASSUME NEW j \in DOMAIN inbox', j # k, inbox'[j].kind \in {"ack", "nak"},
                          inbox'[j].req = p
                   PROVE  FALSE
        OBVIOUS
      <4>1. j \notin DOMAIN inbox
        BY <1>8, <1>9, <3>2 DEF AnswerAt
      <4>2. j - Len(inbox) \in DOMAIN a /\ inbox'[j] = a[j - Len(inbox)]
        BY <1>8, <4>1
      <4>3. j - Len(inbox) = k - Len(inbox)
        BY <1>7, <3>1, <4>2
      <4>4. j \in Int /\ k \in Int /\ Len(inbox) \in Int
        BY <1>3, <1>8
      <4> QED
        BY <4>3, <4>4
    <3>4. inbox'[k].kind = "nak" <=> p \in rejected'
      <4>1. ASSUME inbox'[k].kind = "nak" PROVE p \in rejected'
        BY <1>7, <1>10, <3>1, <3>2, <4>1
      <4>2. ASSUME p \in rejected' PROVE inbox'[k].kind = "nak"
        <5>1. a = <<Nak(n, i)>>
          BY <1>10, <3>2, <4>2
        <5>2. 1 \in DOMAIN a /\ a[1].kind = "nak"
          BY <1>7, <5>1
        <5>3. k - Len(inbox) = 1
          BY <1>7, <3>1, <5>2
        <5> QED
          BY <3>1, <5>2, <5>3
      <4> QED
        BY <4>1, <4>2
    <3> QED
      BY <1>1, <3>2, <3>3, <3>4
  <2> QED
    BY <2>2, <2>3
<1>14. Waits'
  <2>1. \A j : j \in taken /\ ~Unread(j) => ~(Unread(j)')
    <3> SUFFICES ASSUME NEW j, j \in taken, ~Unread(j), Unread(j)' PROVE FALSE
      OBVIOUS
    <3>1. PICK k \in DOMAIN inbox' : inbox'[k].kind \in {"ack", "nak"} /\ inbox'[k].req = j
      BY DEF Unread, AnswerAt
    <3>2. k \notin DOMAIN inbox
      BY <1>8, <3>1 DEF Unread, AnswerAt
    <3>3. (j = i \/ j = -1) /\ (j = -1 => inbox'[k].kind \notin {"ack", "nak"})
      BY <1>8b, <3>1, <3>2
    <3> QED
      BY <1>5, <3>1, <3>3
  <2>2. \A j \in 1 .. cur - 1 : j \in timedOut \/ (j \in taken /\ ~(Unread(j)'))
    BY <1>0, <2>1 DEF Waits, Answered
  <2>3. pc = "drain" => cur \in taken /\ ~(Unread(cur)')
    BY <1>0, <1>3, <2>1 DEF Waits, Answered, Unread, AnswerAt
  <2> QED
    BY <1>1, <1>3, <2>2, <2>3 DEF Waits, Answered, Unread, AnswerAt
<1>15. Blame'
  <2>1. blamed \subseteq rejected'
    BY <1>0, <1>10 DEF Blame
  <2>2. \A p \in rejected \ {0} : p \in blamed \/ p \in timedOut
                                  \/ \E k \in DOMAIN inbox' : inbox'[k].kind = "nak" /\ inbox'[k].req = p
    BY <1>0, <1>8 DEF Blame
  <2>3. i \in rejected' => \E k \in DOMAIN inbox' : inbox'[k].kind = "nak" /\ inbox'[k].req = i
    BY <1>7, <1>8, <1>10
  <2> QED
    BY <1>3, <1>10, <2>1, <2>2, <2>3 DEF Blame
<1> QED
  BY <1>11, <1>12, <1>13, <1>14, <1>15 DEF ExchangeInv

LEMMA OverhearStep == ExchangeInv /\ Overhear => ExchangeInv'
<1> SUFFICES ASSUME ExchangeInv, Overhear PROVE ExchangeInv'
  OBVIOUS
<1>0. TypeOK /\ Line /\ Replies /\ Waits /\ Blame
  BY DEF ExchangeInv
<1>1. PICK n \in Neighbours : inbox' = Append(inbox, Heard(n))
  BY DEF Overhear
<1>2. /\ UNCHANGED <<given, to, pc, cur, rebooted, blamed, timedOut, rx, taken, abroad, rejected>>
      /\ chatter' \in 0 .. MaxChatter /\ inbox \in Seq(Frames)
  BY <1>0, ExchangeAssumption DEF Overhear, host, radio, TypeOK
<1>3. Heard(n) \in Frames /\ Heard(n).kind = "mesh"
  BY Constants DEF Heard, Frame, Frames, Nodes
<1>4. /\ inbox' \in Seq(Frames)
      /\ \A k \in DOMAIN inbox : k \in DOMAIN inbox' /\ inbox'[k] = inbox[k]
      /\ \A k \in DOMAIN inbox' : k \in DOMAIN inbox \/ inbox'[k].kind = "mesh"
  BY <1>1, <1>2, <1>3, AppendFacts
<1>5. TypeOK' /\ Line'
  BY <1>0, <1>2, <1>4 DEF TypeOK, Line
<1>6. \A k \in DOMAIN inbox' : inbox'[k].kind \in {"ack", "nak"} =>
        k \in DOMAIN inbox /\ inbox'[k] = inbox[k]
  BY <1>4
<1>7. Replies'
  BY <1>0, <1>2, <1>6 DEF Replies, AnswerAt
<1>8. Waits'
  BY <1>0, <1>2, <1>6 DEF Waits, Answered, Unread, AnswerAt
<1>9. Blame'
  BY <1>0, <1>2, <1>4 DEF Blame
<1> QED
  BY <1>5, <1>7, <1>8, <1>9 DEF ExchangeInv

LEMMA ExchangeStep == ExchangeInv /\ [Next]_vars => ExchangeInv'
<1> SUFFICES ASSUME ExchangeInv, [Next]_vars PROVE ExchangeInv'
  OBVIOUS
<1>1. CASE Apply
  BY <1>1, SendAdminStep, HostStep, ReceiveStep DEF Apply, Reads
<1>2. CASE Take
  BY <1>2, TakeStep
<1>3. CASE Overhear
  BY <1>3, OverhearStep
<1>4. CASE UNCHANGED vars
  BY <1>4 DEF vars, host, link, radio, ExchangeInv, TypeOK, Line, Replies, Waits, Blame,
              Answered, Unread, AnswerAt
<1> QED
  BY <1>1, <1>2, <1>3, <1>4 DEF Next

THEOREM ExchangeInvariant == Spec => []ExchangeInv
<1> QED
  BY ExchangeStart, ExchangeStep, PTL DEF Spec

-----------------------------------------------------------------------------
(* The theorems.                                                           *)

\* Type correctness (admin.go:180-520).
THEOREM ExchangeTypeCorrect == Spec => []TypeOK
<1>1. ExchangeInv => TypeOK
  BY DEF ExchangeInv
<1> QED
  BY <1>1, ExchangeInvariant, PTL

\* The waits pace the stream: before the next packet is sent the radio has taken
\* the last one, or its wait ran out (admin.go:252-260, sendAndAwaitAck).
THEOREM StreamIsPaced == Spec => []Paced
<1>1. ExchangeInv => Paced
  BY DEF ExchangeInv, Waits, Answered, Paced
<1> QED
  BY <1>1, ExchangeInvariant, PTL

\* A rejection is blamed on the packet that was rejected, and overlooked only if
\* it came too late (admin.go:257, packetToNotification).
THEOREM BlameIsRight == Spec => []Blame
<1>1. ExchangeInv => Blame
  BY DEF ExchangeInv
<1> QED
  BY <1>1, ExchangeInvariant, PTL

\* While the number is known or the mesh silent, no other node is in sight.
Here ==
    /\ given # 0 => cur # 0
    /\ given # 0 \/ chatter = 0 =>
         to \in {0, Me} /\ abroad = {} /\ \A k \in DOMAIN rx : rx[k].to \in {0, Me}
    /\ chatter = 0 => \A k \in DOMAIN inbox : inbox[k].from \in {0, Me}

LEMMA HereStart == Init => Here
<1> SUFFICES ASSUME Init PROVE Here
  OBVIOUS
<1> QED
  BY DEF Init, FirstPacket, Here

LEMMA HereStep == TypeOK /\ Here /\ [Next]_vars => Here'
<1> SUFFICES ASSUME TypeOK, Here, [Next]_vars PROVE Here'
  OBVIOUS
<1>0. inbox \in Seq(Frames) /\ rx \in Seq(Packet) /\ cur \in Nat /\ chatter \in Nat
  BY Ids, Constants, ExchangeAssumption DEF TypeOK
<1>1. CASE SendAdmin
  <2> DEFINE packet == [id |-> cur, to |-> to]
  <2>1. packet \in Packet /\ packet.to = to
    BY DEF TypeOK, Packet
  <2>2. rx' = rx \/ rx' = Append(rx, packet)
    BY <1>1 DEF SendAdmin
  <2> HIDE DEF packet
  <2>3. \A k \in DOMAIN rx' : (k \in DOMAIN rx /\ rx'[k] = rx[k]) \/ rx'[k] = packet
    BY <1>0, <2>1, <2>2, AppendFacts
  <2> QED
    BY <1>1, <2>1, <2>3 DEF SendAdmin, Here, radio
<1>2. CASE SendFails \/ ProbeSilent \/ AckTimeout \/ DrainEnds \/ ObserveEnds
  <2>1. UNCHANGED <<rx, inbox, chatter, taken, abroad, rejected, given>>
    BY <1>2 DEF SendFails, ProbeSilent, AckTimeout, DrainEnds, ObserveEnds, link, radio
  <2>2. (to' = to \/ to' = 0) /\ (cur' = cur \/ cur' = cur + 1 \/ cur' = 1)
    BY <1>2 DEF SendFails, ProbeSilent, AckTimeout, DrainEnds, ObserveEnds
  <2> QED
    BY <1>0, <2>1, <2>2 DEF Here
<1>3. CASE Reads
  <2>1. /\ inbox # <<>> /\ inbox' = Tail(inbox)
        /\ UNCHANGED <<rx, chatter, taken, abroad, rejected, given>>
    BY <1>3 DEF Reads, Latch, AwaitAck, DrainNotifications, ObserveCommit, Receive, radio
  <2>2. /\ 1 \in DOMAIN inbox /\ frame = inbox[1]
        /\ \A k \in DOMAIN inbox' : k + 1 \in DOMAIN inbox /\ inbox'[k] = inbox[k + 1]
    BY <1>0, <2>1, TailFacts DEF frame
  <2>3. \/ to' = to /\ cur' = cur
        \/ cur = 0 /\ cur' = 1 /\ to' = frame.from
    BY <1>3 DEF Reads, Latch, AwaitAck, DrainNotifications, ObserveCommit, TypeOK
  <2> QED
    BY <2>1, <2>2, <2>3 DEF Here
<1>4. CASE Take
  <2>1. PICK i \in {Head(rx).id}, n \in {IF Head(rx).to = 0 THEN Me ELSE Head(rx).to} :
          /\ abroad' = IF n = Me THEN abroad ELSE abroad \cup {i}
          /\ \E a \in Answers(n, i) : inbox' = inbox \o a
    BY <1>4 DEF Take
  <2>2. PICK a \in Answers(n, i) : inbox' = inbox \o a
    BY <2>1
  <2>3. rx # <<>> /\ rx' = Tail(rx) /\ UNCHANGED <<given, to, cur, chatter>>
    BY <1>4 DEF Take, host
  <2>4. /\ 1 \in DOMAIN rx /\ Head(rx) = rx[1]
        /\ \A k \in DOMAIN rx' : k + 1 \in DOMAIN rx /\ rx'[k] = rx[k + 1]
    BY <1>0, <2>3, TailFacts
  <2>5. given # 0 \/ chatter = 0 => n = Me
    BY <2>1, <2>4 DEF Here
  <2>6. \A k \in DOMAIN a : a[k].from \in {0, n}
    BY <2>2 DEF Answers, Ack, Nak, Heard, Booted, Frame
  <2>7. a \in Seq(Frames)
    <3>1. n \in Nodes \cup {0} /\ i \in 0 .. LastPacket
      <4>1. rx[1] \in Packet /\ Head(rx) = rx[1]
        BY <2>4, Ids
      <4>2. rx[1].id \in 0 .. LastPacket /\ rx[1].to \in Nodes \cup {0}
        BY <4>1 DEF Packet
      <4> QED
        BY <2>1, <4>1, <4>2, Constants
    <3>2. /\ Ack(n, i) \in Frames /\ Nak(n, i) \in Frames /\ Heard(n) \in Frames /\ Booted \in Frames
      BY <3>1, Constants DEF Ack, Nak, Heard, Booted, Frame, Frames
    <3>3. \/ a = <<>> \/ a = <<Ack(n, i)>> \/ a = <<Nak(n, i)>> \/ a = <<Heard(n)>> \/ a = <<Booted>>
          \/ a = <<Ack(n, i), Heard(n)>> \/ a = <<Ack(n, i), Booted>>
      BY <2>2 DEF Answers
    <3> QED
      BY <3>2, <3>3, ShortSequences
  <2>8. \A k \in DOMAIN inbox' : \/ k \in DOMAIN inbox /\ inbox'[k] = inbox[k]
                                 \/ k - Len(inbox) \in DOMAIN a /\ inbox'[k] = a[k - Len(inbox)]
    BY <1>0, <2>2, <2>7
  <2>9. chatter = 0 => \A k \in DOMAIN inbox' : inbox'[k].from \in {0, Me}
    BY <2>5, <2>6, <2>8 DEF Here
  <2> QED
    BY <2>1, <2>3, <2>4, <2>5, <2>9 DEF Here
<1>5. CASE Overhear
  <2>1. chatter' # 0 /\ UNCHANGED <<given, to, cur, rx, abroad>>
    BY <1>0, <1>5 DEF Overhear, host, radio
  <2> QED
    BY <2>1 DEF Here
<1>6. CASE UNCHANGED vars
  BY <1>6 DEF vars, host, link, radio, Here
<1> QED
  BY <1>1, <1>2, <1>3, <1>4, <1>5, <1>6 DEF Next, Apply, Reads

\* Every write is for the connected radio if its number came with the state read,
\* or if no neighbour was heard (admin.go:190-207, 475-506).
THEOREM WritesStayHere == Spec => []AddressedHere
<1>1. Here => AddressedHere
  BY DEF Here, AddressedHere
<1> QED
  BY <1>1, HereStart, HereStep, ExchangeTypeCorrect, PTL DEF Spec
=============================================================================
