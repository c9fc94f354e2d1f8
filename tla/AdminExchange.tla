---------------------------- MODULE AdminExchange ----------------------------
(***************************************************************************)
(* The admin packets of one device.Apply, one at a time: whom they are     *)
(* addressed to, how the answers of the radio pace them, and which answer  *)
(* is taken for which packet.  ApplySession abstracts this to "a packet    *)
(* reached the radio or was lost".                                         *)
(*                                                                         *)
(* The radio hands over what it hears on the mesh on the same link, and    *)
(* its answers may come late or never.  Packet 0 is the probe, packet 1    *)
(* opens the transaction, LastPacket commits it; those in between are the  *)
(* Set* messages.  Packet ids are drawn at random and taken to differ.     *)
(***************************************************************************)
EXTENDS Integers, Sequences

CONSTANTS
    LastPacket,      \* the commit
    Me, Neighbours,  \* node numbers: the connected radio's, and others
    RxRoom,          \* packets the radio's receive buffer holds
    MaxChatter       \* bound of the model: mesh packets overheard

ASSUME ExchangeAssumption ==
    /\ LastPacket \in Nat \ {0, 1} /\ RxRoom \in Nat \ {0} /\ MaxChatter \in Nat
    /\ Me \in Nat \ {0} /\ Neighbours \subseteq Nat \ {0, Me}

VARIABLES
    given,     \* opts.LocalNodeNum: 0 when the read had no MyInfo
    to,        \* localNodeNum, the address of every packet; 0 is a loopback
    pc,        \* "send", "probing", "await", "drain", "observe", "done", "failed"
    cur,       \* the packet to send, or the one waited for
    rx,        \* the radio's receive buffer
    inbox,     \* frames from the radio that nobody has received yet
    chatter,   \* mesh packets overheard so far (bounded)
    rebooted,  \* ApplyResult.Rebooted
    blamed,    \* packets reported as rejected (noteEmit)
    timedOut,  \* history: packets whose wait ended without an answer
    taken,     \* history: packets the radio took out of its buffer
    abroad,    \* history: packets the radio sent to another node
    rejected   \* history: packets answered with an error

link    == <<rx, inbox, chatter>>
radio   == <<taken, abroad, rejected>>
host    == <<given, to, pc, cur, rebooted, blamed, timedOut>>
vars    == <<host, link, radio>>

\* FromRadio frames: a packet, of the mesh or an answer to packet `req`, or
\* the notice of a reboot.
Frame(kind, from, req) == [kind |-> kind, from |-> from, req |-> req]
Heard(n)    == Frame("mesh", n, -1)
Ack(n, i)   == Frame("ack", n, i)
Nak(n, i)   == Frame("nak", n, i)
Booted      == Frame("rebooted", 0, -1)

\* The number comes with the state read, or else from a probe.
Bug_AlwaysProbe == 0
FirstPacket == IF given = 0 THEN 0 ELSE 1

Init ==
    /\ given \in {0, Me} /\ pc = "send"
    /\ cur = FirstPacket /\ to = IF cur = 0 THEN 0 ELSE given
    /\ rx = <<>> /\ inbox = <<>> /\ chatter = 0 /\ rebooted = FALSE
    /\ blamed = {} /\ timedOut = {}
    /\ taken = {} /\ abroad = {} /\ rejected = {}

-----------------------------------------------------------------------------
(* sendAdmin.                                                              *)

NextWait == IF cur = 0 THEN "probing" ELSE IF cur = LastPacket THEN "observe" ELSE "await"

SendAdmin ==
    /\ pc = "send" /\ pc' = NextWait
    /\ IF Len(rx) < RxRoom
       THEN rx' = Append(rx, [id |-> cur, to |-> to])
       ELSE UNCHANGED rx                       \* overrun: the packet is lost
    /\ UNCHANGED <<given, to, cur, inbox, chatter, rebooted, blamed, timedOut, radio>>

\* A write fails when the link is down or the context done, and a section may not
\* parse: Apply returns.  The probe shrugs.
SendFails ==
    /\ pc = "send"
    /\ IF cur = 0 THEN to' = 0 /\ cur' = 1 /\ UNCHANGED pc
       ELSE pc' = "failed" /\ UNCHANGED <<to, cur>>
    /\ UNCHANGED <<given, rebooted, blamed, timedOut, link, radio>>

-----------------------------------------------------------------------------
(* ReceiveFromRadio in each of the waits.                                  *)

frame   == Head(inbox)
Receive == inbox # <<>> /\ inbox' = Tail(inbox) /\ UNCHANGED <<rx, chatter>>

\* probeLocalNodeNum takes the sender of the first packet for the radio.
Latch ==
    /\ pc = "probing" /\ Receive
    /\ IF frame.from # 0 THEN to' = frame.from /\ cur' = 1 /\ pc' = "send"
       ELSE UNCHANGED <<to, cur, pc>>
    /\ UNCHANGED <<given, rebooted, blamed, timedOut, radio>>

ProbeSilent ==
    /\ pc = "probing" /\ to' = 0 /\ cur' = 1 /\ pc' = "send"
    /\ UNCHANGED <<given, rebooted, blamed, timedOut, link, radio>>

\* packetToNotification knows the packet in hand and no other.
Bug_Ours(f) == TRUE
Ours(f) == f.req = cur

Notify(f) == blamed' = IF f.kind = "nak" /\ Ours(f) THEN blamed \cup {cur} ELSE blamed

Bug_AnyResponse(f) == f.kind \in {"ack", "nak"}
IsRoutingResponseFor(f) == f.kind \in {"ack", "nak"} /\ f.req = cur

AwaitAck ==
    /\ pc = "await" /\ Receive /\ Notify(frame)
    /\ pc' = IF IsRoutingResponseFor(frame) THEN "drain" ELSE "await"
    /\ UNCHANGED <<given, to, cur, rebooted, timedOut, radio>>

\* The deadline, or any receive error: Apply goes on.
AckTimeout ==
    /\ pc = "await" /\ timedOut' = timedOut \cup {cur}
    /\ pc' = "send" /\ cur' = cur + 1
    /\ UNCHANGED <<given, to, rebooted, blamed, link, radio>>

DrainNotifications ==
    /\ pc = "drain" /\ Receive /\ Notify(frame)
    /\ UNCHANGED <<given, to, pc, cur, rebooted, timedOut, radio>>

DrainEnds ==
    /\ pc = "drain" /\ pc' = "send" /\ cur' = cur + 1
    /\ UNCHANGED <<given, to, rebooted, blamed, timedOut, link, radio>>

ObserveCommit ==
    /\ pc = "observe" /\ Receive /\ Notify(frame)
    /\ rebooted' = (frame.kind = "rebooted")
    /\ pc' = IF rebooted' THEN "done" ELSE "observe"
    /\ UNCHANGED <<given, to, cur, timedOut, radio>>

\* The grace window in silence, or the rest of the wait.
ObserveEnds ==
    /\ pc = "observe" /\ pc' = "done"
    /\ UNCHANGED <<given, to, cur, rebooted, blamed, timedOut, link, radio>>

-----------------------------------------------------------------------------
(* The radio.                                                              *)

\* What may follow packet i, answered by node n.
Answers(n, i) ==
    {<<>>, <<Ack(n, i)>>, <<Nak(n, i)>>}
    \cup (IF i = 0 THEN {<<Heard(n)>>, <<Ack(n, i), Heard(n)>>} ELSE {})
    \cup (IF i = LastPacket /\ n = Me THEN {<<Booted>>, <<Ack(n, i), Booted>>} ELSE {})

Take ==
    /\ rx # <<>> /\ rx' = Tail(rx)
    /\ \E i \in {Head(rx).id}, n \in {IF Head(rx).to = 0 THEN Me ELSE Head(rx).to} :
         /\ taken' = taken \cup {i}
         /\ abroad' = IF n = Me THEN abroad ELSE abroad \cup {i}
         /\ \E a \in Answers(n, i) :
              /\ inbox' = inbox \o a
              /\ rejected' = IF a = <<Nak(n, i)>> THEN rejected \cup {i} ELSE rejected
    /\ UNCHANGED <<host, chatter>>

Overhear ==
    /\ chatter < MaxChatter /\ chatter' = chatter + 1
    /\ \E n \in Neighbours : inbox' = Append(inbox, Heard(n))
    /\ UNCHANGED <<host, rx, radio>>

Apply == \/ SendAdmin \/ SendFails \/ Latch \/ ProbeSilent \/ AwaitAck \/ AckTimeout
         \/ DrainNotifications \/ DrainEnds \/ ObserveCommit \/ ObserveEnds
Next == Apply \/ Take \/ Overhear
Spec == Init /\ [][Next]_vars

-----------------------------------------------------------------------------
(* Properties.                                                             *)

Nodes  == {Me} \cup Neighbours
Frames == [kind : {"mesh", "ack", "nak", "rebooted"}, from : Nodes \cup {0}, req : -1 .. LastPacket]

TypeOK ==
    /\ given \in {0, Me} /\ to \in Nodes \cup {0} /\ cur \in 0 .. LastPacket
    /\ pc \in {"send", "probing", "await", "drain", "observe", "done", "failed"}
    /\ pc = "probing" => cur = 0
    /\ pc \in {"await", "drain"} => cur \in 1 .. LastPacket - 1
    /\ rx \in Seq([id : 0 .. LastPacket, to : Nodes \cup {0}])
    /\ inbox \in Seq(Frames) /\ chatter \in 0 .. MaxChatter /\ rebooted \in BOOLEAN
    /\ \A S \in {blamed, timedOut, taken, abroad, rejected} : S \subseteq 0 .. LastPacket

\* The waits pace the stream (admin.go:252-260): a packet whose wait did not run
\* out has left the radio's buffer before the next is sent.
Paced == \A i \in 1 .. cur - 1 : i \in taken \cup timedOut

\* A rejection names the packet that was rejected, and every one is reported whose
\* answer comes within the packet's own wait (admin.go:257): the others are late, or
\* nobody has read them yet.
Blame ==
    /\ blamed \subseteq rejected
    /\ \A i \in rejected \ {0} :
         i \in blamed \/ i \in timedOut \/ \E k \in DOMAIN inbox : inbox[k].kind = "nak" /\ inbox[k].req = i

\* Every write is for the connected radio if the read gave its number, or if the
\* mesh is silent (admin.go:190).
AddressedHere == given # 0 \/ chatter = 0 => abroad = {}
=============================================================================
