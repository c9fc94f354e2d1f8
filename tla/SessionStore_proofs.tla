------------------------- MODULE SessionStore_proofs -------------------------
(* The saved login, for any number of processes, commands and sessions.       *)
EXTENDS SessionStore, TLAPS

USE DEF SessionAssumption

LEMMA InitTypes == Init => TypeOK
<1> SUFFICES ASSUME Init PROVE TypeOK
  OBVIOUS
<1>1. path \in Files /\ legacy \in Sessions \cup {None, Torn} /\ linked \subseteq Procs /\ solo \subseteq Procs
  BY DEF Init, Files
<1>2. pc = [p \in Procs |-> "idle"] /\ hand = [p \in Procs |-> None]
  BY DEF Init
<1>3. op \in [Procs -> {"load", "login", "logout"}] /\ verdict \in [Procs -> {"none", "in", "out", "error", "killed"}]
  BY DEF Init
<1>4. last \in Sessions \cup {None, Unknown} /\ ops \in 0 .. MaxOps
  BY SessionAssumption DEF Init
<1>5. owned \in BOOLEAN /\ harmed \in BOOLEAN
  BY DEF Init
<1> QED
  BY <1>1, <1>2, <1>3, <1>4, <1>5 DEF TypeOK

LEMMA NextTypes == TypeOK /\ [Next]_vars => TypeOK'
<1> SUFFICES ASSUME TypeOK, [Next]_vars PROVE TypeOK'
  OBVIOUS
<1> USE SessionAssumption DEF TypeOK, Files, files, history, Goto, End
<1>1. CASE UNCHANGED vars
  BY <1>1 DEF vars
<1>2. ASSUME NEW p \in Procs, NEW o \in {"load", "login", "logout"}, Start(p, o) PROVE TypeOK'
  BY <1>2 DEF Start, FirstStep
<1>3. ASSUME NEW p \in Procs, ReadPath(p) \/ ReadLegacy(p) \/ Request(p) PROVE TypeOK'
  BY <1>3 DEF ReadPath, ReadLegacy, Request
<1>4. ASSUME NEW p \in Procs, Open(p) PROVE TypeOK'
  BY <1>4 DEF Open, SaveFailed
<1>5. ASSUME NEW p \in Procs, Write(p) PROVE TypeOK'
  <2>1. path' \in Files /\ last' \in Sessions \cup {None, Unknown}
    BY <1>5 DEF Write, Written, WriteDone
  <2>2. UNCHANGED <<legacy, hand, op, ops, solo>> /\ linked' \subseteq Procs
    BY <1>5 DEF Write
  <2>3. /\ pc' = [pc EXCEPT ![p] = "idle"] \/ pc' = [pc EXCEPT ![p] = "drop"]
        /\ verdict' \in [Procs -> {"none", "in", "out", "error", "killed"}]
    BY <1>5 DEF Write, WriteDone, SaveFailed
  <2>4. owned' \in BOOLEAN /\ harmed' \in BOOLEAN
    BY <1>5 DEF Write
  <2> QED
    BY <2>1, <2>2, <2>3, <2>4
<1>6. ASSUME NEW p \in Procs, RemovePath(p) \/ DropLegacy(p) PROVE TypeOK'
  BY <1>6 DEF RemovePath, DropLegacy
<1>7. ASSUME NEW p \in Procs, Kill(p) PROVE TypeOK'
  BY <1>7 DEF Kill
<1> QED
  BY <1>1, <1>2, <1>3, <1>4, <1>5, <1>6, <1>7 DEF Next, Step

(* The two files hold sessions, nothing or the remains of a write, and a process *)
(* that is about to save has a session in hand (store.go:81-115).               *)
THEOREM StoreTypeCorrect == Spec => []TypeOK
  BY InitTypes, NextTypes, PTL DEF Spec

------------------------------------------------------------------------------
\* Who started alone has run alone so far; an undisturbed login is at its own,
\* empty file when it writes. While the last word stands, only loads run that
\* have not found anything to migrate.
WordInv ==
    /\ \A p \in solo : pc[p] # "idle" => \A q \in Procs \ {p} : pc[q] = "idle"
    /\ \A p \in solo : pc[p] = "write" => p \in linked /\ path = Empty
    /\ \A p \in solo : op[p] = "logout" /\ pc[p] = "drop" => path = None
    /\ \A p \in Procs :
        /\ pc[p] \in {"load", "legacy"} => op[p] = "load"
        /\ pc[p] = "request" => op[p] = "login"
        /\ pc[p] \in {"open", "write"} => op[p] # "logout"
    /\ last \in Sessions => path = last /\ \A p \in Procs : pc[p] \in {"idle", "load"}
    /\ last = None =>
        /\ path = None /\ legacy = None
        /\ \A p \in Procs : pc[p] \in {"idle", "load", "legacy"}

LEMMA InitWord == Init => WordInv
  BY SessionAssumption DEF Init, WordInv

LEMMA NextWord == TypeOK /\ WordInv /\ [Next]_vars => WordInv'
<1> SUFFICES ASSUME TypeOK, WordInv, [Next]_vars PROVE WordInv'
  OBVIOUS
<1> USE SessionAssumption DEF TypeOK, WordInv, files, history, Goto, End
<1>1. CASE UNCHANGED vars
  BY <1>1 DEF vars
<1>2. ASSUME NEW p \in Procs, NEW o \in {"load", "login", "logout"}, Start(p, o) PROVE WordInv'
  BY <1>2 DEF Start, FirstStep
<1>3. ASSUME NEW p \in Procs, ReadPath(p) \/ ReadLegacy(p) \/ Request(p) PROVE WordInv'
  BY <1>3 DEF ReadPath, ReadLegacy, Request
<1>4. ASSUME NEW p \in Procs, Open(p) PROVE WordInv'
  BY <1>4 DEF Open, SaveFailed
<1>5. ASSUME NEW p \in Procs, Write(p) PROVE WordInv'
  <2>1. UNCHANGED <<legacy, hand, op, ops, solo>> /\ linked' = linked \ {p} /\ pc[p] = "write"
    BY <1>5 DEF Write
  <2>2. /\ pc' = [pc EXCEPT ![p] = "idle"] \/ pc' = [pc EXCEPT ![p] = "drop"]
        /\ last \notin Sessions /\ last # None
    BY <1>5 DEF Write, WriteDone, SaveFailed
  <2>3. last' \in Sessions \cup {None} => p \in solo /\ op[p] = "login" /\ pc' = [pc EXCEPT ![p] = "idle"] /\ last' = path' /\ last' \in Sessions
    <3>1. CASE path' \in Written(p) /\ WriteDone(p)
      <4>1. hand[p] \in Sessions /\ (p \in solo => path' = hand[p])
        BY <2>1, <3>1 DEF Written
      <4>2. CASE op[p] = "login"
        BY <2>2, <3>1, <4>1, <4>2 DEF WriteDone
      <4>3. CASE op[p] # "login"
        BY <2>2, <3>1, <4>3 DEF WriteDone
      <4> QED
        BY <4>2, <4>3
    <3>2. CASE SaveFailed(p) /\ UNCHANGED last
      BY <2>2, <3>2
    <3> QED
      BY <1>5, <3>1, <3>2 DEF Write
  <2>4. last' \in Sessions \cup {None} => last' \in Sessions /\ path' = last' /\ \A q \in Procs : pc'[q] = "idle"
    BY <2>1, <2>2, <2>3
  <2>5. \A q \in solo : pc'[q] # "idle" => \A r \in Procs \ {q} : pc'[r] = "idle"
    BY <2>1, <2>2
  <2>6. \A q \in solo : pc'[q] # "write"
    BY <2>1, <2>2
  <2>7. \A q \in solo : op[q] = "logout" => pc'[q] # "drop"
    BY <2>1, <2>2
  <2>8. \A q \in Procs : pc'[q] = pc[q] \/ pc'[q] \in {"idle", "drop"}
    BY <2>1, <2>2
  <2> QED
    BY <2>1, <2>4, <2>5, <2>6, <2>7, <2>8
<1>6. ASSUME NEW p \in Procs, RemovePath(p) PROVE WordInv'
  BY <1>6 DEF RemovePath
<1>7. ASSUME NEW p \in Procs, DropLegacy(p) PROVE WordInv'
  BY <1>7 DEF DropLegacy
<1>8. ASSUME NEW p \in Procs, Kill(p) PROVE WordInv'
  BY <1>8 DEF Kill
<1> QED
  BY <1>1, <1>2, <1>3, <1>4, <1>5, <1>6, <1>7, <1>8 DEF Next, Step

(* The last undisturbed login or logout stands, whatever loads follow it and     *)
(* however they are interleaved and killed (store.go:52-132).                   *)
THEOREM TheLastWordHolds == Spec => []LastWordHolds
<1>1. WordInv => LastWordHolds
  BY DEF WordInv, LastWordHolds
<1> QED
  BY InitTypes, NextTypes, InitWord, NextWord, <1>1, PTL DEF Spec

------------------------------------------------------------------------------
\* While a session is owned no logout runs, so the file a migration has opened
\* or written is there, and what it removes is a copy.
OwnedInv ==
    /\ \A p \in Procs : (pc[p] = "remove" => op[p] = "logout") /\ (pc[p] = "drop" => op[p] # "login")
    /\ owned => ~LogoutRuns
    /\ owned => \A p \in Procs : pc[p] = "write" \/ (pc[p] = "drop" /\ op[p] = "load") => path # None
    /\ SessionNotLost

LEMMA InitOwned == Init => OwnedInv
  BY SessionAssumption DEF Init, OwnedInv, LogoutRuns, SessionNotLost

LEMMA NextOwned == TypeOK /\ OwnedInv /\ [Next]_vars => OwnedInv'
<1> SUFFICES ASSUME TypeOK, OwnedInv, [Next]_vars PROVE OwnedInv'
  OBVIOUS
<1> USE SessionAssumption DEF TypeOK, OwnedInv, LogoutRuns, SessionNotLost, files, history, Goto, End
<1>1. CASE UNCHANGED vars
  BY <1>1 DEF vars
<1>2. ASSUME NEW p \in Procs, NEW o \in {"load", "login", "logout"}, Start(p, o) PROVE OwnedInv'
  <2>1. UNCHANGED <<path, legacy, linked, harmed>> /\ pc[p] = "idle" /\ pc' = [pc EXCEPT ![p] = FirstStep[o]] /\ op' = [op EXCEPT ![p] = o]
    BY <1>2 DEF Start
  <2>2. FirstStep[o] \notin {"write", "drop"}
    BY DEF FirstStep
  <2>3. owned' => owned /\ o # "logout"
    BY <1>2 DEF Start
  <2>4. \A q \in Procs : pc'[q] \in {"write", "drop"} => pc[q] = pc'[q] /\ op'[q] = op[q]
    BY <2>1, <2>2
  <2>5. \A q \in Procs : pc'[q] = "remove" => op'[q] = "logout"
    BY <2>1 DEF FirstStep
  <2>6. owned' => ~LogoutRuns'
    BY <2>1, <2>3
  <2>7. SessionNotLost'
    BY <2>1, <2>3
  <2>8. owned' => \A q \in Procs : pc'[q] = "write" \/ (pc'[q] = "drop" /\ op'[q] = "load") => path' # None
    BY <2>1, <2>3, <2>4
  <2> QED
    BY <2>4, <2>5, <2>6, <2>7, <2>8
<1>3. ASSUME NEW p \in Procs, ReadPath(p) \/ ReadLegacy(p) \/ Request(p) PROVE OwnedInv'
  BY <1>3 DEF ReadPath, ReadLegacy, Request
<1>4. ASSUME NEW p \in Procs, Open(p) PROVE OwnedInv'
  BY <1>4 DEF Open, SaveFailed
<1>5. ASSUME NEW p \in Procs, Write(p) PROVE OwnedInv'
  BY <1>5 DEF Write, Written, WriteDone, SaveFailed
<1>6. ASSUME NEW p \in Procs, RemovePath(p) PROVE OwnedInv'
  BY <1>6 DEF RemovePath
<1>7. ASSUME NEW p \in Procs, DropLegacy(p) PROVE OwnedInv'
  BY <1>7 DEF DropLegacy
<1>8. ASSUME NEW p \in Procs, Kill(p) PROVE OwnedInv'
  BY <1>8 DEF Kill
<1> QED
  BY <1>1, <1>2, <1>3, <1>4, <1>5, <1>6, <1>7, <1>8 DEF Next, Step

(* Without a logout no session is lost but by a write that was cut short, failed *)
(* or overlapped (Load's migration, store.go:66-76).                            *)
THEOREM MigrationLosesNothing == Spec => []SessionNotLost
<1>1. OwnedInv => SessionNotLost
  BY DEF OwnedInv
<1> QED
  BY InitTypes, NextTypes, InitOwned, NextOwned, <1>1, PTL DEF Spec
===============================================================================
