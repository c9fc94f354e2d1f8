----------------------------- MODULE SessionStore -----------------------------
(* The saved login of internal/session: one file that several rmesh processes *)
(* load, save and clear, and the file of an older version, the legacy path,   *)
(* which the first load moves to the new one. Nothing locks either file.      *)
(*                                                                            *)
(* One action is one system call on a file. A process may be killed between   *)
(* any two. A file that was removed lives on for those who have it open.      *)
EXTENDS Naturals

CONSTANTS
    Procs,
    Sessions,       \* what logins receive
    None,           \* no such file
    Empty, Torn,    \* a file without content, and one with a mixture
    Unknown,
    MaxOps          \* commands run

SessionAssumption ==
    /\ {None, Empty, Torn, Unknown} \cap Sessions = {}
    /\ None \notin {Empty, Torn, Unknown} /\ Empty \notin {Torn, Unknown} /\ Torn # Unknown
    /\ MaxOps \in Nat
ASSUME SessionAssumption

VARIABLES
    path, legacy,   \* the two files
    linked,         \* processes whose open file is the one at path
    pc, hand,       \* per process: place, and the session it has
    op,             \* per process: its command
    verdict,        \* per process: how the last command ended
    ops,            \* counted against MaxOps
    solo,           \* nobody else ran since this one started
    last,           \* what the last undisturbed login or logout left
    owned, harmed   \* a session was there; a write was cut or overlapped

files == <<path, legacy, linked>>
history == <<solo, last, owned, harmed>>
vars == <<path, legacy, linked, pc, hand, op, verdict, ops, solo, last, owned, harmed>>

Files == Sessions \cup {None, Empty, Torn}

Init ==
    /\ path \in Sessions \cup {None} /\ legacy \in Sessions \cup {None, Torn}
    /\ linked = {}
    /\ pc = [p \in Procs |-> "idle"] /\ hand = [p \in Procs |-> None]
    /\ op = [p \in Procs |-> "load"] /\ verdict = [p \in Procs |-> "none"]
    /\ ops = 0 /\ solo = {} /\ last = Unknown /\ harmed = FALSE
    /\ owned = (path \in Sessions \/ (path = None /\ legacy \in Sessions))

Goto(p, where) == pc' = [pc EXCEPT ![p] = where]
End(p, v) == Goto(p, "idle") /\ verdict' = [verdict EXCEPT ![p] = v]

(* requireSession and status load, login and logout are the other two. A       *)
(* logout ends what was owned.                                                 *)
FirstStep == [load |-> "load", login |-> "request", logout |-> "remove"]

Start(p, o) ==
    /\ pc[p] = "idle" /\ ops < MaxOps
    /\ ops' = ops + 1
    /\ op' = [op EXCEPT ![p] = o]
    /\ Goto(p, FirstStep[o])
    /\ verdict' = [verdict EXCEPT ![p] = "none"]
    /\ solo' = IF \A q \in Procs \ {p} : pc[q] = "idle" THEN {p} ELSE {}
    /\ last' = IF o = "load" THEN last ELSE Unknown
    /\ owned' = (owned /\ o # "logout")
    /\ UNCHANGED <<files, hand, harmed>>

(* A command killed while it has the file open leaves what was written so far. *)
Kill(p) ==
    /\ pc[p] # "idle"
    /\ End(p, "killed")
    /\ linked' = linked \ {p}
    /\ harmed' = (harmed \/ pc[p] = "write")
    /\ UNCHANGED <<path, legacy, hand, op, ops, solo, last, owned>>

Bug_LegacyFirst(p) ==
    /\ pc[p] = "load"
    /\ \/ legacy # None /\ Goto(p, "legacy") /\ UNCHANGED <<hand, verdict>>
       \/ legacy = None /\ path \in Sessions /\ hand' = [hand EXCEPT ![p] = path] /\ End(p, "in")
       \/ legacy = None /\ path \notin Sessions /\ End(p, "out") /\ UNCHANGED hand
    /\ UNCHANGED <<files, op, ops, history>>

(* An error other than a missing file, and a file that does not parse, fail.   *)
ReadPath(p) ==
    /\ pc[p] = "load"
    /\ \/ path \in Sessions /\ hand' = [hand EXCEPT ![p] = path] /\ End(p, "in")
       \/ path = None /\ Goto(p, "legacy") /\ UNCHANGED <<hand, verdict>>
       \/ path # None /\ End(p, "error") /\ UNCHANGED hand
    /\ UNCHANGED <<files, op, ops, history>>

Bug_MigrateAnything(p) ==
    /\ pc[p] = "legacy"
    /\ \/ legacy # None /\ hand' = [hand EXCEPT ![p] = legacy] /\ Goto(p, "open") /\ UNCHANGED verdict
       \/ legacy = None /\ End(p, "out") /\ UNCHANGED hand
    /\ UNCHANGED <<files, op, ops, history>>

(* A legacy file that cannot be read is as good as none. *)
ReadLegacy(p) ==
    /\ pc[p] = "legacy"
    /\ \/ legacy \in Sessions /\ hand' = [hand EXCEPT ![p] = legacy] /\ Goto(p, "open") /\ UNCHANGED verdict
       \/ End(p, "out") /\ UNCHANGED hand
    /\ UNCHANGED <<files, op, ops, history>>

(* Login asks the server first. *)
Request(p) ==
    /\ pc[p] = "request"
    /\ \/ \E s \in Sessions : hand' = [hand EXCEPT ![p] = s] /\ Goto(p, "open") /\ UNCHANGED verdict
       \/ End(p, "error") /\ UNCHANGED hand
    /\ UNCHANGED <<files, op, ops, history>>

(* A save that fails fails a login. A load has its session all the same, and   *)
(* leaves the legacy file where it is.                                         *)
Bug_SaveFailed(p) ==
    IF op[p] = "login" THEN End(p, "error") ELSE Goto(p, "drop") /\ UNCHANGED verdict
SaveFailed(p) == End(p, IF op[p] = "login" THEN "error" ELSE "in")

(* os.WriteFile: open and truncate, then write. *)
Open(p) ==
    /\ pc[p] = "open"
    /\ \/ path' = Empty /\ linked' = linked \cup {p} /\ Goto(p, "write") /\ UNCHANGED verdict
       \/ SaveFailed(p) /\ UNCHANGED <<path, linked>>
    /\ UNCHANGED <<legacy, hand, op, ops, history>>

(* What a write leaves at path: nothing if the file was removed meanwhile, the *)
(* session, or a mixture if somebody else's longer content is under it.        *)
Written(p) ==
    IF p \notin linked THEN {path}
    ELSE IF path = Empty THEN {hand[p]} ELSE {hand[p], Torn}

WriteDone(p) ==
    IF op[p] = "login"
    THEN End(p, "in") /\ last' = IF p \in solo THEN hand[p] ELSE Unknown
    ELSE Goto(p, "drop") /\ UNCHANGED <<verdict, last>>

LogoutRuns == \E p \in Procs : op[p] = "logout" /\ pc[p] # "idle"

Write(p) ==
    /\ pc[p] = "write"
    /\ \/ path' \in Written(p) /\ WriteDone(p) /\ harmed' = (harmed \/ path' = Torn)
       \/ path' \in (IF p \in linked THEN {Empty, Torn} ELSE {path})
          /\ SaveFailed(p) /\ harmed' = TRUE /\ UNCHANGED last
    /\ linked' = linked \ {p}
    /\ owned' = (owned \/ (path' \in Sessions /\ ~LogoutRuns))
    /\ UNCHANGED <<legacy, hand, op, ops, solo>>

(* os.Remove of the new file, by a logout; its failure is reported. *)
RemovePath(p) ==
    /\ pc[p] = "remove"
    /\ \/ path' = None /\ linked' = {} /\ Goto(p, "drop") /\ UNCHANGED verdict
       \/ path # None /\ End(p, "error") /\ UNCHANGED <<path, linked>>
    /\ UNCHANGED <<legacy, hand, op, ops, history>>

(* os.Remove of the legacy file, after a migration or by a logout; nobody looks *)
(* at its failure. A session that a logout of somebody else made void may be    *)
(* the one removed here.                                                        *)
DropLegacy(p) ==
    /\ pc[p] = "drop"
    /\ \/ legacy' = None
          /\ last' = IF op[p] = "logout" /\ p \in solo THEN None ELSE last
       \/ legacy # None /\ UNCHANGED <<legacy, last>>
    /\ End(p, IF op[p] = "logout" THEN "out" ELSE "in")
    /\ UNCHANGED <<path, linked, hand, op, ops, solo, owned, harmed>>

Step(p) ==
    \/ \E o \in {"load", "login", "logout"} : Start(p, o)
    \/ ReadPath(p) \/ ReadLegacy(p) \/ Request(p)
    \/ Open(p) \/ Write(p) \/ RemovePath(p) \/ DropLegacy(p)
    \/ Kill(p)

Next == \E p \in Procs : Step(p)

Spec == Init /\ [][Next]_vars

------------------------------------------------------------------------------
(* Properties. *)

(* The variables have their types. *)
TypeOK ==
    /\ path \in Files /\ legacy \in Sessions \cup {None, Torn}
    /\ linked \subseteq Procs /\ solo \subseteq Procs
    /\ pc \in [Procs -> {"idle", "load", "legacy", "request", "open", "write", "remove", "drop"}]
    /\ hand \in [Procs -> Sessions \cup {None}]
    /\ \A p \in Procs : pc[p] \in {"open", "write"} => hand[p] \in Sessions
    /\ op \in [Procs -> {"load", "login", "logout"}]
    /\ verdict \in [Procs -> {"none", "in", "out", "error", "killed"}]
    /\ last \in Sessions \cup {None, Unknown} /\ ops \in 0 .. MaxOps
    /\ owned \in BOOLEAN /\ harmed \in BOOLEAN

(* What an undisturbed login or logout left stays until the next of them: no    *)
(* later load, however it is interleaved with others, brings an older session   *)
(* back or makes the new one unreadable (Load's migration, store.go:52-78).     *)
LastWordHolds ==
    /\ last \in Sessions => path = last
    /\ last = None => path = None /\ legacy = None

(* Without a logout a session is not lost: one of the files holds it, or a      *)
(* process is about to write it, unless a write was killed, failed or           *)
(* overlapped (Load removes the legacy file only after its save).               *)
SessionNotLost ==
    owned /\ ~harmed =>
        \/ path \in Sessions
        \/ path = None /\ legacy \in Sessions
        \/ \E p \in linked : pc[p] = "write"
===============================================================================
