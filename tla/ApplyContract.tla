---------------------------- MODULE ApplyContract ----------------------------
(***************************************************************************)
(* What `copy --to device` promises the operator, with the passes, the     *)
(* transaction and the link left out: the session looks at the device any  *)
(* number of times, writes only sections it has seen to differ, and ends   *)
(* with a verdict its last look supports.                                  *)
(***************************************************************************)
CONSTANT Sections      \* sections a payload may carry

VARIABLES mayWrite,    \* FALSE under --dry-run
          unmet,       \* sections the last look found different
          offered,     \* sections the session has sent a write for
          verdict

vars == <<mayWrite, unmet, offered, verdict>>

Success == {"matched", "applied"}
Declined == {"refused", "dryrun"}
Unfinished == {"drift", "stalled"}
Failed == {"failed", "exhausted"}

Init == /\ mayWrite \in BOOLEAN
        /\ unmet \in SUBSET Sections
        /\ offered = {}
        /\ verdict = "running"

Look == /\ verdict = "running"
        /\ unmet' \in SUBSET Sections
        /\ UNCHANGED <<mayWrite, offered, verdict>>

Write(s) == /\ verdict = "running" /\ mayWrite
            /\ s \in unmet
            /\ offered' = offered \cup {s}
            /\ UNCHANGED <<mayWrite, unmet, verdict>>

\* Nothing was written: consent was missing, or only a preview was asked for.
Decline == /\ verdict = "running"
           /\ offered = {}
           /\ verdict' \in Declined
           /\ UNCHANGED <<mayWrite, unmet, offered>>

\* "matched" also says that the session wrote nothing.
Succeed == /\ verdict = "running"
           /\ unmet = {}
           /\ verdict' \in {v \in Success : v = "matched" => offered = {}}
           /\ UNCHANGED <<mayWrite, unmet, offered>>

\* Drift and stall reports name the sections still different.
Report == /\ verdict = "running"
          /\ unmet # {}
          /\ verdict' \in Unfinished
          /\ UNCHANGED <<mayWrite, unmet, offered>>

\* An error, possibly in the same step as a last unsuccessful look.
Fail == /\ verdict = "running"
        /\ verdict' \in Failed
        /\ UNCHANGED <<mayWrite, unmet, offered>>

Next == Look \/ (\E s \in Sections : Write(s)) \/ Decline \/ Succeed \/ Report \/ Fail

Spec == Init /\ [][Next]_vars
=============================================================================
