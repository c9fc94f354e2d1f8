------------------------- MODULE ApplySession_proofs -------------------------
(***************************************************************************)
(* Proofs about ApplySession for every set of sections, every option and   *)
(* every fault budget: its type invariant, that no path leaks the          *)
(* transport, and that the session implements ApplyContract.               *)
(***************************************************************************)
EXTENDS ApplySession, TLAPS, FiniteSetTheorems

USE SectionsAssumption, OptionsAssumption DEF Sweep, Unanswered, Parses

\* Every set of sections the session counts is finite.
LEMMA CountIsNat ==
    ASSUME NEW S \in SUBSET Sections
    PROVE  Cardinality(S) \in Nat
BY FS_Subset, FS_CardinalityType

\* The flags and the payload never change.
LEMMA OptsFixed == [Next]_vars => opts' = opts
BY Zenon DEF Next, Host, vars, radio, loop, OpenTransport, ReadState, RefuseRegion, Preview,
   Prime, NothingLeft, Stalled, StartApply, BeginEdit, SendSection, CommitEdit,
   ObserveCommit, Reread, Accept, JudgeDrift, ForceReboot, AwaitForcedReboot,
   AwaitBandReboot, PollBand, ScheduledReboot, PowerGlitch, LinkDrop, EndPlan

LEMMA PayloadFixed == [Next]_vars => Intended' = Intended
BY OptsFixed DEF Intended

\* What the payload carries are sections.
LEMMA IntendedType == TypeOK => Intended \subseteq Sections
BY DEF TypeOK, Intended

USE IntendedType

\* Unmet is a set of intended sections, as long as the state is well typed.
LEMMA UnmetType == TypeOK => Unmet \in SUBSET Intended /\ Unmet \in SUBSET Sections
BY DEF TypeOK, Unmet

LEMMA MaxIntType == MaxInt \in Nat
BY CountIsNat DEF MaxInt

\* A read yields a value or "absent" for every section.
LEMMA SeenType ==
    TypeOK => \A lost \in SUBSET Sections :
                 /\ Seen(lost) \in [Sections -> Value \cup {"absent"}]
                 /\ Present(Seen(lost)) \in SUBSET Sections
BY DEF TypeOK, Seen, Present

\* The stall counter of a pass that goes on is 0 or 1.
LEMMA NewStallType == TypeOK /\ NewStall < 2 => NewStall \in 0 .. 1
<1> SUFFICES ASSUME TypeOK, NewStall < 2 PROVE NewStall \in 0 .. 1
  OBVIOUS
<1>1. stall \in 0 .. 1
  BY DEF TypeOK
<1>2. CASE pass = 1
  BY <1>1, <1>2 DEF NewStall
<1>3. CASE pass # 1 /\ Cardinality(Unmet) >= prevSize
  BY <1>1, <1>3 DEF NewStall
<1>4. CASE pass # 1 /\ ~(Cardinality(Unmet) >= prevSize)
  BY <1>1, <1>4 DEF NewStall
<1> QED BY <1>2, <1>3, <1>4

\* The loop's own bookkeeping keeps its types.
LEMMA NextPassType ==
    TypeOK /\ NextPass => /\ pass' \in 1 .. MaxPasses /\ pc' \in PCs
                          /\ attempt' \in 1 .. MaxReadAttempts
                          /\ verdict' \in Verdicts
BY DEF TypeOK, NextPass, PCs, Verdicts

LEMMA FaultType ==
    ASSUME TypeOK, NEW k, NoFault \/ Fault(k)
    PROVE  faults' \in 0 .. FaultBudget /\ struck' \subseteq Faults
BY DEF TypeOK, NoFault, Fault
-----------------------------------------------------------------------------
(* Type correctness: one step per action.                                  *)

\* The two halves of TypeOK, the flags and the rest: no one backend reasons
\* about both booleans and numbers.
FlagsOK == /\ checked \in BOOLEAN /\ primed \in BOOLEAN /\ rebooted \in BOOLEAN
           /\ txn \in BOOLEAN /\ rebootDue \in BOOLEAN
           /\ opts \in [allow : BOOLEAN, dryRun : BOOLEAN, payload : Payloads]
DataOK ==
    /\ pc \in PCs /\ verdict \in Verdicts
    /\ pass \in 1 .. MaxPasses /\ attempt \in 1 .. MaxReadAttempts
    /\ conn \in {"closed", "open", "broken"}
    /\ view \in [Sections -> Value \cup {"absent"}]
    /\ scope \in SUBSET Intended /\ unsent \in SUBSET scope
    /\ preCount \in Nat \cup {-1} /\ prevSize \in Nat \cup {-1}
    /\ stall \in 0 .. 1 /\ forced \in Nat
    /\ flash \in [Sections -> Value] /\ ram \in [Sections -> Value]
    /\ faults \in 0 .. FaultBudget
    /\ offered \in SUBSET Intended /\ struck \subseteq Faults

LEMMA Halves == /\ TypeOK <=> FlagsOK /\ DataOK
                /\ TypeOK' <=> FlagsOK' /\ DataOK'
BY DEF TypeOK, FlagsOK, DataOK

LEMMA InitType == Init => TypeOK
<1>1. Init => FlagsOK
  BY Zenon DEF Init, FlagsOK
<1>2. Init => DataOK
  BY SMT DEF Init, DataOK, PCs, Verdicts, Value
<1> QED BY <1>1, <1>2, Halves

\* Only the current section sent, or the lora section of a crossing, joins
\* `offered`; both are intended ones.
LEMMA CrossingIsIntended == RegionCrossing => LoRa \in Intended
BY DEF RegionCrossing, WantedRegion

LEMMA NextType == TypeOK /\ [Next]_vars => TypeOK'
<1> SUFFICES ASSUME TypeOK, [Next]_vars PROVE TypeOK'
  OBVIOUS
<1>o. Intended' = Intended /\ Intended \subseteq Sections
  BY PayloadFixed
<1> USE <1>o DEF Value, PCs, Verdicts, radio, loop, NoFault, Fault, Finish
<1>1. CASE OpenTransport
  BY <1>1 DEF TypeOK, OpenTransport
<1>2. CASE ReadState
  BY <1>2, SeenType DEF TypeOK, ReadState
<1>3. CASE RefuseRegion
  BY <1>3 DEF TypeOK, RefuseRegion, EndPlan
<1>4. CASE Preview
  BY <1>4 DEF TypeOK, Preview, EndPlan
<1>5. CASE Prime
  <2>1. LoRa \in Intended
    BY <1>5, CrossingIsIntended DEF Prime, PrimeDue
  <2>2. /\ NoFault \/ Fault("senderr") \/ Fault("lose")
        /\ offered' = offered \/ offered' = offered \cup {LoRa}
        /\ flash' = flash \/ flash' = [flash EXCEPT ![LoRa] = "primed"]
        /\ ram' = ram \/ ram' = [ram EXCEPT ![LoRa] = "primed"]
        /\ Finish("failed") \/ (pc' = "bandwait" /\ UNCHANGED <<conn, verdict>>)
        /\ UNCHANGED <<pass, attempt, view, scope, unsent, preCount, prevSize,
                       stall, forced>>
    BY <1>5, Zenon DEF Prime
  <2>3. DataOK'
    BY <2>1, <2>2, FaultType, SMT DEF DataOK, TypeOK
  <2>4. FlagsOK'
    BY <1>5, Zenon DEF FlagsOK, TypeOK, Prime
  <2> QED BY <2>3, <2>4, Halves
<1>6. CASE NothingLeft
  BY <1>6 DEF TypeOK, NothingLeft, EndPlan
<1>7. CASE Stalled
  BY <1>7 DEF TypeOK, Stalled, EndPlan
<1>8. CASE StartApply
  <2>1. /\ Unmet \in SUBSET Intended
        /\ Cardinality(Unmet) \in Nat
        /\ Cardinality(Present(view)) \in Nat
    BY UnmetType, CountIsNat DEF TypeOK, Present
  <2>2. NewStall \in 0 .. 1
    BY <1>8, NewStallType DEF StartApply
  <2> QED BY <1>8, <2>1, <2>2 DEF TypeOK, StartApply
<1>9. CASE BeginEdit
  <2>1. /\ NoFault \/ Fault("senderr") \/ Fault("lose")
        /\ \/ conn' = "closed" /\ NextPass
           \/ Finish("failed") /\ UNCHANGED <<pass, attempt>>
           \/ pc' = "send" /\ UNCHANGED <<pass, attempt, conn, verdict>>
        /\ UNCHANGED <<flash, ram, view, scope, unsent, preCount, prevSize, stall,
                       forced, offered>>
    BY <1>9, Zenon DEF BeginEdit, Disconnected, SendError
  <2>2. DataOK'
    BY <2>1, FaultType, NextPassType, SMT DEF DataOK, TypeOK
  <2>3. FlagsOK'
    BY <1>9, Zenon DEF FlagsOK, TypeOK, BeginEdit
  <2> QED BY <2>2, <2>3, Halves
<1>10. CASE SendSection
  BY <1>10, NextPassType DEF TypeOK, SendSection, Disconnected, SendError, TakeSet
<1>11. CASE CommitEdit
  <2>1. /\ NoFault \/ Fault("senderr") \/ Fault("lose") \/ Fault("abort")
        /\ \/ conn' = "closed" /\ NextPass
           \/ Finish("failed") /\ UNCHANGED <<pass, attempt>>
           \/ pc' = "observe" /\ UNCHANGED <<pass, attempt, conn, verdict>>
        /\ flash' \in {flash, ram}
        /\ UNCHANGED <<ram, view, scope, unsent, preCount, prevSize, stall,
                       forced, offered>>
    BY <1>11, Zenon DEF CommitEdit, Disconnected, SendError
  <2>2. DataOK'
    BY <2>1, FaultType, NextPassType, SMT DEF DataOK, TypeOK
  <2>3. FlagsOK'
    BY <1>11, Zenon DEF FlagsOK, TypeOK, CommitEdit
  <2> QED BY <2>2, <2>3, Halves
<1>12. CASE ObserveCommit
  BY <1>12 DEF TypeOK, ObserveCommit
<1>13. CASE Reread
  <2>1. /\ conn' = "closed"
        /\ UNCHANGED <<flash, ram, scope, unsent, preCount, prevSize, stall, forced,
                       offered>>
    BY <1>13, Zenon DEF Reread
  <2>2. \/ (NoFault \/ Fault("readerr")) /\ NextPass /\ UNCHANGED <<view>>
        \/ \E lost \in SUBSET Sections :
              /\ NoFault \/ Fault("partial")
              /\ \/ NextPass /\ UNCHANGED <<view>>
                 \/ /\ view' = Seen(lost) /\ pc' = "judge"
                    /\ UNCHANGED <<pass, attempt, verdict>>
    BY <1>13, Zenon DEF Reread
  <2>3. DataOK'
    BY <2>1, <2>2, FaultType, NextPassType, SeenType, SMT DEF DataOK, TypeOK
  <2>4. FlagsOK'
    BY <1>13, Zenon DEF FlagsOK, TypeOK, Reread
  <2> QED BY <2>3, <2>4, Halves
<1>14. CASE Accept
  BY <1>14 DEF TypeOK, Accept
<1>15. CASE JudgeDrift
  BY <1>15, NextPassType DEF TypeOK, JudgeDrift
<1>16. CASE ForceReboot
  <2>1. /\ NoFault \/ Fault("senderr") \/ Fault("lose") \/ Fault("noopen")
        /\ \/ Finish("drift")
           \/ pc' = "forcewait" /\ conn' = "open" /\ UNCHANGED verdict
        /\ UNCHANGED <<pass, attempt, flash, ram, view, scope, unsent, preCount,
                       prevSize, stall, forced, offered>>
    BY <1>16, Zenon DEF ForceReboot
  <2>2. DataOK'
    BY <2>1, FaultType, SMT DEF DataOK, TypeOK
  <2>3. FlagsOK'
    BY <1>16, Zenon DEF FlagsOK, TypeOK, ForceReboot
  <2> QED BY <2>2, <2>3, Halves
<1>17. CASE AwaitForcedReboot
  BY <1>17, NextPassType DEF TypeOK, AwaitForcedReboot, DrainEnds
<1>18. CASE AwaitBandReboot
  BY <1>18 DEF TypeOK, AwaitBandReboot, DrainEnds
<1>19. CASE PollBand
  <2>1. /\ NoFault \/ Fault("slow") \/ Fault("noopen")
        /\ \/ NextPass /\ UNCHANGED conn
           \/ Finish("failed") /\ UNCHANGED <<pass, attempt>>
        /\ preCount' \in {-1, preCount} /\ prevSize' \in {prevSize, MaxInt}
        /\ stall' \in {0, stall}
        /\ UNCHANGED <<flash, ram, view, scope, unsent, forced, offered>>
    BY <1>19, Zenon DEF PollBand
  <2>2. DataOK'
    BY <2>1, FaultType, NextPassType, MaxIntType, SMT DEF DataOK, TypeOK
  <2>3. FlagsOK'
    BY <1>19, Zenon DEF FlagsOK, TypeOK, PollBand
  <2> QED BY <2>2, <2>3, Halves
<1>20. CASE ScheduledReboot
  <2>1. /\ NoFault \/ Fault("crash")
        /\ conn' \in {conn, "broken"}
        /\ ram' = flash
        /\ UNCHANGED <<pc, pass, attempt, view, scope, unsent, preCount, prevSize,
                       stall, forced, verdict, flash, offered>>
    BY <1>20, Zenon DEF ScheduledReboot, Boot
  <2>2. DataOK'
    BY <2>1, FaultType, SMT DEF DataOK, TypeOK
  <2>3. FlagsOK'
    BY <1>20, Zenon DEF FlagsOK, TypeOK, ScheduledReboot, Boot
  <2> QED BY <2>2, <2>3, Halves
<1>21. CASE PowerGlitch
  <2>1. /\ NoFault \/ Fault("crash")
        /\ conn' \in {conn, "broken"}
        /\ ram' = flash
        /\ UNCHANGED <<pc, pass, attempt, view, scope, unsent, preCount, prevSize,
                       stall, forced, verdict, flash, offered>>
    BY <1>21, Zenon DEF PowerGlitch, Boot
  <2>2. DataOK'
    BY <2>1, FaultType, SMT DEF DataOK, TypeOK
  <2>3. FlagsOK'
    BY <1>21, Zenon DEF FlagsOK, TypeOK, PowerGlitch, Boot
  <2> QED BY <2>2, <2>3, Halves
<1>22. CASE LinkDrop
  BY <1>22 DEF TypeOK, LinkDrop
<1>23. CASE UNCHANGED vars
  BY <1>23 DEF TypeOK, vars
<1> QED BY <1>1, <1>2, <1>3, <1>4, <1>5, <1>6, <1>7, <1>8, <1>9, <1>10, <1>11,
           <1>12, <1>13, <1>14, <1>15, <1>16, <1>17, <1>18, <1>19, <1>20, <1>21,
           <1>22, <1>23 DEF Next, Host

\* Every reachable state is well typed: in particular the pass, attempt and
\* stall counters of device_config_apply.go:66-90 stay within their bounds.
THEOREM TypeCorrect == Spec => []TypeOK
BY InitType, NextType, PTL DEF Spec
-----------------------------------------------------------------------------
(* The transport is released on every path.                                *)

LEMMA NextHandle == TypeOK /\ HandleReleased /\ [Next]_vars => HandleReleased'
<1> SUFFICES ASSUME TypeOK, HandleReleased, [Next]_vars PROVE HandleReleased'
  OBVIOUS
<1> USE DEF NextPass, Finish
<1>1. CASE OpenTransport
  BY <1>1 DEF HandleReleased, OpenTransport
<1>2. CASE ReadState
  BY <1>2 DEF HandleReleased, ReadState
<1>3. CASE RefuseRegion
  BY <1>3 DEF HandleReleased, RefuseRegion, EndPlan
<1>4. CASE Preview
  BY <1>4 DEF HandleReleased, Preview, EndPlan
<1>5. CASE Prime
  BY <1>5 DEF HandleReleased, Prime
<1>6. CASE NothingLeft
  BY <1>6 DEF HandleReleased, NothingLeft, EndPlan
<1>7. CASE Stalled
  BY <1>7 DEF HandleReleased, Stalled, EndPlan
<1>8. CASE StartApply
  BY <1>8 DEF HandleReleased, StartApply
<1>9. CASE BeginEdit
  BY <1>9 DEF HandleReleased, BeginEdit, Disconnected, SendError
<1>10. CASE SendSection
  BY <1>10 DEF HandleReleased, SendSection, Disconnected, SendError
<1>11. CASE CommitEdit
  BY <1>11 DEF HandleReleased, CommitEdit, Disconnected, SendError
<1>12. CASE ObserveCommit
  BY <1>12 DEF HandleReleased, ObserveCommit
<1>13. CASE Reread
  BY <1>13 DEF HandleReleased, Reread
<1>14. CASE Accept
  BY <1>14 DEF HandleReleased, Accept
<1>15. CASE JudgeDrift
  BY <1>15 DEF HandleReleased, JudgeDrift
<1>16. CASE ForceReboot
  BY <1>16 DEF HandleReleased, ForceReboot
<1>17. CASE AwaitForcedReboot
  BY <1>17 DEF HandleReleased, AwaitForcedReboot
<1>18. CASE AwaitBandReboot
  BY <1>18 DEF HandleReleased, AwaitBandReboot
<1>19. CASE PollBand
  BY <1>19 DEF HandleReleased, PollBand
<1>20. CASE ScheduledReboot
  BY <1>20 DEF HandleReleased, ScheduledReboot, Boot
<1>21. CASE PowerGlitch
  BY <1>21 DEF HandleReleased, PowerGlitch, Boot
<1>22. CASE LinkDrop
  BY <1>22 DEF HandleReleased, LinkDrop
<1>23. CASE UNCHANGED vars
  BY <1>23 DEF HandleReleased, vars
<1> QED BY <1>1, <1>2, <1>3, <1>4, <1>5, <1>6, <1>7, <1>8, <1>9, <1>10, <1>11,
           <1>12, <1>13, <1>14, <1>15, <1>16, <1>17, <1>18, <1>19, <1>20, <1>21,
           <1>22, <1>23 DEF Next, Host

\* No path of applyPayloadToDevice leaks the transport (device_config_apply.go:
\* 222-225), however many faults there are and however long the loop runs.
THEOREM HandleAlwaysReleased == Spec => []HandleReleased
<1>1. Init => HandleReleased
  BY DEF Init, HandleReleased
<1> QED BY <1>1, TypeCorrect, NextHandle, PTL DEF Spec

-----------------------------------------------------------------------------
(* How the position in the loop limits what has been written.              *)

\* `continue` leaves the first pass for good, or ends the session.
LEMMA NextPassLater ==
    TypeOK /\ NextPass => \/ pc' = "open" /\ pass' # 1 /\ verdict' = verdict
                          \/ pc' = "done" /\ verdict' = "exhausted"
BY DEF TypeOK, NextPass

LEMMA NextOrdered == TypeOK /\ Ordered /\ [Next]_vars => Ordered'
<1> SUFFICES ASSUME TypeOK, Ordered, [Next]_vars PROVE Ordered'
  OBVIOUS
<1>o. Intended' = Intended
  BY PayloadFixed
<1> USE <1>o DEF Finish, loop, Unmet
<1>1. CASE OpenTransport
  BY <1>1 DEF Ordered, OpenTransport
<1>2. CASE ReadState
  BY <1>2 DEF Ordered, ReadState
<1>3. CASE RefuseRegion
  BY <1>3 DEF Ordered, RefuseRegion, EndPlan
<1>4. CASE Preview
  BY <1>4 DEF Ordered, Preview, EndPlan
<1>5. CASE Prime
  BY <1>5 DEF Ordered, Prime, PrimeDue
<1>6. CASE NothingLeft
  BY <1>6 DEF Ordered, NothingLeft, EndPlan
<1>7. CASE Stalled
  BY <1>7 DEF Ordered, Stalled, EndPlan
<1>8. CASE StartApply
  BY <1>8 DEF Ordered, StartApply, Planning
<1>9. CASE BeginEdit
  BY <1>9, NextPassLater DEF Ordered, BeginEdit, Disconnected, SendError
<1>10. CASE SendSection
  BY <1>10, NextPassLater DEF Ordered, SendSection, Disconnected, SendError
<1>11. CASE CommitEdit
  BY <1>11, NextPassLater DEF Ordered, CommitEdit, Disconnected, SendError
<1>12. CASE ObserveCommit
  BY <1>12 DEF Ordered, ObserveCommit
<1>13. CASE Reread
  BY <1>13, NextPassLater DEF Ordered, Reread
<1>14. CASE Accept
  BY <1>14 DEF Ordered, Accept
<1>15. CASE JudgeDrift
  BY <1>15, NextPassLater DEF Ordered, JudgeDrift
<1>16. CASE ForceReboot
  BY <1>16 DEF Ordered, ForceReboot
<1>17. CASE AwaitForcedReboot
  BY <1>17, NextPassLater DEF Ordered, AwaitForcedReboot
<1>18. CASE AwaitBandReboot
  BY <1>18 DEF Ordered, AwaitBandReboot
<1>19. CASE PollBand
  BY <1>19, NextPassLater DEF Ordered, PollBand
<1>20. CASE ScheduledReboot
  BY <1>20 DEF Ordered, ScheduledReboot, Boot
<1>21. CASE PowerGlitch
  BY <1>21 DEF Ordered, PowerGlitch, Boot
<1>22. CASE LinkDrop
  BY <1>22 DEF Ordered, LinkDrop
<1>23. CASE UNCHANGED vars
  BY <1>23 DEF Ordered, vars
<1> QED BY <1>1, <1>2, <1>3, <1>4, <1>5, <1>6, <1>7, <1>8, <1>9, <1>10, <1>11,
           <1>12, <1>13, <1>14, <1>15, <1>16, <1>17, <1>18, <1>19, <1>20, <1>21,
           <1>22, <1>23 DEF Next, Host

LEMMA OrderedAlways == Spec => []Ordered
<1>1. Init => Ordered
  BY DEF Init, Ordered
<1> QED BY <1>1, TypeCorrect, NextOrdered, PTL DEF Spec

\* SessionInv holds of every session (device_config_apply.go:78-270).
THEOREM SessionInvariant == Spec => []SessionInv
<1>1. Ordered /\ HandleReleased => SessionInv
  BY DEF SessionInv
<1> QED BY <1>1, OrderedAlways, HandleAlwaysReleased, PTL
-----------------------------------------------------------------------------
(* The session implements its contract.                                    *)

\* A crossing is one of the differences the read found.
LEMMA CrossingIsUnmet == RegionCrossing /\ scope = Intended => LoRa \in Unmet
BY CrossingIsIntended DEF RegionCrossing, WantedRegion, RegionOf, Unmet

LEMMA StepImplements ==
    TypeOK /\ TypeOK' /\ Ordered /\ [Next]_vars => [Contract!Next]_Contract!vars
<1> SUFFICES ASSUME TypeOK, TypeOK', Ordered, [Next]_vars
             PROVE  Contract!Next \/ UNCHANGED <<~opts.dryRun, Unmet, offered, verdict>>
  BY DEF Contract!vars
<1> USE DEF Finish, loop, Ordered, Contract!Next
<1>a. /\ UNCHANGED <<view, scope>> => UNCHANGED Unmet
      /\ Unmet \in SUBSET Sections /\ Unmet' \in SUBSET Sections
      /\ unsent \subseteq Sections /\ Intended \subseteq Sections
  <2>1. Intended' \subseteq Sections
    BY PayloadFixed
  <2> QED BY <2>1 DEF Unmet, TypeOK
<1>1. CASE OpenTransport
  BY <1>a, <1>1 DEF OpenTransport, Contract!Fail, Contract!Failed
<1>2. CASE ReadState
  BY <1>a, <1>2 DEF ReadState, Contract!Look, Contract!Fail, Contract!Failed
<1>3. CASE RefuseRegion
  BY <1>a, <1>3 DEF RefuseRegion, Refused, EndPlan, Contract!Decline, Contract!Declined
<1>4. CASE Preview
  BY <1>a, <1>4 DEF Preview, EndPlan, Contract!Decline, Contract!Declined
<1>5. CASE Prime
  BY <1>a, <1>5, CrossingIsIntended, CrossingIsUnmet DEF Prime, PrimeDue, Contract!Write, Contract!Fail, Contract!Failed
<1>6. CASE NothingLeft
  BY <1>a, <1>6 DEF NothingLeft, EndPlan, Planning, Contract!Succeed, Contract!Success
<1>7. CASE Stalled
  BY <1>a, <1>7 DEF Stalled, EndPlan, Planning, Contract!Report, Contract!Unfinished
<1>8. CASE StartApply
  BY <1>a, <1>8 DEF StartApply, Planning, Contract!Look
<1>9. CASE BeginEdit
  BY <1>a, <1>9, NextPassLater DEF BeginEdit, Disconnected, SendError, Contract!Fail, Contract!Failed
<1>10. CASE SendSection
  BY <1>a, <1>10, NextPassLater DEF SendSection, Disconnected, SendError, Contract!Write, Contract!Fail, Contract!Failed
<1>11. CASE CommitEdit
  BY <1>a, <1>11, NextPassLater DEF CommitEdit, Disconnected, SendError, Contract!Fail, Contract!Failed
<1>12. CASE ObserveCommit
  BY <1>a, <1>12 DEF ObserveCommit
<1>13. CASE Reread
  BY <1>a, <1>13, NextPassLater DEF Reread, Contract!Look, Contract!Fail, Contract!Failed
<1>14. CASE Accept
  BY <1>a, <1>14 DEF Accept, Contract!Succeed, Contract!Success
<1>15. CASE JudgeDrift
  BY <1>a, <1>15, NextPassLater DEF JudgeDrift, Contract!Fail, Contract!Failed, Contract!Report, Contract!Unfinished
<1>16. CASE ForceReboot
  BY <1>a, <1>16 DEF ForceReboot, Contract!Report, Contract!Unfinished
<1>17. CASE AwaitForcedReboot
  BY <1>a, <1>17, NextPassLater DEF AwaitForcedReboot, Contract!Fail, Contract!Failed, Contract!Report, Contract!Unfinished
<1>18. CASE AwaitBandReboot
  BY <1>a, <1>18 DEF AwaitBandReboot, Contract!Fail, Contract!Failed
<1>19. CASE PollBand
  BY <1>a, <1>19, NextPassLater DEF PollBand, Contract!Fail, Contract!Failed
<1>20. CASE ScheduledReboot
  BY <1>a, <1>20 DEF ScheduledReboot, Boot
<1>21. CASE PowerGlitch
  BY <1>a, <1>21 DEF PowerGlitch, Boot
<1>22. CASE LinkDrop
  BY <1>a, <1>22 DEF LinkDrop
<1>23. CASE UNCHANGED vars
  BY <1>a, <1>23 DEF vars, Contract!vars
<1> QED BY <1>1, <1>2, <1>3, <1>4, <1>5, <1>6, <1>7, <1>8, <1>9, <1>10, <1>11,
           <1>12, <1>13, <1>14, <1>15, <1>16, <1>17, <1>18, <1>19, <1>20, <1>21,
           <1>22, <1>23 DEF Next, Host

\* Whatever happens on the link, a success follows a read without differences,
\* a refusal or a preview wrote nothing, and only differences are written.
THEOREM SessionImplementsContract == Spec => ImplementsContract
<1>1. Init => Contract!Init
  <2> SUFFICES ASSUME Init PROVE Contract!Init
    OBVIOUS
  <2>1. scope \in SUBSET Sections
    BY InitType DEF TypeOK
  <2> QED BY <2>1 DEF Init, Contract!Init, Unmet
<1> QED BY <1>1, TypeCorrect, OrderedAlways, StepImplements, PTL
        DEF Spec, ImplementsContract, Contract!Spec

-----------------------------------------------------------------------------
\* The condition under which RegionConsent speaks.
Withheld == ~opts.allow /\ NoRegion \notin {OldRegion, NewRegion} /\ "partial" \notin struck

\* On a device of the old region the session stays in the reading part of the
\* first pass; on any other it never finds a region left to keep.
Gate == \/ /\ ram[LoRa] = "old" /\ flash[LoRa] = "old"
           /\ LoRa \in Intended =>
                /\ pc \in {"open", "read", "plan", "done"} /\ ~checked
                /\ pc = "plan" => view[LoRa] = "old"
        \/ ram[LoRa] # "old" /\ flash[LoRa] # "old"

ConsentInv == Withheld /\ OldRegion # NewRegion => Gate

\* A fault that has struck is never forgotten.
LEMMA StruckGrows == ASSUME TypeOK, [Next]_vars PROVE struck \subseteq struck'
<1> USE DEF NoFault, Fault
<1>1. CASE OpenTransport \/ ReadState \/ RefuseRegion \/ Preview \/ Prime \/ NothingLeft
           \/ Stalled \/ StartApply
  BY <1>1 DEF OpenTransport, ReadState, RefuseRegion, Preview, Prime, NothingLeft,
              Stalled, StartApply, EndPlan
<1>2. CASE BeginEdit \/ SendSection \/ CommitEdit \/ ObserveCommit \/ Reread
  BY <1>2 DEF BeginEdit, SendSection, CommitEdit, ObserveCommit, Reread, Disconnected, SendError
<1>3. CASE Accept \/ JudgeDrift \/ ForceReboot \/ AwaitForcedReboot \/ AwaitBandReboot
           \/ PollBand
  BY <1>3 DEF Accept, JudgeDrift, ForceReboot, AwaitForcedReboot, AwaitBandReboot, PollBand,
              DrainEnds
<1>4. CASE ScheduledReboot \/ PowerGlitch \/ LinkDrop \/ UNCHANGED vars
  BY <1>4 DEF ScheduledReboot, PowerGlitch, LinkDrop, vars
<1> QED BY <1>1, <1>2, <1>3, <1>4 DEF Next, Host

\* Every step keeps the session on its side of the consent gate.
LEMMA NextConsent ==
    ASSUME TypeOK, ConsentInv, [Next]_vars
    PROVE  ConsentInv'
<1> USE DEF NoFault, Fault, Finish, EndPlan, radio, loop
<1>o. Intended' = Intended
  BY PayloadFixed
<1> USE <1>o
<1>w. Withheld' => Withheld
  BY OptsFixed, StruckGrows DEF Withheld
<1> SUFFICES ASSUME Withheld, Withheld', OldRegion # NewRegion, Gate PROVE Gate'
  BY <1>w DEF ConsentInv
<1>p. "partial" \notin struck'
  BY DEF Withheld
<1>1. CASE OpenTransport
  BY <1>1 DEF Gate, OpenTransport
<1>2. CASE ReadState
  <2>1. pc' = "plan" => view'[LoRa] = ram[LoRa]
    BY <1>2, <1>p, SectionsAssumption DEF ReadState, Seen, TypeOK
  <2> QED BY <1>2, <2>1 DEF Gate, ReadState
<1>3. CASE RefuseRegion
  BY <1>3 DEF Gate, RefuseRegion
<1>4. CASE Preview
  BY <1>4 DEF Gate, Preview
<1>a. /\ LoRa \in Intended /\ ram[LoRa] = "old" /\ pc = "plan" => Refused
      /\ LoRa \in Intended /\ ram[LoRa] = "old" => pc \in {"open", "read", "plan", "done"}
  BY DEF Gate, Withheld, Refused, RegionCrossing, RegionOf, WantedRegion
<1>5. CASE Prime
  <2>1. LoRa \in Intended
    BY <1>5, CrossingIsIntended DEF Prime, PrimeDue
  <2>2. ram[LoRa] # "old" /\ flash[LoRa] # "old"
    BY <1>5, <2>1, <1>a DEF Prime, PrimeDue, Gate
  <2>3. \/ ram' = ram \/ ram' = [ram EXCEPT ![LoRa] = "primed"]
    BY <1>5 DEF Prime
  <2>4. \/ flash' = flash \/ flash' = [flash EXCEPT ![LoRa] = "primed"]
    BY <1>5 DEF Prime
  <2> QED BY <2>2, <2>3, <2>4 DEF Gate, TypeOK
<1>6. CASE NothingLeft
  BY <1>6, <1>a DEF Gate, NothingLeft
<1>7. CASE Stalled
  BY <1>7, <1>a DEF Gate, Stalled
<1>8. CASE StartApply
  <2>1. unsent' \in SUBSET Intended
    BY <1>8 DEF TypeOK, StartApply, Unmet
  <2> QED BY <1>8, <1>a, <2>1 DEF Gate, StartApply, Planning
<1>9. CASE BeginEdit
  BY <1>9, <1>a DEF Gate, BeginEdit, Disconnected, SendError, NextPass
<1>10. CASE SendSection
  <2>1. \/ UNCHANGED <<ram, flash>>
        \/ \E s \in unsent : /\ ram' = [ram EXCEPT ![s] = "want"]
                             /\ flash' = flash \/ flash' = [flash EXCEPT ![s] = "want"]
    BY <1>10 DEF SendSection, TakeSet
  <2>2. unsent' \in SUBSET unsent
    BY <1>10 DEF SendSection
  <2>3. pc = "send" /\ checked' = checked
    BY <1>10 DEF SendSection
  <2>0. unsent \subseteq Intended
    BY DEF TypeOK
  <2>8. pc \notin {"open", "read", "plan", "done"}
    BY <2>3
  <2>4. LoRa \in unsent => ram[LoRa] # "old"
    BY <2>0, <2>8, <1>a
  <2>5. /\ unsent \subseteq Sections
        /\ ram \in [Sections -> Value] /\ flash \in [Sections -> Value]
    BY <2>0, SectionsAssumption DEF TypeOK
  <2>6. /\ ram[LoRa] = "old" => ram'[LoRa] = "old"
        /\ flash[LoRa] = "old" /\ ram[LoRa] = "old" => flash'[LoRa] = "old"
        /\ ram[LoRa] # "old" => ram'[LoRa] # "old"
        /\ flash[LoRa] # "old" => flash'[LoRa] # "old"
    <3>1. CASE UNCHANGED <<ram, flash>>
      BY <3>1
    <3>2. ASSUME NEW s \in unsent, ram' = [ram EXCEPT ![s] = "want"],
                 flash' = flash \/ flash' = [flash EXCEPT ![s] = "want"]
          PROVE  /\ ram[LoRa] = "old" => ram'[LoRa] = "old"
                 /\ flash[LoRa] = "old" /\ ram[LoRa] = "old" => flash'[LoRa] = "old"
                 /\ ram[LoRa] # "old" => ram'[LoRa] # "old"
                 /\ flash[LoRa] # "old" => flash'[LoRa] # "old"
      BY <2>4, <2>5, <3>2, SectionsAssumption
    <3> QED BY <2>1, <3>1, <3>2
  <2> QED BY <2>2, <2>3, <2>6, <1>a DEF Gate
<1>11. CASE CommitEdit
  <2>1. /\ pc = "send" /\ unsent' = unsent /\ ram' = ram /\ flash' \in {flash, ram}
    BY <1>11 DEF CommitEdit
  <2> QED BY <2>1, <1>a DEF Gate
<1>12. CASE ObserveCommit
  BY <1>12, <1>a DEF Gate, ObserveCommit
<1>13. CASE Reread
  <2>1. pc = "reread" /\ UNCHANGED <<ram, flash, unsent>>
    BY <1>13 DEF Reread
  <2> QED BY <2>1, <1>a DEF Gate
<1>14. CASE Accept
  BY <1>14, <1>a DEF Gate, Accept
<1>15. CASE JudgeDrift
  BY <1>15, <1>a DEF Gate, JudgeDrift
<1>16. CASE ForceReboot
  BY <1>16, <1>a DEF Gate, ForceReboot
<1>17. CASE AwaitForcedReboot
  <2>1. pc = "forcewait" /\ UNCHANGED <<ram, flash, unsent>>
    BY <1>17 DEF AwaitForcedReboot
  <2> QED BY <2>1, <1>a DEF Gate
<1>18. CASE AwaitBandReboot
  <2>1. pc = "bandwait" /\ UNCHANGED <<ram, flash, unsent>>
    BY <1>18 DEF AwaitBandReboot
  <2> QED BY <2>1, <1>a DEF Gate
<1>19. CASE PollBand
  <2>1. pc = "bandpoll" /\ UNCHANGED <<ram, flash, unsent>>
    BY <1>19 DEF PollBand
  <2> QED BY <2>1, <1>a DEF Gate
<1>20. CASE ScheduledReboot
  BY <1>20 DEF Gate, ScheduledReboot, Boot
<1>21. CASE PowerGlitch
  BY <1>21 DEF Gate, PowerGlitch, Boot
<1>22. CASE LinkDrop
  BY <1>22 DEF Gate, LinkDrop
<1>23. CASE UNCHANGED vars
  BY <1>23 DEF Gate, vars
<1> QED BY <1>1, <1>2, <1>3, <1>4, <1>5, <1>6, <1>7, <1>8, <1>9, <1>10, <1>11,
           <1>12, <1>13, <1>14, <1>15, <1>16, <1>17, <1>18, <1>19, <1>20, <1>21,
           <1>22, <1>23 DEF Next, Host

\* No step takes a radio off the old region while consent is withheld.
LEMMA StepKeepsRegion ==
    ASSUME TypeOK, ConsentInv, [Next]_vars, Withheld, OldRegion # NewRegion,
           ram[LoRa] = "old"
    PROVE  ram'[LoRa] = "old"
<1>a. /\ flash[LoRa] = "old"
      /\ LoRa \in Intended => pc \in {"open", "read", "plan", "done"}
      /\ LoRa \in Intended /\ pc = "plan" => Refused
  BY DEF ConsentInv, Gate, Withheld, Refused, RegionCrossing, RegionOf, WantedRegion
<1>1. CASE Prime
  BY <1>1, <1>a, CrossingIsIntended DEF Prime, PrimeDue
<1>2. CASE SendSection
  <2>1. ram' = ram \/ \E s \in unsent : ram' = [ram EXCEPT ![s] = "want"]
    BY <1>2 DEF SendSection, TakeSet, radio
  <2>2. pc = "send" /\ unsent \subseteq Intended
    BY <1>2 DEF SendSection, TypeOK
  <2>3. LoRa \notin unsent
    BY <1>a, <2>2
  <2>4. LoRa \in Sections /\ unsent \subseteq Sections /\ ram \in [Sections -> Value]
    BY SectionsAssumption DEF TypeOK
  <2> QED BY <2>1, <2>3, <2>4
<1>3. CASE ScheduledReboot \/ PowerGlitch
  BY <1>3, <1>a DEF ScheduledReboot, PowerGlitch, Boot
<1>4. CASE UNCHANGED ram
  BY <1>4
<1>5. Prime \/ SendSection \/ ScheduledReboot \/ PowerGlitch \/ UNCHANGED ram
  BY DEF Next, Host, vars, radio, OpenTransport, ReadState, RefuseRegion, Preview,
         NothingLeft, Stalled, StartApply, BeginEdit, CommitEdit, ObserveCommit, Reread,
         Accept, JudgeDrift, ForceReboot, AwaitForcedReboot, AwaitBandReboot, PollBand,
         LinkDrop, EndPlan
<1> QED BY <1>1, <1>2, <1>3, <1>4, <1>5

\* The device never leaves a known region without --allow-region-change
\* (checkRegionChange before any write, device_config_apply.go:91-97), for a
\* payload that names a region and until a read loses a frame.
THEOREM RegionConsentHolds == Spec => RegionConsent
<1>1. Init => ConsentInv
  BY DEF Init, ConsentInv, Gate
<1>2. TypeOK /\ ConsentInv /\ [Next]_vars => ConsentInv'
  BY NextConsent
<1>3. TypeOK /\ TypeOK' /\ ConsentInv /\ [Next]_vars =>
        [ ~opts.allow /\ NoRegion \notin {OldRegion, NewRegion} /\ "partial" \notin struck
            => (RegionKept(ram[LoRa]) => RegionKept(ram'[LoRa])) ]_vars
  <2> SUFFICES ASSUME TypeOK, TypeOK', ConsentInv, [Next]_vars,
                      Withheld, RegionKept(ram[LoRa])
               PROVE  RegionKept(ram'[LoRa])
    BY DEF Withheld
  <2>1. ram[LoRa] \in Value /\ ram'[LoRa] \in Value
    BY SectionsAssumption DEF TypeOK
  <2>2. CASE OldRegion = NewRegion
    BY <2>1, <2>2 DEF RegionKept, RegionOf, Value
  <2>3. CASE OldRegion # NewRegion
    <3>1. ram[LoRa] = "old"
      BY <2>1, <2>3 DEF RegionKept, RegionOf, Value
    <3> QED BY <3>1, <2>3, StepKeepsRegion DEF RegionKept, RegionOf
  <2> QED BY <2>2, <2>3
<1> QED BY <1>1, <1>2, <1>3, TypeCorrect, PTL DEF Spec, RegionConsent

-----------------------------------------------------------------------------
(* A reported success is durable.                                          *)

\* What a success promises of a section: the payload's value, in flash and in RAM.
Fixed(s) == flash[s] = "want" /\ ram[s] = "want"
\* No fault has struck that can part flash from RAM unseen.
Solid == struck \cap {"lose", "abort", "drop"} = {}
\* While Solid, a transaction is open only during the sends of one pass, flash and
\* RAM agree outside it, and what the session takes for met is met in both.
Saved ==
    /\ txn => (pc = "send" /\ conn = "open") \/ (pc = "done" /\ ~Success)
    /\ ~txn => ram = flash
    /\ pc \in {"plan", "judge"} => \A s \in Intended : view[s] = "want" => Fixed(s)
    /\ pc \in {"begin", "send", "observe", "reread", "judge"} =>
          \A s \in Intended \ scope : Fixed(s)
    /\ Success => \A s \in Intended : Fixed(s)
DurableInv == Solid => Saved

\* What a read shows is what the radio holds, where a frame arrived.
LEMMA SeenIsHeld ==
    ASSUME TypeOK, NEW lost \in SUBSET Sections, NEW s \in Sections
    PROVE  Seen(lost)[s] \in {"absent", ram[s]} /\ "absent" # "want"
BY DEF Seen

\* One step per action: an open transaction ends with the pass, at a commit or a boot.
LEMMA NextDurable ==
    ASSUME TypeOK, TypeOK', Ordered, DurableInv, [Next]_vars
    PROVE  DurableInv'
<1>o. Intended' = Intended
  BY PayloadFixed
<1>w. Solid' => Solid
  BY StruckGrows DEF Solid
<1> SUFFICES ASSUME Solid, Solid', Saved PROVE Saved'
  BY <1>w DEF DurableInv
<1>r. /\ pc # "done" => ~Success
      /\ pc = "plan" => scope = Intended
      /\ ram \in [Sections -> Value] /\ flash \in [Sections -> Value]
      /\ unsent \subseteq Sections /\ scope \subseteq Intended /\ Intended \subseteq Sections
      /\ txn \in BOOLEAN
  BY DEF Ordered, TypeOK, Success
<1> USE <1>o, <1>r DEF NoFault, Fault, Finish, radio, loop, Fixed, NextPass, Solid
<1>1. CASE OpenTransport
  BY <1>1 DEF Saved, Success, OpenTransport
<1>2. CASE ReadState
  <2>1. pc' = "plan" => \E lost \in SUBSET Sections : view' = Seen(lost)
    BY <1>2 DEF ReadState
  <2>2. pc' = "plan" => \A s \in Intended : view'[s] = "want" => ram[s] = "want"
    BY <2>1, SeenIsHeld
  <2>3. pc = "read" /\ UNCHANGED radio /\ pc' \in {"plan", "open", "done"} /\ ~Success'
    BY <1>2 DEF ReadState, Success
  <2> QED BY <2>2, <2>3 DEF Saved, Success
<1>3. CASE RefuseRegion
  BY <1>3 DEF Saved, Success, RefuseRegion, EndPlan
<1>4. CASE Preview
  BY <1>4 DEF Saved, Success, Preview, EndPlan
<1>5. CASE Prime
  <2>1. pc = "plan" /\ pc' \in {"done", "bandwait"} /\ ~Success'
    BY <1>5 DEF Prime, Success
  <2>2. ~txn /\ ram = flash
    BY <2>1 DEF Saved
  <2>3. ram' = flash' /\ txn' = txn
    BY <1>5, <2>2 DEF Prime
  <2> QED BY <2>1, <2>2, <2>3 DEF Saved, Success
<1>6. CASE NothingLeft
  <2>1. \A s \in Intended : view[s] = "want"
    BY <1>6 DEF NothingLeft, Planning, Unmet
  <2>2. pc = "plan" /\ pc' = "done" /\ UNCHANGED radio
    BY <1>6 DEF NothingLeft, Planning, EndPlan
  <2> QED BY <2>1, <2>2 DEF Saved, Success
<1>7. CASE Stalled
  BY <1>7 DEF Saved, Success, Stalled, EndPlan
<1>8. CASE StartApply
  <2>1. \A s \in Intended \ scope' : view[s] = "want"
    BY <1>8 DEF StartApply, Planning, Unmet
  <2>2. pc = "plan" /\ pc' = "begin" /\ UNCHANGED radio /\ ~Success'
    BY <1>8 DEF StartApply, Planning, Success
  <2> QED BY <2>1, <2>2 DEF Saved, Success
<1>9. CASE BeginEdit
  BY <1>9 DEF Saved, Success, BeginEdit, Disconnected, SendError
<1>10. CASE SendSection
  <2>1. PICK s \in unsent :
            \/ UNCHANGED radio /\ (Finish("failed") \/ Disconnected \/ SendError)
            \/ /\ TakeSet(s) /\ UNCHANGED <<pc, conn, verdict>>
    BY <1>10 DEF SendSection
  <2>2. pc = "send" /\ UNCHANGED <<scope, view>>
    BY <1>10 DEF SendSection
  <2>3. CASE UNCHANGED radio /\ (Finish("failed") \/ Disconnected \/ SendError)
    BY <2>2, <2>3 DEF Saved, Success, Disconnected, SendError
  <2>4. CASE TakeSet(s) /\ UNCHANGED <<pc, conn, verdict>>
    <3>1. \A t \in Sections : Fixed(t) => Fixed(t)'
      BY <2>4 DEF TakeSet
    <3>2. txn' = txn /\ (~txn => ram' = flash')
      BY <2>4 DEF TakeSet, Saved
    <3>3. UNCHANGED <<pc, conn, verdict, txn, scope, view>> /\ pc = "send"
      BY <2>2, <2>4, <3>2
    <3>5. (txn => (pc = "send" /\ conn = "open") \/ (pc = "done" /\ ~Success))'
      BY <3>2, <3>3 DEF Saved, Success
    <3> HIDE DEF Fixed
    <3> QED BY <3>1, <3>2, <3>3, <3>5 DEF Saved, Success
  <2> QED BY <2>1, <2>3, <2>4
<1>11. CASE CommitEdit
  BY <1>11 DEF Saved, Success, CommitEdit, Disconnected, SendError
<1>12. CASE ObserveCommit
  BY <1>12 DEF Saved, Success, ObserveCommit
<1>13. CASE Reread
  <2>1. pc' = "judge" => \E lost \in SUBSET Sections : view' = Seen(lost)
    BY <1>13 DEF Reread
  <2>2. pc' = "judge" => \A s \in Intended : view'[s] = "want" => ram[s] = "want"
    BY <2>1, SeenIsHeld
  <2>3. /\ pc = "reread" /\ UNCHANGED <<radio, scope>> /\ pc' \in {"judge", "open", "done"}
        /\ ~Success'
    BY <1>13 DEF Reread, Success
  <2> QED BY <2>2, <2>3 DEF Saved, Success
<1>14. CASE Accept
  <2>1. \A s \in Intended : s \in scope => view[s] = "want"
    BY <1>14 DEF Accept, Unmet
  <2>2. pc = "judge" /\ pc' = "done" /\ UNCHANGED radio
    BY <1>14 DEF Accept
  <2> QED BY <2>1, <2>2 DEF Saved, Success
<1>15. CASE JudgeDrift
  BY <1>15 DEF Saved, Success, JudgeDrift
<1>16. CASE ForceReboot
  BY <1>16 DEF Saved, Success, ForceReboot
<1>17. CASE AwaitForcedReboot
  BY <1>17 DEF Saved, Success, AwaitForcedReboot, DrainEnds
<1>18. CASE AwaitBandReboot
  BY <1>18 DEF Saved, Success, AwaitBandReboot, DrainEnds
<1>19. CASE PollBand
  BY <1>19 DEF Saved, Success, PollBand
<1>20. CASE ScheduledReboot
  BY <1>20 DEF Saved, Success, ScheduledReboot, Boot
<1>21. CASE PowerGlitch
  BY <1>21 DEF Saved, Success, PowerGlitch, Boot
<1>22. CASE LinkDrop
  BY <1>22 DEF Saved, Success, LinkDrop
<1>23. CASE UNCHANGED vars
  BY <1>23 DEF Saved, Success, vars
<1> QED BY <1>1, <1>2, <1>3, <1>4, <1>5, <1>6, <1>7, <1>8, <1>9, <1>10, <1>11,
           <1>12, <1>13, <1>14, <1>15, <1>16, <1>17, <1>18, <1>19, <1>20, <1>21,
           <1>22, <1>23 DEF Next, Host

\* What a reported success has confirmed is in flash, whatever opens, reads and
\* writes fail and whatever boots come between (docs/configure.md:219), unless an
\* admin packet was lost, a flash write aborted or the link cut under an open
\* transaction.
THEOREM SuccessIsDurableAlways == Spec => []SuccessIsDurable
<1>1. Init => DurableInv
  BY DEF Init, DurableInv, Saved, Success, NoRegion
<1>2. TypeOK /\ TypeOK' /\ Ordered /\ DurableInv /\ [Next]_vars => DurableInv'
  BY NextDurable
<1>3. DurableInv => SuccessIsDurable
  BY DEF DurableInv, Saved, Solid, Fixed, SuccessIsDurable, SuccessPersists
<1> QED BY <1>1, <1>2, <1>3, TypeCorrect, OrderedAlways, PTL DEF Spec
-----------------------------------------------------------------------------
(* A region crossing is primed.                                            *)

\* No fault has struck that lets a pass start over a stale view or a pending reboot.
Paced == struck \cap Unpaced = {}

\* The payload moves the radio from one known region to another.
Crossing == OldRegion # NewRegion /\ NoRegion \notin {OldRegion, NewRegion}

\* Once the preset has gone out the lora section is off the old region for good, and
\* before that it is never among the sections to send.
Primed ==
    /\ txn => (pc = "send" /\ conn = "open") \/ pc = "done"
    /\ conn = "broken" => ~txn
    /\ ram[LoRa] \in {flash[LoRa], "want"}
    /\ primed \/ pc \in {"bandwait", "bandpoll"} => flash[LoRa] # "old" /\ ram[LoRa] # "old"
    /\ pc = "plan" => view[LoRa] # "absent"
    /\ pc = "plan" /\ view[LoRa] = "old" => flash[LoRa] = "old"
    /\ LoRa \in unsent => primed
    /\ "primed" \in {flash[LoRa], ram[LoRa], view[LoRa]} =>
          primed \/ pc \in {"bandwait", "bandpoll", "done"}
PrimedInv == Paced /\ Crossing => Primed

\* A read that loses no frame shows the lora section as the radio holds it.
LEMMA LoRaIsSeen == LoRa \in Sections /\ Seen({})[LoRa] = ram[LoRa]
BY DEF Seen

\* One step per action: lora is sent only in a pass that found it primed.
LEMMA NextPrimed ==
    ASSUME TypeOK, TypeOK', Ordered, PrimedInv, [Next]_vars
    PROVE  PrimedInv'
<1>w. Paced' => Paced
  BY StruckGrows DEF Paced
<1> SUFFICES ASSUME Crossing, Paced, Paced', Primed PROVE Primed'
  BY <1>w DEF PrimedInv, Crossing
<1>r. /\ LoRa \in Sections
      /\ view \in [Sections -> Value \cup {"absent"}]
      /\ ram \in [Sections -> Value] /\ flash \in [Sections -> Value]
      /\ unsent \subseteq Sections /\ scope \subseteq Intended /\ Intended \subseteq Sections
      /\ txn \in BOOLEAN /\ primed \in BOOLEAN
  BY DEF TypeOK
<1>n. ~Fault("partial") /\ ~Fault("lose") /\ ~Fault("drop")
  BY DEF Fault, Paced, Unpaced
<1> USE <1>r, <1>n DEF NoFault, Finish, radio, loop, NextPass
<1>1. CASE OpenTransport
  BY <1>1 DEF Primed, OpenTransport
<1>2. CASE ReadState
  <2>1. pc' = "plan" => view'[LoRa] = ram[LoRa]
    BY <1>2, LoRaIsSeen DEF ReadState
  <2>2. /\ pc = "read" /\ UNCHANGED <<radio, unsent, loop>>
        /\ pc' # "plan" => view' = view
        /\ pc' \in {"plan", "open", "done"} /\ (conn' = "broken" => conn = "broken")
    BY <1>2 DEF ReadState
  <2>3. ram[LoRa] # "absent"
    BY DEF Value
  <2> QED BY <2>1, <2>2, <2>3 DEF Primed
<1>3. CASE RefuseRegion
  BY <1>3 DEF Primed, RefuseRegion, EndPlan
<1>4. CASE Preview
  BY <1>4 DEF Primed, Preview, EndPlan
<1>5. CASE Prime
  <2>1. pc = "plan" /\ ~txn
    BY <1>5 DEF Prime, Primed
  <2>2. UNCHANGED <<view, unsent, primed, txn>>
    BY <1>5 DEF Prime
  <2>3. CASE Finish("failed") /\ UNCHANGED radio
    BY <2>1, <2>2, <2>3 DEF Primed
  <2>4. CASE /\ ram' = [ram EXCEPT ![LoRa] = "primed"]
             /\ flash' = [flash EXCEPT ![LoRa] = "primed"]
             /\ pc' = "bandwait"
    <3>1. ram'[LoRa] = "primed" /\ flash'[LoRa] = "primed"
      BY <2>4
    <3> QED BY <2>1, <2>2, <2>4, <3>1 DEF Primed
  <2> QED BY <1>5, <2>1, <2>3, <2>4 DEF Prime
<1>6. CASE NothingLeft
  BY <1>6 DEF Primed, NothingLeft, EndPlan, Planning
<1>7. CASE Stalled
  BY <1>7 DEF Primed, Stalled, EndPlan
<1>8. CASE StartApply
  <2>1. LoRa \in unsent' => LoRa \in Intended /\ LoRa \in Unmet
    BY <1>8 DEF StartApply, Unmet
  <2>2. LoRa \in unsent' => view[LoRa] \in {"old", "primed"}
    BY <1>8, <2>1 DEF StartApply, Planning, Unmet, Primed, Value
  <2>3. LoRa \in Intended /\ view[LoRa] = "old" => RegionCrossing
    BY DEF RegionCrossing, RegionOf, WantedRegion, Crossing
  <2>4. /\ pc = "plan" /\ pc' = "begin" /\ (primed \/ ~RegionCrossing)
        /\ UNCHANGED <<radio, view, primed, conn>>
    BY <1>8 DEF StartApply, Planning
  <2>5. LoRa \in unsent' => primed
    BY <2>1, <2>2, <2>3, <2>4 DEF Primed
  <2>6. ~txn /\ primed' = primed
    BY <2>4 DEF Primed
  <2> QED BY <2>4, <2>5, <2>6 DEF Primed
<1>9. CASE BeginEdit
  BY <1>9 DEF Primed, BeginEdit, Disconnected, SendError
<1>10. CASE SendSection
  <2>1. PICK s \in unsent :
            \/ UNCHANGED <<radio, unsent>> /\ (Finish("failed") \/ Disconnected \/ SendError)
            \/ TakeSet(s) /\ unsent' = unsent \ {s} /\ UNCHANGED <<pc, conn, verdict>>
    BY <1>10 DEF SendSection
  <2>2. pc = "send" /\ UNCHANGED <<view, primed>>
    BY <1>10 DEF SendSection
  <2>3. CASE UNCHANGED <<radio, unsent>> /\ (Finish("failed") \/ Disconnected \/ SendError)
    BY <2>2, <2>3 DEF Primed, Disconnected, SendError
  <2>4. CASE TakeSet(s) /\ unsent' = unsent \ {s} /\ UNCHANGED <<pc, conn, verdict>>
    <3>1. /\ ram'[LoRa] = IF s = LoRa THEN "want" ELSE ram[LoRa]
          /\ flash'[LoRa] = flash[LoRa] \/ (flash'[LoRa] = "want" /\ ram'[LoRa] = "want")
          /\ txn' = txn
      BY <2>4 DEF TakeSet
    <3> QED BY <2>2, <2>4, <3>1 DEF Primed
  <2> QED BY <2>1, <2>3, <2>4
<1>11. CASE CommitEdit
  BY <1>11 DEF Primed, CommitEdit, Disconnected, SendError
<1>12. CASE ObserveCommit
  BY <1>12 DEF Primed, ObserveCommit
<1>13. CASE Reread
  <2>1. pc' = "judge" => view'[LoRa] = ram[LoRa]
    BY <1>13, LoRaIsSeen DEF Reread
  <2>2. /\ pc = "reread" /\ UNCHANGED <<radio, unsent, loop>>
        /\ pc' # "judge" => view' = view
        /\ pc' \in {"judge", "open", "done"} /\ conn' = "closed"
    BY <1>13 DEF Reread
  <2> QED BY <2>1, <2>2 DEF Primed
<1>14. CASE Accept
  BY <1>14 DEF Primed, Accept
<1>15. CASE JudgeDrift
  BY <1>15 DEF Primed, JudgeDrift
<1>16. CASE ForceReboot
  BY <1>16 DEF Primed, ForceReboot
<1>17. CASE AwaitForcedReboot
  BY <1>17 DEF Primed, AwaitForcedReboot, DrainEnds
<1>18. CASE AwaitBandReboot
  BY <1>18 DEF Primed, AwaitBandReboot, DrainEnds
<1>19. CASE PollBand
  BY <1>19 DEF Primed, PollBand
<1>20. CASE ScheduledReboot
  BY <1>20 DEF Primed, ScheduledReboot, Boot
<1>21. CASE PowerGlitch
  BY <1>21 DEF Primed, PowerGlitch, Boot
<1>22. CASE LinkDrop
  BY <1>22 DEF Primed, LinkDrop
<1>23. CASE UNCHANGED vars
  BY <1>23 DEF Primed, vars
<1> QED BY <1>1, <1>2, <1>3, <1>4, <1>5, <1>6, <1>7, <1>8, <1>9, <1>10, <1>11,
           <1>12, <1>13, <1>14, <1>15, <1>16, <1>17, <1>18, <1>19, <1>20, <1>21,
           <1>22, <1>23 DEF Next, Host

\* Only a section to send is ever set to the payload's value.
LEMMA StepPrimes ==
    ASSUME TypeOK, PrimedInv, [Next]_vars, Crossing, struck' \cap Unpaced = {},
           ram[LoRa] = "old"
    PROVE  ram'[LoRa] # "want"
<1>a. Primed /\ flash[LoRa] = "old" /\ LoRa \notin unsent
  BY StruckGrows DEF PrimedInv, Primed, Paced
<1>b. LoRa \in Sections /\ unsent \subseteq Sections /\ ram \in [Sections -> Value]
  BY DEF TypeOK
<1>1. CASE Prime
  BY <1>1, <1>a, <1>b DEF Prime, radio
<1>2. CASE SendSection
  <2>1. ram' = ram \/ \E s \in unsent : ram' = [ram EXCEPT ![s] = "want"]
    BY <1>2 DEF SendSection, TakeSet, radio
  <2> QED BY <2>1, <1>a, <1>b
<1>3. CASE ScheduledReboot \/ PowerGlitch
  BY <1>3, <1>a DEF ScheduledReboot, PowerGlitch, Boot
<1>4. CASE UNCHANGED ram
  BY <1>4
<1>5. Prime \/ SendSection \/ ScheduledReboot \/ PowerGlitch \/ UNCHANGED ram
  BY DEF Next, Host, vars, radio, OpenTransport, ReadState, RefuseRegion, Preview,
         NothingLeft, Stalled, StartApply, BeginEdit, CommitEdit, ObserveCommit, Reread,
         Accept, JudgeDrift, ForceReboot, AwaitForcedReboot, AwaitBandReboot, PollBand,
         LinkDrop, EndPlan
<1> QED BY <1>1, <1>2, <1>3, <1>4, <1>5

\* A lora section of another region is set only on a radio that was first switched to
\* that region by a preset (PrimeRegion before Apply, docs/configure.md:221), whatever
\* opens, reads and writes fail and whatever flash writes abort.
THEOREM RegionIsPrimedFirst == Spec => PrimesBeforeCrossing
<1>1. Init => PrimedInv
  BY DEF Init, PrimedInv, Primed
<1>2. TypeOK /\ TypeOK' /\ Ordered /\ PrimedInv /\ [Next]_vars => PrimedInv'
  BY NextPrimed
<1>3. TypeOK /\ PrimedInv /\ [Next]_vars =>
        [ OldRegion # NewRegion /\ NoRegion \notin {OldRegion, NewRegion}
            /\ struck' \cap Unpaced = {}
              => ~(ram[LoRa] = "old" /\ ram'[LoRa] = "want") ]_vars
  BY StepPrimes DEF Crossing
<1> QED BY <1>1, <1>2, <1>3, TypeCorrect, OrderedAlways, PTL DEF Spec, PrimesBeforeCrossing
-----------------------------------------------------------------------------
(* What a pass sends is persisted as a whole.                              *)

\* No fault has struck that lets a pass start over a stale view, or over the reboot of
\* a flash write that aborted.
Calm == struck \cap Unpaced = {} /\ ~({"abort", "readerr"} \subseteq struck)

\* What the session could have asked the radio to hold is there, in flash too.
Sendable == Intended \ Unsendable
AllFixed == \A s \in Sendable : Fixed(s)

\* While Calm, a reboot is pending at the start of a pass only over a radio that holds
\* everything already, and a pass opens its transaction before it sends.
Batched ==
    /\ txn => (pc = "send" /\ conn = "open") \/ pc = "done"
    /\ conn = "broken" => ~txn /\ ~rebootDue
    /\ ram = flash \/ txn \/ "abort" \in struck
    /\ unsent \cap Unsendable = {}
    /\ preCount > 0 => preCount <= Cardinality(Sections \ Unsendable)
    /\ pc = "plan" => \A s \in Unsendable : view[s] = "absent"
    /\ pc = "plan" /\ rebootDue => \A s \in Sendable : view[s] = "want"
    /\ pc = "plan" /\ "abort" \notin struck => \A s \in Intended : view[s] = "want" => Fixed(s)
    /\ pc \in {"begin", "send", "observe", "reread", "judge"} /\ "abort" \notin struck =>
          \A s \in Intended \ scope : Fixed(s)
    /\ pc \in {"open", "read", "plan", "begin", "send"} /\ rebootDue =>
          "abort" \notin struck /\ AllFixed
    /\ pc \in {"begin", "send"} /\ rebootDue => scope \subseteq Unsendable
    /\ pc \in {"begin", "send"} => ~rebooted
    /\ pc \in {"observe", "reread", "judge"} /\ rebooted => ~rebootDue
    /\ pc \in {"observe", "reread", "judge"} /\ rebootDue /\ "abort" \notin struck => AllFixed
    /\ pc = "bandpoll" => ~rebootDue
    /\ pc = "begin" => unsent = scope \ Unsendable
    /\ pc = "send" => \/ conn = "broken" \/ scope \subseteq Unsendable
                      \/ txn /\ \A s \in (scope \ Unsendable) \ unsent : ram[s] = "want"
BatchInv == Calm => Batched

\* A read that loses no frame shows every section that is read back at all, as the
\* radio holds it, and is never taken for a sparse one.
LEMMA FullRead ==
    ASSUME TypeOK
    PROVE  /\ \A s \in Sections \ Unsendable : Seen({})[s] = ram[s] /\ ram[s] # "absent"
           /\ \A s \in Unsendable : Seen({})[s] = "absent"
           /\ Present(Seen({})) = Sections \ Unsendable
BY DEF Seen, Present, TypeOK, Value

LEMMA FullReadConclusive ==
    ASSUME TypeOK, Channels # {}, preCount > 0 => preCount <= Cardinality(Sections \ Unsendable)
    PROVE  ~Sparse(Seen({}))
<1>1. Present(Seen({})) = Sections \ Unsendable
  BY FullRead
<1>2. Cardinality(Sections \ Unsendable) \in Nat
  BY CountIsNat
<1>3. preCount \in Int
  BY DEF TypeOK
<1>4. (Sections \ Unsendable) \cap Channels # {}
  OBVIOUS
<1> DEFINE n == Cardinality(Sections \ Unsendable)
<1>5. ~(preCount > 0 /\ 2 * n < preCount)
  <2> HIDE DEF n
  <2> QED BY <1>2, <1>3 DEF n
<1> QED BY <1>1, <1>4, <1>5 DEF Sparse

\* What a read without absences shows fits the bound on preCount.
LEMMA PresentFits ==
    ASSUME TypeOK, \A s \in Unsendable : view[s] = "absent"
    PROVE  Cardinality(Present(view)) <= Cardinality(Sections \ Unsendable)
<1>1. Present(view) \subseteq Sections \ Unsendable
  BY DEF Present
<1>2. IsFiniteSet(Sections \ Unsendable)
  BY FS_Difference
<1> QED BY <1>1, <1>2, FS_Subset

\* One step per action: a pass starts its transaction over a settled radio.
LEMMA NextBatch ==
    ASSUME TypeOK, TypeOK', Ordered, BatchInv, Channels # {}, [Next]_vars
    PROVE  BatchInv'
<1>w. Calm' => Calm
  BY StruckGrows DEF Calm
<1> SUFFICES ASSUME Calm, Calm', Batched PROVE Batched'
  BY <1>w DEF BatchInv
<1>o. Intended' = Intended /\ Sendable' = Sendable
  BY PayloadFixed DEF Sendable
<1>r. /\ view \in [Sections -> Value \cup {"absent"}]
      /\ ram \in [Sections -> Value] /\ flash \in [Sections -> Value]
      /\ unsent \subseteq scope /\ scope \subseteq Intended /\ Intended \subseteq Sections
      /\ txn \in BOOLEAN /\ rebooted \in BOOLEAN /\ rebootDue \in BOOLEAN
  BY DEF TypeOK
<1>n. \A k \in Unpaced : ~Fault(k)
  BY DEF Fault, Calm
<1>m. /\ ~Fault("partial") /\ ~Fault("lose") /\ ~Fault("slow") /\ ~Fault("drop") /\ ~Fault("crash")
      /\ "abort" \in struck => "abort" \in struck'
      /\ NoFault => struck' = struck
  BY <1>n, StruckGrows DEF Fault, NoFault, Unpaced
<1> USE <1>o, <1>r, <1>m DEF Finish, radio, loop, NextPass, Fixed, AllFixed
<1>1. CASE OpenTransport
  BY <1>1 DEF Batched, OpenTransport
<1>2. CASE ReadState
  <2>1. /\ pc = "read" /\ UNCHANGED <<radio, unsent, preCount, rebooted>>
        /\ (pc' = "plan" /\ view' = Seen({}) /\ NoFault) \/ (pc' \in {"open", "done"})
        /\ pc' = "open" => NoFault
        /\ conn' = "broken" => conn = "broken"
    BY <1>2 DEF ReadState
  <2>2. CASE pc' = "plan"
    <3>1. /\ \A s \in Unsendable : view'[s] = "absent"
          /\ \A s \in Sections : view'[s] = "want" => ram[s] = "want"
          /\ \A s \in Sendable : view'[s] = ram[s]
      BY <2>1, <2>2, FullRead DEF Sendable
    <3> QED BY <2>1, <2>2, <3>1 DEF Batched
  <2>3. CASE pc' # "plan"
    BY <2>1, <2>3 DEF Batched
  <2> QED BY <2>2, <2>3
<1>3. CASE RefuseRegion
  BY <1>3 DEF Batched, RefuseRegion, EndPlan
<1>4. CASE Preview
  BY <1>4 DEF Batched, Preview, EndPlan
<1>5. CASE Prime
  BY <1>5 DEF Batched, Prime, PrimeDue
<1>6. CASE NothingLeft
  BY <1>6 DEF Batched, NothingLeft, EndPlan, Planning
<1>7. CASE Stalled
  BY <1>7 DEF Batched, Stalled, EndPlan
<1>8. CASE StartApply
  <2>1. preCount' > 0 => preCount' <= Cardinality(Sections \ Unsendable)
    BY <1>8, PresentFits DEF StartApply, Planning, Batched
  <2>2. /\ pc = "plan" /\ pc' = "begin" /\ UNCHANGED <<radio, conn, struck>> /\ ~rebooted'
        /\ scope' = Unmet /\ unsent' = Unmet \ Unsendable
    BY <1>8 DEF StartApply, Planning, NoFault
  <2>3. Unmet = {s \in Intended : view[s] # "want"}
    BY <2>2 DEF Unmet, Ordered
  <2>4. rebootDue => scope' \subseteq Unsendable
    BY <2>2, <2>3 DEF Batched, Sendable
  <2>5. "abort" \notin struck => \A s \in Intended \ scope' : Fixed(s)
    BY <2>2, <2>3 DEF Batched
  <2> QED BY <2>1, <2>2, <2>4, <2>5 DEF Batched
<1>9. CASE BeginEdit
  BY <1>9 DEF Batched, BeginEdit, Disconnected, SendError
<1>10. CASE SendSection
  BY <1>10 DEF Batched, SendSection, Disconnected, SendError, TakeSet
<1>11. CASE CommitEdit
  <2>1. /\ pc = "send" /\ unsent = {}
        /\ UNCHANGED <<view, scope, unsent, preCount, rebooted, ram>>
    BY <1>11 DEF CommitEdit
  <2>2. CASE Disconnected /\ UNCHANGED radio
    BY <2>1, <2>2 DEF Batched, Disconnected, NoFault
  <2>3. CASE SendError /\ UNCHANGED radio
    BY <2>1, <2>3 DEF Batched, SendError
  <2>4. CASE conn = "open" /\ conn' = conn /\ pc' = "observe" /\ NoFault /\ flash' = ram /\ ~txn'
    <3>1. "abort" \notin struck' => AllFixed'
      BY <2>1, <2>4 DEF Batched, Sendable, NoFault
    <3>2. "abort" \notin struck' => \A s \in Intended \ scope : ram[s] = "want"
      BY <2>1, <2>4 DEF Batched, NoFault
    <3> QED BY <2>1, <2>4, <3>1, <3>2 DEF Batched
  <2>5. CASE conn = "open" /\ conn' = conn /\ pc' = "observe" /\ Fault("abort") /\ ~txn'
    <3>1. "abort" \in struck'
      BY <2>5 DEF Fault
    <3> QED BY <2>1, <2>5, <3>1 DEF Batched
  <2> QED BY <1>11, <2>2, <2>3, <2>4, <2>5 DEF CommitEdit
<1>12. CASE ObserveCommit
  BY <1>12 DEF Batched, ObserveCommit
<1>13. CASE Reread
  <2>1. /\ pc = "reread" /\ UNCHANGED <<radio, scope, unsent, preCount, rebooted>>
        /\ conn' = "closed" /\ pc' \in {"judge", "open", "done"}
    BY <1>13 DEF Reread
  <2>2. pc' = "judge" => view' = Seen({}) /\ NoFault
    BY <1>13 DEF Reread
  <2>3. ~Sparse(Seen({}))
    BY FullReadConclusive DEF Batched
  <2>4. pc' = "open" => (conn = "broken" /\ NoFault) \/ Fault("readerr")
    BY <1>13, <2>3 DEF Reread
  <2>5. pc' = "open" /\ rebootDue => "abort" \notin struck'
    BY <2>4 DEF Fault, Calm, Batched
  <2>6. pc' = "open" /\ rebootDue => AllFixed
    BY <2>1, <2>5 DEF Batched
  <2> QED BY <2>1, <2>2, <2>5, <2>6 DEF Batched, NoFault
<1>14. CASE Accept
  BY <1>14 DEF Batched, Accept
<1>15. CASE JudgeDrift
  BY <1>15 DEF Batched, JudgeDrift
<1>16. CASE ForceReboot
  BY <1>16 DEF Batched, ForceReboot
<1>17. CASE AwaitForcedReboot
  BY <1>17 DEF Batched, AwaitForcedReboot, DrainEnds
<1>18. CASE AwaitBandReboot
  BY <1>18 DEF Batched, AwaitBandReboot, DrainEnds
<1>19. CASE PollBand
  BY <1>19 DEF Batched, PollBand
<1>20. CASE ScheduledReboot
  BY <1>20 DEF Batched, ScheduledReboot, Boot
<1>21. CASE PowerGlitch
  BY <1>21 DEF Batched, PowerGlitch, Boot
<1>22. CASE LinkDrop
  BY <1>22 DEF Batched, LinkDrop
<1>23. CASE UNCHANGED vars
  BY <1>23 DEF Batched, vars
<1> QED BY <1>1, <1>2, <1>3, <1>4, <1>5, <1>6, <1>7, <1>8, <1>9, <1>10, <1>11,
           <1>12, <1>13, <1>14, <1>15, <1>16, <1>17, <1>18, <1>19, <1>20, <1>21,
           <1>22, <1>23 DEF Next, Host

\* What flash takes on during the sends of a pass is the whole of what it set out to
\* send: only the commit writes flash, and by then RAM holds every section of it.
LEMMA StepPersists ==
    ASSUME TypeOK, BatchInv, [Next]_vars, Calm', pc = "send", flash' # flash
    PROVE  \A s \in scope \ Unsendable : flash'[s] = "want"
<1>a. Batched
  BY StruckGrows DEF BatchInv, Calm
<1>1. CASE SendSection
  <2>1. PICK s \in unsent : TakeSet(s) /\ conn = "open"
    BY <1>1 DEF SendSection, radio
  <2>2. ~txn
    BY <2>1 DEF TakeSet
  <2>3. scope \subseteq Unsendable
    BY <1>a, <2>1, <2>2 DEF Batched
  <2> QED BY <2>3
<1>2. CASE CommitEdit
  <2>1. conn = "open" /\ flash' = ram /\ unsent = {}
    BY <1>2 DEF CommitEdit, radio
  <2> QED BY <1>a, <2>1 DEF Batched
<1>3. SendSection \/ CommitEdit \/ UNCHANGED flash
  BY DEF Next, Host, vars, radio, OpenTransport, ReadState, RefuseRegion, Preview, Prime,
         NothingLeft, Stalled, StartApply, BeginEdit, ObserveCommit, Reread, Accept,
         JudgeDrift, ForceReboot, AwaitForcedReboot, AwaitBandReboot, PollBand,
         ScheduledReboot, PowerGlitch, Boot, LinkDrop, EndPlan
<1> QED BY <1>1, <1>2, <1>3

\* What a pass sends reaches flash all at once or not at all (docs/configure.md:217),
\* whatever opens, reads and writes fail and whatever flash writes abort, short of an
\* abort whose re-read fails.  A radio without a channel row is out of it: every
\* re-read of it is taken for a sparse one (isRereadInconclusive).
THEOREM BatchIsPersistedWhole ==
    ASSUME Channels # {}
    PROVE  Spec => PersistsWholeBatch
<1>1. Init => BatchInv
  BY DEF Init, BatchInv, Batched
<1>2. TypeOK /\ TypeOK' /\ Ordered /\ BatchInv /\ [Next]_vars => BatchInv'
  BY NextBatch
<1>3. TypeOK /\ BatchInv /\ [Next]_vars =>
        [ pc = "send" /\ flash' # flash
            /\ struck' \cap Unpaced = {} /\ ~({"abort", "readerr"} \subseteq struck')
              => \A s \in scope \ Unsendable : flash'[s] = "want" ]_vars
  BY StepPersists DEF Calm
<1> QED BY <1>1, <1>2, <1>3, TypeCorrect, OrderedAlways, PTL DEF Spec, PersistsWholeBatch
-----------------------------------------------------------------------------
(* An undisturbed session does what it was asked.                          *)

\* Nothing has disturbed the session, and everything it was given can be sent.
Clean == struck = {} /\ Intended \cap (Unsendable \cup Malformed) = {}
AllHeld == \A s \in Intended : Fixed(s)

\* The stages of such a session: before anything is sent, switching the region,
\* sending, checking what was sent, reading it once more in another pass, done.
Before ==
    /\ pc \in {"open", "read", "plan"} /\ ~rebootDue /\ ~txn /\ ram = flash
    /\ IF pc = "open" THEN conn # "broken" ELSE conn = "open"
    /\ pc = "plan" => \A s \in Sections \ Unsendable : view[s] = ram[s]
    /\ \/ pass = 1 /\ ~primed
       \/ pass = 2 /\ primed /\ checked /\ ~opts.dryRun /\ stall = 0
Priming ==
    /\ pc \in {"bandwait", "bandpoll"} /\ pass = 1 /\ ~txn /\ ram = flash
    /\ pc = "bandpoll" \/ conn = "broken" => ~rebootDue
Sending ==
    /\ pc \in {"begin", "send"} /\ pass <= 2 /\ conn = "open" /\ ~rebootDue
    /\ pc = "send" => txn
    /\ \A s \in Intended \ unsent : ram[s] = "want"
Settling ==
    /\ pc \in {"observe", "reread", "judge"} /\ pass <= 2 /\ AllHeld
    /\ conn = "broken" => ~rebootDue
    /\ pc = "judge" => \A s \in Intended : view[s] = "want"
Confirming ==
    /\ pc \in {"open", "read", "plan"} /\ pass <= 3 /\ AllHeld /\ checked /\ ~opts.dryRun
    /\ pc = "open" => conn # "broken"
    /\ attempt = 1 \/ (attempt = 2 /\ ~rebootDue /\ conn # "broken")
    /\ conn = "broken" => ~rebootDue
    /\ pc = "plan" => \A s \in Intended : view[s] = "want"
Ended ==
    /\ pc = "done"
    /\ \/ Success /\ AllHeld
       \/ opts.dryRun /\ verdict = "dryrun" /\ offered = {}
       \/ ~opts.allow /\ verdict = "refused" /\ offered = {}
CleanInv == Clean => Before \/ Priming \/ Sending \/ Settling \/ Confirming \/ Ended

\* A lora section read as intended crosses no region.
LEMMA MetIsNoCrossing == (\A s \in Intended : view[s] = "want") => ~RegionCrossing
BY DEF RegionCrossing, RegionOf, WantedRegion

\* One step per action: each stage leads to itself or to a later one.
LEMMA NextClean ==
    ASSUME HandleReleased, HandleReleased', TypeOK, TypeOK', Ordered, CleanInv, [Next]_vars,
           MaxPasses >= 3, MaxReadAttempts >= 2
    PROVE  CleanInv'
<1>o. Intended' = Intended /\ Malformed' = Malformed /\ opts' = opts
  BY OptsFixed, PayloadFixed DEF Malformed
<1>w. Clean' => Clean
  BY StruckGrows, <1>o DEF Clean
<1> SUFFICES ASSUME Clean, Clean', Before \/ Priming \/ Sending \/ Settling \/ Confirming \/ Ended
             PROVE  (Before \/ Priming \/ Sending \/ Settling \/ Confirming \/ Ended)'
  BY <1>w DEF CleanInv
<1>r. /\ view \in [Sections -> Value \cup {"absent"}]
      /\ ram \in [Sections -> Value] /\ flash \in [Sections -> Value]
      /\ unsent \subseteq scope /\ scope \subseteq Intended /\ Intended \subseteq Sections
      /\ pass \in Nat /\ attempt \in Nat /\ MaxPasses \in Nat /\ MaxReadAttempts \in Nat
      /\ Intended \cap Unsendable = {} /\ Intended \cap Malformed = {}
  BY DEF TypeOK, Clean
<1>n. \A k : ~Fault(k)
  BY DEF Fault, Clean
<1>h. /\ pc \notin {"open", "read", "plan", "done"} => checked /\ ~opts.dryRun
      /\ pc = "plan" => scope = Intended
      /\ opts.dryRun => offered = {}
      /\ ~checked => offered = {}
      /\ verdict = "running" <=> pc # "done"
  BY DEF Ordered
<1> USE <1>o, <1>r, <1>n, <1>h, MaxPasses >= 3, MaxReadAttempts >= 2 DEF Finish, radio, loop, NextPass, Fixed, AllHeld
<1>1. CASE OpenTransport
  BY <1>1 DEF Before, Priming, Sending, Settling, Confirming, Ended, Success, OpenTransport
<1>2. CASE ReadState
  <2>1. /\ pc = "read" /\ UNCHANGED <<pass, loop, radio>>
        /\ \/ conn = "open" /\ view' = Seen({}) /\ pc' = "plan" /\ UNCHANGED <<conn, attempt>>
           \/ conn = "broken" /\ attempt < MaxReadAttempts /\ attempt' = attempt + 1
                /\ conn' = "closed" /\ pc' = "open" /\ UNCHANGED view
           \/ conn = "broken" /\ attempt >= MaxReadAttempts
    BY <1>2 DEF ReadState
  <2>2. \A s \in Sections \ Unsendable : Seen({})[s] = ram[s]
    BY FullRead
  <2>3. CASE Before
    BY <2>1, <2>2, <2>3 DEF Before
  <2>4. CASE Confirming
    <3>1. CASE conn = "open"
      <4>1. /\ \A s \in Intended : view'[s] = "want"
            /\ pc' = "plan" /\ UNCHANGED <<conn, attempt>>
        BY <2>1, <2>2, <2>4, <3>1 DEF Confirming
      <4> QED BY <2>1, <2>4, <4>1 DEF Confirming
    <3>2. CASE conn = "broken"
      <4>1. attempt = 1 /\ attempt' = 2 /\ conn' = "closed" /\ pc' = "open" /\ ~rebootDue
        BY <2>1, <2>4, <3>2 DEF Confirming
      <4> QED BY <2>1, <2>4, <4>1 DEF Confirming
    <3> QED BY <2>1, <3>1, <3>2
  <2> QED BY <2>1, <2>3, <2>4 DEF Priming, Sending, Settling, Ended
<1>3. CASE RefuseRegion
  <2>1. /\ pc' = "done" /\ verdict' = "refused" /\ ~checked /\ ~opts.allow /\ offered' = offered
    BY <1>3 DEF RefuseRegion, EndPlan, Refused
  <2> QED BY <2>1 DEF Ended
<1>4. CASE Preview
  BY <1>4 DEF Before, Priming, Sending, Settling, Confirming, Ended, Success, Preview, EndPlan
<1>5. CASE Prime
  <2>1. pc = "plan" /\ RegionCrossing /\ ~primed /\ ~opts.dryRun
    BY <1>5 DEF Prime, PrimeDue
  <2>2. Before
    BY <2>1, MetIsNoCrossing DEF Priming, Sending, Settling, Confirming, Ended
  <2>3. pass = 1 /\ ~txn /\ ram = flash /\ conn = "open"
    BY <2>1, <2>2 DEF Before
  <2>4. /\ pc' = "bandwait" /\ pass' = 1 /\ ~txn' /\ conn' = "open"
        /\ ram' = [ram EXCEPT ![LoRa] = "primed"] /\ flash' = [flash EXCEPT ![LoRa] = "primed"]
    BY <1>5, <2>3 DEF Prime
  <2> QED BY <2>3, <2>4 DEF Priming
<1>6. CASE NothingLeft
  <2>1. /\ pc = "plan" /\ pc' = "done" /\ verdict' \in {"matched", "applied"} /\ UNCHANGED radio
        /\ \A s \in Intended : view[s] = "want"
    BY <1>6 DEF NothingLeft, EndPlan, Planning, Unmet
  <2>2. AllHeld
    BY <2>1 DEF Before, Priming, Sending, Settling, Confirming, Ended
  <2> QED BY <2>1, <2>2 DEF Ended, Success
<1>7. CASE Stalled
  <2>1. pc = "plan" /\ Unmet # {} /\ NewStall >= 2
    BY <1>7 DEF Stalled, Planning
  <2>2. Before
    BY <2>1 DEF Before, Priming, Sending, Settling, Confirming, Ended, Unmet
  <2>3. stall \in 0 .. 1 /\ (pass = 1 \/ stall = 0)
    BY <2>2 DEF Before, TypeOK
  <2> QED BY <2>1, <2>3 DEF NewStall
<1>8. CASE StartApply
  <2>1. /\ pc = "plan" /\ pc' = "begin" /\ Unmet # {} /\ UNCHANGED <<radio, pass, conn>>
        /\ unsent' = Unmet
    BY <1>8 DEF StartApply, Planning, Unmet
  <2>2. Before
    BY <2>1 DEF Before, Priming, Sending, Settling, Confirming, Ended, Unmet
  <2>3. \A s \in Intended \ Unmet : ram[s] = "want"
    BY <2>1, <2>2 DEF Before, Unmet
  <2>4. pass <= 2 /\ conn = "open" /\ ~rebootDue
    BY <2>1, <2>2 DEF Before
  <2> QED BY <2>1, <2>3, <2>4 DEF Sending
<1>9. CASE BeginEdit
  BY <1>9 DEF Before, Priming, Sending, Settling, Confirming, Ended, Success, BeginEdit, Disconnected, SendError
<1>10. CASE SendSection
  <2>1. pc = "send"
    BY <1>10 DEF SendSection
  <2>2. Sending
    BY <2>1 DEF Before, Priming, Settling, Confirming, Ended
  <2>3. PICK s \in unsent : TakeSet(s) /\ unsent' = unsent \ {s} /\ UNCHANGED <<pc, pass, conn>>
    BY <1>10, <2>2 DEF SendSection, Disconnected, SendError, Sending
  <2>4. ram' = [ram EXCEPT ![s] = "want"] /\ UNCHANGED <<flash, rebootDue, txn>>
    BY <2>1, <2>2, <2>3 DEF TakeSet, Sending
  <2>5. \A t \in Intended \ unsent' : ram'[t] = "want"
    BY <2>2, <2>3, <2>4 DEF Sending
  <2> QED BY <2>1, <2>2, <2>3, <2>4, <2>5 DEF Sending
<1>11. CASE CommitEdit
  BY <1>11 DEF Before, Priming, Sending, Settling, Confirming, Ended, Success, CommitEdit, Disconnected, SendError
<1>12. CASE ObserveCommit
  BY <1>12 DEF Before, Priming, Sending, Settling, Confirming, Ended, Success, ObserveCommit
<1>13. CASE Reread
  <2>1. /\ pc = "reread" /\ UNCHANGED <<radio, loop>> /\ conn' = "closed"
        /\ \/ pc' = "judge" /\ view' = Seen({}) /\ UNCHANGED pass
           \/ NextPass
    BY <1>13 DEF Reread
  <2>2. Settling
    BY <2>1 DEF Before, Priming, Sending, Confirming, Ended
  <2>3. \A s \in Intended : Seen({})[s] = ram[s]
    BY FullRead
  <2>4. CASE pc' = "judge" /\ view' = Seen({}) /\ UNCHANGED pass
    BY <2>1, <2>2, <2>3, <2>4 DEF Settling
  <2>5. CASE NextPass
    BY <2>1, <2>2, <2>5 DEF Settling, Confirming
  <2> QED BY <2>1, <2>4, <2>5
<1>14. CASE Accept
  BY <1>14 DEF Before, Priming, Sending, Settling, Confirming, Ended, Success, Accept
<1>15. CASE JudgeDrift
  <2>1. pc = "judge" /\ Unmet # {}
    BY <1>15 DEF JudgeDrift
  <2> QED BY <2>1 DEF Before, Priming, Sending, Settling, Confirming, Ended, Unmet
<1>16. CASE ForceReboot
  BY <1>16 DEF Before, Priming, Sending, Settling, Confirming, Ended, Success, ForceReboot
<1>17. CASE AwaitForcedReboot
  BY <1>17 DEF Before, Priming, Sending, Settling, Confirming, Ended, Success, AwaitForcedReboot, DrainEnds
<1>18. CASE AwaitBandReboot
  BY <1>18 DEF Before, Priming, Sending, Settling, Confirming, Ended, Success, AwaitBandReboot, DrainEnds
<1>19. CASE PollBand
  <2>1. pc = "bandpoll" /\ Priming
    BY <1>19 DEF PollBand, Before, Sending, Settling, Confirming, Ended
  <2>2. /\ conn' = conn /\ primed' /\ stall' = 0 /\ UNCHANGED <<radio, checked>> /\ NextPass
    BY <1>19 DEF PollBand
  <2>3. conn # "broken"
    BY <2>1 DEF HandleReleased
  <2> QED BY <2>1, <2>2, <2>3 DEF Priming, Before
<1>20. CASE ScheduledReboot
  <2>1. /\ rebootDue /\ ~rebootDue' /\ ~txn' /\ ram' = flash /\ flash' = flash
        /\ conn' = conn \/ (conn = "open" /\ conn' = "broken")
        /\ UNCHANGED <<pc, pass, attempt, view, loop, verdict, offered>>
    BY <1>20 DEF ScheduledReboot, Boot
  <2>2. CASE Priming
    BY <2>1, <2>2 DEF Priming
  <2>3. CASE Settling
    BY <2>1, <2>3 DEF Settling
  <2>4. CASE Confirming
    <3>1. attempt = 1 /\ (pc = "open" => conn' # "broken")
      BY <2>1, <2>4 DEF Confirming, HandleReleased
    <3> QED BY <2>1, <2>4, <3>1 DEF Confirming
  <2>5. CASE Ended
    BY <2>1, <2>5 DEF Ended, Success
  <2> QED BY <2>1, <2>2, <2>3, <2>4, <2>5 DEF Before, Sending
<1>21. CASE PowerGlitch
  BY <1>21 DEF Before, Priming, Sending, Settling, Confirming, Ended, Success, PowerGlitch, Boot
<1>22. CASE LinkDrop
  BY <1>22 DEF Before, Priming, Sending, Settling, Confirming, Ended, Success, LinkDrop
<1>23. CASE UNCHANGED vars
  BY <1>23 DEF Before, Priming, Sending, Settling, Confirming, Ended, Success, vars
<1> QED BY <1>1, <1>2, <1>3, <1>4, <1>5, <1>6, <1>7, <1>8, <1>9, <1>10, <1>11,
           <1>12, <1>13, <1>14, <1>15, <1>16, <1>17, <1>18, <1>19, <1>20, <1>21,
           <1>22, <1>23 DEF Next, Host

\* A session nothing disturbs, and whose payload can be sent, ends with the payload in
\* flash, or with the refusal or the preview its flags call for, whatever is stored on
\* the radio and wherever its own reboots fall.  Crossing a region takes a pass of its
\* own and a reboot under the last re-read two more reads (maxApplyPasses is 10,
\* maxReadAttempts 5, device_config_apply.go).
THEOREM CleanSessionsApply ==
    ASSUME MaxPasses >= 3, MaxReadAttempts >= 2
    PROVE  Spec => []CleanSessionApplies
<1>1. Init => CleanInv
  BY DEF Init, CleanInv, Before
<1>2. TypeOK /\ TypeOK' /\ Ordered /\ HandleReleased /\ HandleReleased' /\ CleanInv
        /\ [Next]_vars => CleanInv'
  BY NextClean
<1>3. CleanInv => CleanSessionApplies
  BY DEF CleanInv, Clean, Before, Priming, Sending, Settling, Confirming, Ended,
         CleanSessionApplies, SuccessPersists, AllHeld, Fixed
<1> QED BY <1>1, <1>2, <1>3, TypeCorrect, OrderedAlways, HandleAlwaysReleased, PTL DEF Spec
=============================================================================
