---------------------------- MODULE ApplySession ----------------------------
(***************************************************************************)
(* One `rmesh device config copy --to device` session: the reconnect loop  *)
(* of applyPayloadToDevice, the edit transaction of device.Apply that each *)
(* of its passes runs, and the radio at the other end of the link.         *)
(*                                                                         *)
(* Data is abstracted to what the control flow tells apart.  A section (a  *)
(* Config / ModuleConfig submessage or a channel row) holds "want" when    *)
(* its JSON equals the intended payload's, "old" when it does not, and the *)
(* lora section may also hold "primed": the old preset on the new region.  *)
(* The firmware is not part of the repository; its actions are what the    *)
(* comments of admin.go and docs/configure.md say the host relies on, and  *)
(* everything that can go wrong on the link is a fault drawn from Faults,  *)
(* at most FaultBudget of them per session.                                *)
(***************************************************************************)
EXTENDS Integers, FiniteSets

CONSTANTS
    Sections,          \* sections of the canonical payload, and owner/fixed_position
    Rank,              \* the order in which Apply sends them
    Payloads,          \* intended payloads: [sections, malformed]; the JSON of a
                       \* malformed section does not parse as its proto
    Unsendable,        \* owner / fixed_position: diffed, never read back nor sent
    LoRa,              \* the config.lora section
    Channels,          \* the sections that are channel rows
    OldRegion,         \* region of an "old" lora section
    NewRegion,         \* region of the intended lora section
    MaxPasses,         \* maxApplyPasses (10)
    MaxReadAttempts,   \* maxReadAttempts (5)
    MaxForcedReboots,  \* maxForcedReboots (2)
    Faults,            \* kinds of fault the environment may inject
    FaultBudget        \* bound on the number of faults in one session

NoRegion == ""
FaultKinds == {"noopen", "readerr", "partial", "senderr", "lose", "abort",
               "slow", "drop", "crash"}

ASSUME SectionsAssumption ==
    /\ IsFiniteSet(Sections)
    /\ Rank \in [Sections -> Nat]
    /\ \A p \in Payloads : p.malformed \subseteq p.sections /\ p.sections \subseteq Sections
    /\ Unsendable \subseteq Sections
    /\ LoRa \in Sections \ Unsendable
    /\ Channels \subseteq Sections \ Unsendable
ASSUME OptionsAssumption ==
    /\ {OldRegion, NewRegion} \subseteq STRING
    /\ {MaxPasses, MaxReadAttempts} \subseteq Nat \ {0}
    /\ MaxForcedReboots \in Nat
    /\ Faults \subseteq FaultKinds
    /\ FaultBudget \in Nat

VARIABLES
    opts,      \* --allow-region-change, --dry-run and the intended payload
    pc,        \* where the session is
    pass,      \* the loop counter of applyPayloadToDevice
    attempt,   \* open-and-read attempts within the pass
    conn,      \* the host's transport: "closed", "open", or "broken" (link gone)
    view,      \* the last conclusive state read, "absent" where no frame came
    scope,     \* the sections that view is compared over
    unsent,    \* sections this transaction has still to send
    checked,   \* regionChecked
    primed,    \* regionPrimed
    preCount,  \* sections in preApply, -1 while it is nil
    prevSize,  \* prevSections
    stall,     \* consecutive passes without progress
    forced,    \* forcedReboots
    rebooted,  \* ApplyResult.Rebooted of the current transaction
    verdict,   \* how the session ended
    flash, ram, txn, rebootDue,   \* the radio
    faults,    \* faults still in the budget
    struck,    \* history: kinds of fault that have struck
    offered    \* history: sections some Set* was sent for

radio == <<flash, ram, txn, rebootDue>>
loop  == <<checked, primed, preCount, prevSize, stall, forced>>
vars  == <<opts, pc, pass, attempt, conn, view, scope, unsent, loop, rebooted,
           verdict, radio, faults, struck, offered>>

\* What the intended payload carries, and what of it does not parse.
Intended  == opts.payload.sections
Malformed == opts.payload.malformed

Value    == {"old", "primed", "want"}
Verdicts == {"running", "refused", "dryrun", "matched", "applied", "drift",
             "stalled", "exhausted", "failed"}
PCs      == {"open", "read", "plan", "bandwait", "bandpoll", "begin", "send",
             "observe", "reread", "judge", "force", "forcewait", "done"}
MaxInt   == Cardinality(Sections) + 1      \* math.MaxInt: above any diff length

-----------------------------------------------------------------------------
(* Reading and comparing payloads.                                         *)

RegionOf(v) == CASE v = "old"    -> OldRegion
                 [] v = "absent" -> NoRegion
                 [] OTHER        -> NewRegion

\* A GetState sweep in which the frames of `lost` did not arrive.
Seen(lost) == [s \in Sections |->
                 IF s \in lost \cup Unsendable THEN "absent" ELSE ram[s]]

Present(v) == {s \in Sections : v[s] # "absent"}

\* Diff of the intended payload against the view projected onto it.
Unmet == {s \in scope : view[s] # "want"}

\* isRereadInconclusive: no channel row, or less than half the sections.
Sparse(v) == \/ Present(v) \cap Channels = {}
             \/ /\ preCount > 0
                /\ 2 * Cardinality(Present(v)) < preCount

WantedRegion   == IF LoRa \in Intended THEN NewRegion ELSE NoRegion
Bug_NeverCrossing == FALSE
RegionCrossing == /\ RegionOf(view[LoRa]) # NoRegion
                  /\ WantedRegion # NoRegion
                  /\ RegionOf(view[LoRa]) # WantedRegion
\* Variants below named Bug_... are what a plausible mistake would make of the
\* definition that follows them; no action of the specification uses them.
Bug_RefusedLate     == checked /\ ~opts.allow /\ RegionCrossing
Refused        == ~checked /\ ~opts.allow /\ RegionCrossing

NewStall == IF pass = 1 THEN stall
            ELSE IF Cardinality(Unmet) >= prevSize THEN stall + 1 ELSE 0

-----------------------------------------------------------------------------
(* Faults and session ends.                                                *)

NoFault  == UNCHANGED <<faults, struck>>
Fault(k) == /\ k \in Faults /\ faults > 0
            /\ faults' = faults - 1 /\ struck' = struck \cup {k}

\* Every return of applyPayloadToDevice closes the transport first.
Finish(v) == /\ pc' = "done"
             /\ verdict' = v
             /\ conn' = "closed"

Bug_NextPassOneMore ==
    \/ pass <= MaxPasses /\ pass' = pass + 1 /\ pc' = "open" /\ attempt' = 1 /\ UNCHANGED verdict
    \/ pass > MaxPasses /\ pc' = "done" /\ verdict' = "exhausted" /\ UNCHANGED <<pass, attempt>>

\* `continue`: the next pass, or the loop's own bound.
NextPass ==
    \/ /\ pass < MaxPasses
       /\ pass' = pass + 1
       /\ pc' = "open"
       /\ attempt' = 1
       /\ UNCHANGED verdict
    \/ /\ pass = MaxPasses
       /\ pc' = "done"
       /\ verdict' = "exhausted"
       /\ UNCHANGED <<pass, attempt>>

Bug_DisconnectedLeak == conn = "broken" /\ UNCHANGED conn /\ NextPass /\ NoFault

\* A write on a dead link: IsDisconnect holds and the pass is abandoned.
Disconnected == /\ conn = "broken"
                /\ conn' = "closed"
                /\ NextPass
                /\ NoFault

\* Any other write error, an interrupt included: Apply's error is returned.
SendError == Fault("senderr") /\ Finish("failed") /\ UNCHANGED <<pass, attempt>>

Init ==
    /\ opts \in [allow : BOOLEAN, dryRun : BOOLEAN, payload : Payloads]
    /\ pc = "open" /\ pass = 1 /\ attempt = 1 /\ conn = "closed"
    /\ view = [s \in Sections |-> "absent"]
    /\ scope = Intended /\ unsent = {}
    /\ checked = FALSE /\ primed = FALSE
    /\ preCount = -1 /\ prevSize = -1 /\ stall = 0 /\ forced = 0
    /\ rebooted = FALSE /\ verdict = "running"
    /\ flash \in [Sections -> {"old", "want"}]
    /\ ram = flash /\ txn = FALSE /\ rebootDue = FALSE
    /\ faults = FaultBudget /\ struck = {} /\ offered = {}

-----------------------------------------------------------------------------
(* openAndReadDevice.                                                      *)

OpenTransport ==
    /\ pc = "open"
    /\ \/ /\ NoFault
          /\ conn' = "open"
          /\ pc' = "read"
          /\ UNCHANGED verdict
       \/ Fault("noopen") /\ Finish("failed")
    /\ UNCHANGED <<pass, attempt, view, scope, unsent, loop, rebooted,
                   radio, offered, opts>>

\* GetState keeps the frames that arrive until the config-complete frame; it
\* does not notice that one is missing.
Sweep(lost) == IF lost = {} THEN NoFault ELSE Fault("partial")

ReadState ==
    /\ pc = "read"
    /\ \/ /\ conn = "open"
          /\ \E lost \in SUBSET Sections :
                /\ Sweep(lost)
                /\ view' = Seen(lost)
          /\ scope' = Intended
          /\ pc' = "plan"
          /\ UNCHANGED <<conn, attempt, verdict>>
       \/ /\ conn = "broken"
          /\ attempt < MaxReadAttempts
          /\ attempt' = attempt + 1
          /\ conn' = "closed"
          /\ pc' = "open"
          /\ NoFault
          /\ UNCHANGED <<view, scope, verdict>>
       \/ /\ \/ conn = "broken" /\ attempt >= MaxReadAttempts /\ NoFault
             \/ Fault("readerr")
          /\ Finish("failed")
          /\ UNCHANGED <<view, scope, attempt>>
    /\ UNCHANGED <<pass, unsent, loop, rebooted, radio, offered, opts>>

-----------------------------------------------------------------------------
(* What a pass decides once it has read the device.                        *)

EndPlan(v) ==
    /\ Finish(v)
    /\ NoFault
    /\ UNCHANGED <<pass, attempt, view, scope, unsent, loop, rebooted,
                   radio, offered, opts>>

RefuseRegion == pc = "plan" /\ Refused /\ EndPlan("refused")

Preview == pc = "plan" /\ ~Refused /\ opts.dryRun /\ EndPlan("dryrun")

Bug_PrimeUnderDryRun == ~Refused /\ ~primed /\ RegionCrossing
PrimeDue == ~Refused /\ ~opts.dryRun /\ ~primed /\ RegionCrossing

\* PrimeRegion: one Set* outside any transaction, get-modify-set of lora.
Prime ==
    /\ pc = "plan" /\ PrimeDue
    /\ checked' = TRUE
    /\ \/ /\ \/ conn = "broken" /\ NoFault
             \/ Fault("senderr")
          /\ Finish("failed")
          /\ UNCHANGED <<radio, offered>>
       \/ /\ conn = "open"
          /\ pc' = "bandwait"
          /\ offered' = offered \cup {LoRa}
          /\ UNCHANGED <<conn, verdict>>
          /\ \/ /\ NoFault
                /\ ram' = [ram EXCEPT ![LoRa] = "primed"]
                /\ flash' = IF txn THEN flash ELSE [flash EXCEPT ![LoRa] = "primed"]
                /\ rebootDue' = (rebootDue \/ ~txn)
                /\ UNCHANGED txn
             \/ Fault("lose") /\ UNCHANGED radio
    /\ UNCHANGED <<pass, attempt, view, scope, unsent, primed, preCount, prevSize,
                   stall, forced, rebooted, opts>>

Planning == /\ pc = "plan" /\ ~Refused /\ ~opts.dryRun
            /\ primed \/ ~RegionCrossing

NothingLeft == /\ Planning /\ Unmet = {}
               /\ EndPlan(IF pass = 1 THEN "matched" ELSE "applied")

Stalled == /\ Planning /\ Unmet # {} /\ NewStall >= 2
           /\ EndPlan("stalled")

StartApply ==
    /\ Planning /\ Unmet # {} /\ NewStall < 2
    /\ checked' = TRUE
    /\ stall' = NewStall
    /\ prevSize' = Cardinality(Unmet)
    /\ preCount' = IF preCount = -1 THEN Cardinality(Present(view)) ELSE preCount
    /\ scope' = Unmet
    /\ unsent' = Unmet \ Unsendable
    /\ rebooted' = FALSE
    /\ pc' = "begin"
    /\ NoFault
    /\ UNCHANGED <<pass, attempt, conn, view, primed, forced, verdict,
                   radio, offered, opts>>

-----------------------------------------------------------------------------
(* device.Apply: one edit transaction.                                     *)

Bug_NoTransaction ==
    /\ pc = "begin" /\ conn = "open" /\ pc' = "send" /\ NoFault
    /\ UNCHANGED <<pass, attempt, conn, verdict, radio, view, scope, unsent, loop,
                   rebooted, offered, opts>>

\* A lost packet is not acknowledged; when that wait ends the sends go on.
Unanswered == Fault("lose")

BeginEdit ==
    /\ pc = "begin"
    /\ \/ Disconnected /\ UNCHANGED radio
       \/ SendError /\ UNCHANGED radio
       \/ /\ conn = "open"
          /\ pc' = "send"
          /\ \/ NoFault /\ txn' = TRUE
             \/ Unanswered /\ UNCHANGED txn
          /\ UNCHANGED <<pass, attempt, conn, verdict, flash, ram, rebootDue>>
    /\ UNCHANGED <<view, scope, unsent, loop, rebooted, offered, opts>>

\* Within a transaction the firmware stages; outside one it persists at once.
TakeSet(s) ==
    /\ ram' = [ram EXCEPT ![s] = "want"]
    /\ \/ txn /\ UNCHANGED <<flash, rebootDue>>
       \/ /\ ~txn
          /\ flash' = [flash EXCEPT ![s] = "want"]
          /\ \E due \in BOOLEAN : rebootDue' = (rebootDue \/ due)
    /\ UNCHANGED txn

\* parseConfigSubmessage and parseModuleConfigSubmessage.
Parses(s) == s \notin Malformed

SendSection ==
    /\ pc = "send"
    /\ \E s \in unsent :
          /\ \A t \in unsent : Rank[s] <= Rank[t]
          /\ \/ /\ ~Parses(s)
                /\ Finish("failed") /\ NoFault
                /\ UNCHANGED <<pass, attempt, unsent, radio, offered>>
             \/ /\ Parses(s)
                /\ Disconnected \/ SendError
                /\ UNCHANGED <<unsent, radio, offered>>
             \/ /\ Parses(s)
                /\ conn = "open"
                /\ unsent' = unsent \ {s}
                /\ offered' = offered \cup {s}
                /\ \/ NoFault /\ TakeSet(s)
                   \/ Unanswered /\ UNCHANGED radio
                /\ UNCHANGED <<pc, pass, attempt, conn, verdict>>
    /\ UNCHANGED <<view, scope, loop, rebooted, opts>>

Bug_CommitForgotten ==
    /\ pc = "send" /\ unsent = {} /\ pc' = "observe" /\ NoFault
    /\ UNCHANGED <<pass, attempt, conn, verdict, radio, view, scope, unsent, loop,
                   rebooted, offered, opts>>

CommitEdit ==
    /\ pc = "send" /\ unsent = {}
    /\ \/ Disconnected /\ UNCHANGED radio
       \/ SendError /\ UNCHANGED radio
       \/ /\ conn = "open"
          /\ pc' = "observe"
          /\ \/ /\ NoFault
                /\ flash' = ram /\ txn' = FALSE
                /\ \E due \in BOOLEAN : rebootDue' = (rebootDue \/ due)
             \/ /\ Fault("abort")      \* the flash write aborts, nothing persists
                /\ txn' = FALSE /\ rebootDue' = TRUE
                /\ UNCHANGED flash
             \/ Unanswered /\ UNCHANGED <<flash, txn, rebootDue>>
          /\ UNCHANGED <<pass, attempt, conn, verdict, ram>>
    /\ UNCHANGED <<view, scope, unsent, loop, rebooted, offered, opts>>

\* observeCommit: Boot below records a FromRadio_Rebooted seen meanwhile.
ObserveCommit ==
    /\ pc = "observe"
    /\ pc' = "reread"
    /\ NoFault
    /\ UNCHANGED <<pass, attempt, conn, view, scope, unsent, loop, rebooted,
                   verdict, radio, offered, opts>>

\* The post-commit read, Close, mergeApplyResult and the two `continue`s.
Reread ==
    /\ pc = "reread"
    /\ conn' = "closed"
    /\ \/ /\ \/ conn = "broken" /\ NoFault
             \/ Fault("readerr")
          /\ NextPass
          /\ UNCHANGED <<view>>
       \/ /\ conn = "open"
          /\ \E lost \in SUBSET Sections :
                /\ Sweep(lost)
                /\ \/ /\ Sparse(Seen(lost))
                      /\ NextPass
                      /\ UNCHANGED <<view>>
                   \/ /\ ~Sparse(Seen(lost))
                      /\ view' = Seen(lost)
                      /\ pc' = "judge"
                      /\ UNCHANGED <<pass, attempt, verdict>>
    /\ UNCHANGED <<scope, unsent, loop, rebooted, radio, offered, opts>>

-----------------------------------------------------------------------------
(* What a pass decides after a conclusive re-read.                         *)

Bug_AcceptUnread ==
    /\ pc = "judge" /\ Finish("applied") /\ NoFault
    /\ UNCHANGED <<pass, attempt, view, scope, unsent, loop, rebooted, radio,
                   offered, opts>>

Accept ==
    /\ pc = "judge" /\ Unmet = {}
    /\ Finish("applied")
    /\ NoFault
    /\ UNCHANGED <<pass, attempt, view, scope, unsent, loop, rebooted, radio,
                   offered, opts>>

CanForce == LoRa \in Unmet /\ forced < MaxForcedReboots

JudgeDrift ==
    /\ pc = "judge" /\ Unmet # {}
    /\ \/ rebooted /\ pass < MaxPasses /\ NextPass /\ UNCHANGED conn
       \/ /\ ~rebooted /\ pass < MaxPasses /\ CanForce
          /\ pc' = "force"
          /\ UNCHANGED <<pass, attempt, conn, verdict>>
       \/ /\ pass = MaxPasses \/ (~rebooted /\ ~CanForce)
          /\ Finish("drift")
          /\ UNCHANGED <<pass, attempt>>
    /\ NoFault
    /\ UNCHANGED <<view, scope, unsent, loop, rebooted, radio, offered,
                   opts>>

\* forceRebootAndWait up to the reboot request; its errors report the drift.
ForceReboot ==
    /\ pc = "force"
    /\ \/ /\ Fault("noopen") \/ Fault("senderr")
          /\ Finish("drift")
          /\ UNCHANGED rebootDue
       \/ /\ conn' = "open"
          /\ pc' = "forcewait"
          /\ \/ NoFault /\ rebootDue' = TRUE
             \/ Fault("lose") /\ UNCHANGED rebootDue
          /\ UNCHANGED verdict
    /\ UNCHANGED <<pass, attempt, view, scope, unsent, loop, rebooted,
                   flash, ram, txn, offered, opts>>

Bug_DrainNoWindow == conn = "broken" /\ NoFault

\* awaitReboot's drain ends when the link drops or its window elapses; the
\* window outlasts a scheduled reboot unless the radio is slow.
DrainEnds == \/ (conn = "broken" \/ ~rebootDue) /\ NoFault
             \/ Fault("slow")

AwaitForcedReboot ==
    /\ pc = "forcewait"
    /\ conn' = "closed"
    /\ \/ DrainEnds /\ NextPass /\ forced' = forced + 1
       \/ /\ Fault("noopen")
          /\ pc' = "done" /\ verdict' = "drift"
          /\ UNCHANGED <<pass, attempt, forced>>
    /\ UNCHANGED <<view, scope, unsent, checked, primed, preCount, prevSize, stall,
                   rebooted, radio, offered, opts>>

\* awaitBandSwitch, first the reboot ...
AwaitBandReboot ==
    /\ pc = "bandwait"
    /\ conn' = "closed"
    /\ \/ DrainEnds /\ pc' = "bandpoll" /\ UNCHANGED verdict
       \/ Fault("noopen") /\ Finish("failed")
    /\ UNCHANGED <<pass, attempt, view, scope, unsent, loop, rebooted,
                   radio, offered, opts>>

\* ... then polls until the region shows or the deadline passes.
PollBand ==
    /\ pc = "bandpoll"
    /\ \/ /\ \/ (RegionOf(ram[LoRa]) = WantedRegion \/ ~rebootDue) /\ NoFault
             \/ Fault("slow")
          /\ primed' = TRUE
          /\ preCount' = -1 /\ prevSize' = MaxInt /\ stall' = 0
          /\ NextPass
          /\ UNCHANGED conn
       \/ /\ Fault("noopen")
          /\ Finish("failed")
          /\ UNCHANGED <<pass, attempt, primed, preCount, prevSize, stall>>
    /\ UNCHANGED <<view, scope, unsent, checked, forced, rebooted, radio,
                   offered, opts>>

-----------------------------------------------------------------------------
(* The radio and the link.                                                 *)

\* RAM is reloaded from flash and an open transaction forgotten.  A USB CDC
\* port disappears; behind a UART bridge or BLE bridge the link may survive
\* and carry a FromRadio_Rebooted frame.
Boot ==
    /\ ram' = flash /\ txn' = FALSE /\ rebootDue' = FALSE
    /\ \/ /\ conn' = IF conn = "open" THEN "broken" ELSE conn
          /\ UNCHANGED rebooted
       \/ /\ conn = "open"
          /\ rebooted' = (rebooted \/ pc = "observe")
          /\ UNCHANGED conn
    /\ UNCHANGED <<pc, pass, attempt, view, scope, unsent, loop, verdict,
                   flash, offered>>

ScheduledReboot == rebootDue /\ Boot /\ NoFault /\ UNCHANGED opts
PowerGlitch     == Fault("crash") /\ Boot /\ UNCHANGED opts
LinkDrop ==
    /\ Fault("drop")
    /\ conn = "open" /\ conn' = "broken"
    /\ UNCHANGED <<pc, pass, attempt, view, scope, unsent, loop, rebooted,
                   verdict, radio, offered, opts>>

-----------------------------------------------------------------------------
Host == \/ OpenTransport \/ ReadState
        \/ RefuseRegion \/ Preview \/ Prime \/ NothingLeft \/ Stalled \/ StartApply
        \/ BeginEdit \/ SendSection \/ CommitEdit \/ ObserveCommit \/ Reread
        \/ Accept \/ JudgeDrift \/ ForceReboot \/ AwaitForcedReboot
        \/ AwaitBandReboot \/ PollBand
Next == Host \/ ScheduledReboot \/ PowerGlitch \/ LinkDrop

Spec     == Init /\ [][Next]_vars
FairSpec == Spec /\ WF_vars(Host) /\ WF_vars(ScheduledReboot)

-----------------------------------------------------------------------------
(* Properties.                                                             *)

TypeOK ==
    /\ pc \in PCs /\ verdict \in Verdicts
    /\ pass \in 1 .. MaxPasses /\ attempt \in 1 .. MaxReadAttempts
    /\ conn \in {"closed", "open", "broken"}
    /\ view \in [Sections -> Value \cup {"absent"}]
    /\ scope \in SUBSET Intended /\ unsent \in SUBSET scope
    /\ checked \in BOOLEAN /\ primed \in BOOLEAN /\ rebooted \in BOOLEAN
    /\ preCount \in Nat \cup {-1} /\ prevSize \in Nat \cup {-1}
    /\ stall \in 0 .. 1 /\ forced \in Nat
    /\ flash \in [Sections -> Value] /\ ram \in [Sections -> Value]
    /\ txn \in BOOLEAN /\ rebootDue \in BOOLEAN
    /\ faults \in 0 .. FaultBudget
    /\ offered \in SUBSET Intended /\ struck \subseteq Faults
    /\ opts \in [allow : BOOLEAN, dryRun : BOOLEAN, payload : Payloads]

\* No path leaks the transport: about to open the port, or returned, the loop holds
\* none of its own (device_config_apply.go:222-225: a leaked handle fails the reopen).
HandleReleased == pc \in {"open", "judge", "force", "bandpoll", "done"} => conn = "closed"

\* The loop's invariant (device_config_apply.go:78-270): how the position in the loop
\* limits what has been written and may still be, and what the loop holds.
Ordered ==
    /\ verdict = "running" <=> pc # "done"
    /\ pc \notin {"open", "read", "plan", "done"} => checked /\ ~opts.dryRun
    /\ ~checked => offered = {}
    /\ opts.dryRun => offered = {}
    /\ pass = 1 /\ pc \in {"open", "read", "plan"} => offered = {}
    /\ pc = "plan" => scope = Intended
    /\ pc \in {"begin", "send"} => unsent \subseteq Unmet
    /\ pc \in {"force", "forcewait"} => Unmet # {}
SessionInv == Ordered /\ HandleReleased

\* The session implements the operator's contract: whatever is lost, aborted
\* or rebooted meanwhile, a success is printed only after a read that showed
\* no difference, a refusal or a preview writes nothing, and only sections
\* read as different are written (device_config_apply.go, the whole loop).
Contract == INSTANCE ApplyContract WITH unmet <- Unmet, mayWrite <- ~opts.dryRun
ImplementsContract == Contract!Spec

\* The device never leaves a region it was read to have without
\* --allow-region-change (docs/configure.md:219), for a payload that names a
\* region and while no read has lost a frame: the check runs once, on the first
\* read (device_config_apply.go:91-97).
RegionKept(lora) == RegionOf(lora) = OldRegion
RegionConsent ==
    [][ ~opts.allow /\ NoRegion \notin {OldRegion, NewRegion} /\ "partial" \notin struck
            => (RegionKept(ram[LoRa]) => RegionKept(ram'[LoRa])) ]_vars

Success == verdict \in {"matched", "applied"}

\* "After the commit reboot ... re-reads the radio, and confirms the result"
\* (docs/configure.md:219): what a reported success has confirmed is in flash
\* and survives the next boot.
SuccessPersists == Success => \A s \in Intended : flash[s] = "want"

\* The same, unless an admin packet was lost, a flash write aborted or the link
\* was cut over an open transaction: failing opens, reads and writes, sparse
\* reads, slow reboots and power glitches cannot fake a success.
SuccessIsDurable == struck \cap {"lose", "abort", "drop"} = {} => SuccessPersists

\* A session nothing has disturbed gets what it was asked for, if it can be sent:
\* the payload into flash, or the refusal or the preview its flags call for.
CleanSessionApplies ==
    pc = "done" /\ struck = {} /\ Intended \cap (Unsendable \cup Malformed) = {} =>
        \/ Success /\ SuccessPersists
        \/ opts.dryRun /\ verdict = "dryrun" /\ offered = {}
        \/ ~opts.allow /\ verdict = "refused" /\ offered = {}

\* Faults that let a pass start over a stale view or a pending reboot.
Unpaced == {"partial", "lose", "slow", "drop", "crash"}

\* What a pass sends reaches flash all at once or not at all
\* (docs/configure.md:217, "The commit then persists everything at once").  A pass
\* may also start over a pending reboot if nobody read the radio again after a flash
\* write that aborted.
PersistsWholeBatch ==
    [][ pc = "send" /\ flash' # flash
          /\ struck' \cap Unpaced = {} /\ ~({"abort", "readerr"} \subseteq struck')
            => \A s \in scope \ Unsendable : flash'[s] = "want" ]_vars

\* A lora section of another region is set only on a radio that was first
\* switched to that region by a preset (docs/configure.md:221).
PrimesBeforeCrossing ==
    [][ OldRegion # NewRegion /\ NoRegion \notin {OldRegion, NewRegion}
          /\ struck' \cap Unpaced = {}
            => ~(ram[LoRa] = "old" /\ ram'[LoRa] = "want") ]_vars

\* Every session ends, whatever the faults: each loop and wait is bounded.
Terminates == <>(pc = "done")
=============================================================================
