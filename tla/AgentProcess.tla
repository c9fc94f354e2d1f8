---------------------------- MODULE AgentProcess ----------------------------
(***************************************************************************)
(* The life of one `rmesh agent run`, `observe` or `doctor` process: the   *)
(* configuration, the start of the agent step by step, the signals that    *)
(* two handlers share, and the exit code.                                  *)
(*                                                                         *)
(* Execute listens for SIGINT and SIGTERM from the start, but the agent    *)
(* takes its context from a second listener that RunE registers once the   *)
(* configuration is loaded; doctor takes none.  What the goroutines of a   *)
(* running agent do is the subject of Agent and NodeMetrics.               *)
(***************************************************************************)
EXTENDS AgentConfig

CONSTANTS
    BleUrls,        \* transport URLs with the ble scheme
    MaxSignals      \* bound of the model

VARIABLES
    step,      \* "off", then "transport", "device", "state", "mqtt", "up",
               \* "stopping", "returned"; doctor: "port", "transport", "device", "state"
    result,    \* what Run returned: "none", "nil", "canceled", "wrapped", "error"
    exit,      \* "running", "0", "1", "130" or "panic"
    signals,   \* signals sent so far (bounded)
    rootDone,  \* Execute's context is cancelled
    runDone,   \* RunE's context is cancelled
    hard,      \* the second-signal goroutine has registered its channel
    poller,    \* the transport is a BLE one, with a goroutine of its own
    errCh,     \* what readLoop sent and nobody took: "none", "error" or "canceled"
    broken     \* history: what failed: "none", "step" or "link"

reading == <<poller, errCh>>
process == <<step, result, exit, signals, rootDone, runDone, hard, reading, broken>>
pvars   == <<cvars, process>>

ProcessInit ==
    /\ Init
    /\ step = "off" /\ result = "none" /\ exit = "running" /\ signals = 0
    /\ rootDone = FALSE /\ runDone = FALSE /\ hard = FALSE /\ broken = "none"
    /\ poller = FALSE /\ errCh = "none"

\* Configuration steps are those of AgentConfig; the file may change at any time.
Configure ==
    /\ exit = "running" /\ Next
    /\ UNCHANGED process

\* A refused configuration is a plain error.
ConfigError ==
    /\ exit = "running" /\ pc = "refused" /\ step = "off"
    /\ step' = "returned" /\ result' = "error" /\ broken' = "step"
    /\ UNCHANGED <<cvars, exit, signals, rootDone, runDone, hard, reading>>

\* RunE registers its own listener; a signal that came before cancelled only
\* the root's context.
Listen ==
    /\ exit = "running" /\ pc = "ready"
    /\ pc' = "started"
    /\ step' = IF verb = "doctor" THEN "port" ELSE "transport"
    /\ UNCHANGED <<file, command, next, cfg, read, result, exit, signals, rootDone, runDone, hard, reading, broken>>

\* Every registered channel gets the signal; the third party is the hard exit.
Heard == step \notin {"off", "returned"} /\ verb # "doctor"
Signal ==
    /\ exit = "running" /\ signals < MaxSignals
    /\ signals' = signals + 1
    /\ rootDone' = TRUE
    /\ runDone' = (runDone \/ Heard)
    /\ exit' = IF hard THEN "130" ELSE exit
    /\ UNCHANGED <<cvars, step, result, hard, reading, broken>>

\* Until this step has run, a second signal is lost.
AwaitSecondSignal ==
    /\ exit = "running" /\ rootDone /\ ~hard
    /\ hard' = TRUE
    /\ UNCHANGED <<cvars, step, result, exit, signals, rootDone, runDone, reading, broken>>

-----------------------------------------------------------------------------
(* agent.Run, and doctor's checks.                                         *)

StepOrder == {<<"port", "transport">>, <<"transport", "device">>, <<"device", "state">>,
              <<"state", IF verb = "run" THEN "mqtt" ELSE IF verb = "observe" THEN "up"
                         ELSE "returned">>,
              <<"mqtt", "up">>}
Starting  == {"port", "transport", "device", "state", "mqtt"}

StepSucceeds ==
    /\ exit = "running"
    /\ \E to \in StepOrder : to[1] = step /\ step' = to[2]
    /\ result' = IF step' = "returned" THEN "nil" ELSE result
    /\ poller' = (poller \/ (step = "transport" /\ cfg[Url] \in BleUrls))
    /\ UNCHANGED <<cvars, exit, signals, rootDone, runDone, hard, errCh, broken>>

\* The step fails by itself.
StepFails ==
    /\ exit = "running" /\ step \in Starting
    /\ (step = "port" => cfg[MetricsOn] = "true")
    /\ step' = "returned" /\ result' = "error" /\ broken' = "step"
    /\ UNCHANGED <<cvars, exit, signals, rootDone, runDone, hard, reading>>

\* The device, the state read and the broker wait under the run's context; the
\* transport is opened without one.  Run wraps the error it gets.
StepCanceled ==
    /\ exit = "running" /\ step \in {"device", "state", "mqtt"} /\ runDone
    /\ step' = "returned" /\ result' = "wrapped"
    /\ UNCHANGED <<cvars, exit, signals, rootDone, runDone, hard, reading, broken>>

\* time.NewTicker panics on an interval that is not positive: the main loop's on
\* the poll, and the metrics refresher's on the interval it uses.
TickersPanic ==
    /\ exit = "running"
    /\ \/ step = "up" /\ Seconds[cfg[Poll]] <= 0
       \/ /\ step \in {"mqtt", "up"} /\ cfg[MetricsOn] = "true"
          /\ Seconds[EffectiveNodeDBRefreshInterval] <= 0
    /\ exit' = "panic"
    /\ UNCHANGED <<cvars, step, result, signals, rootDone, runDone, hard, reading, broken>>

Bug_LinkLossIsNil == "nil"
LinkError == "error"

\* readLoop stops and leaves its error in errCh, wherever the main loop is: the
\* link broke, the context is done, or Run has closed the transport under it.
ReaderStops ==
    /\ exit = "running" /\ step \in {"up", "stopping"} /\ errCh = "none"
    /\ \/ step = "up" /\ errCh' = LinkError /\ broken' = "link"
       \/ step = "stopping" /\ errCh' = "error" /\ UNCHANGED broken
       \/ runDone /\ errCh' = "canceled" /\ UNCHANGED broken
    /\ UNCHANGED <<cvars, step, result, exit, signals, rootDone, runDone, hard, poller>>

\* The main loop's select: of an error and a done context it takes either.
Selecting == exit = "running" /\ step = "up" /\ Seconds[cfg[Poll]] > 0

SelectErr ==
    /\ Selecting /\ errCh # "none"
    /\ result' = IF errCh = "error" THEN "error" ELSE "nil"
    /\ step' = "returned" /\ errCh' = "none"
    /\ UNCHANGED <<cvars, exit, signals, rootDone, runDone, hard, poller, broken>>

ContextDone ==
    /\ Selecting /\ runDone
    /\ step' = "stopping"
    /\ UNCHANGED <<cvars, result, exit, signals, rootDone, runDone, hard, reading, broken>>

\* The reader's error, or 3 s; neither shows in what Run returns.
AwaitReadLoop ==
    /\ exit = "running" /\ step = "stopping"
    /\ step' = "returned" /\ result' = "canceled" /\ errCh' = "none"
    /\ UNCHANGED <<cvars, exit, signals, rootDone, runDone, hard, poller, broken>>

\* Run and doctor close the transport on every way out; a BLE poller with a
\* packet in hand then sends on a closed channel (BleTransport).
PollerPanics ==
    /\ exit = "running" /\ step \in {"stopping", "returned"} /\ poller
    /\ exit' = "panic"
    /\ UNCHANGED <<cvars, step, result, signals, rootDone, runDone, hard, reading, broken>>

\* shutdownErr compares the error, it does not unwrap it.
Quiet(r) == r \in {"nil", "canceled"}

Exit ==
    /\ exit = "running" /\ step = "returned"
    /\ exit' = IF Quiet(result) THEN "0" ELSE "1"
    /\ UNCHANGED <<cvars, step, result, signals, rootDone, runDone, hard, reading, broken>>

ProcessNext ==
    \/ Configure \/ ConfigError \/ Listen \/ Signal \/ AwaitSecondSignal
    \/ StepSucceeds \/ StepFails \/ StepCanceled \/ TickersPanic
    \/ ReaderStops \/ SelectErr \/ ContextDone \/ AwaitReadLoop \/ PollerPanics \/ Exit

ProcessSpec == ProcessInit /\ [][ProcessNext]_pvars

-----------------------------------------------------------------------------
(* Properties.                                                             *)

\* The exit code tells a supervisor the truth.  0 means that no step failed and,
\* from an agent, that it was asked to stop; a lost link goes unreported only if
\* it was asked to stop too and the select took that (agent.go:125-141).  1 without
\* a failure is a signal that met the start (shutdown.go:5); 130 takes two
\* signals.  An agent that its configuration lets start panics only on a negative
\* poll, which no check refuses, or, over BLE, on its way out.
ExitCodeHonest ==
    /\ exit = "0" => /\ broken # "step" /\ (verb # "doctor" => runDone)
                     /\ broken = "link" => result = "canceled"
    /\ exit = "1" => broken # "none" \/ (runDone /\ result = "wrapped")
    /\ exit = "130" => signals >= 2
    /\ exit = "panic" => \/ \E d \in Durations : Says(Poll, d) /\ Seconds[d] < 0
                         \/ poller /\ step \in {"stopping", "returned"}
=============================================================================
