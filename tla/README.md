# Formal models of rmesh-cli

This directory models the parts of `rmesh` whose correctness depends on the
order in which things happen: the reconnect loop that writes a configuration to
a radio and the admin packets it sends, the commands that move a saved
configuration between a device, a file and the cloud, the agent from its command
line through its goroutines and gauges to its exit code, the session files, and
the two transports.
The modules are TLA+; TLC checks them on small instances and TLAPS proves the
theorems for every value of the constants. Source paths below are relative to
`src/`.

## The system and its components

| Component | Source | State it keeps | Operations | What makes it hard | What makes it correct | Here |
|---|---|---|---|---|---|---|
| Device config apply | `cmd/rmesh/cmd/device_config_apply.go` | pass counter, region and prime flags, stall counters, the transport handle | read, diff, refuse, prime, apply, judge, force a reboot, wait | reboots and link loss between any two steps, lost packets, sparse reads | a reported success is in flash; no write without a difference, without consent or in a preview; every session ends | `ApplySession`, `ApplyContract` |
| Admin protocol | `internal/device/admin.go` | the transaction's progress, `ApplyResult` | Begin, Set\*, Commit, observe, re-read, PrimeRegion, Reboot | ACKs that time out, a transaction left open, staged values that look saved | a batch persists whole or not at all; a rejection is blamed on its packet; writes stay on the connected radio | `AdminExchange`, and in `ApplySession` |
| Device state read | `internal/device/state.go`, `canonical.go` | the sweep's configID and rows | GetState, ToCanonicalPayload | frames taken by another reader, no deadline | a finished sweep has every row | `ApplySession`, `Agent` |
| Payload algebra | `internal/deviceconfigs/diff.go`, `canonical.go` | none (pure) | Diff, ProjectOnto, PayloadFromDiff, CloneSections, ExcludeFields | null and absent, sections no flag can name | sending a diff makes the diff empty; nothing excluded is sent | `PayloadAlgebra` |
| Link reconnection | `internal/transport/reconnect.go` | none | IsDisconnect, WaitReady | telling a reboot from an error | a lost link is retried, other errors are reported | outcomes in `ApplySession` |
| Agent runtime | `internal/agent/` | node table, seen set, emission timers, three goroutines | Run, readLoop, handlePacket, refresh, emit, metrics refresh, shutdown | three receivers on one transport, a signal at any wait | packets accounted for, intervals kept, a signal ends it, and so does a lost link that the transport reports | `Agent` |
| Synthetic cadence | `internal/synthesise/build.go` | none | Due, builders | jitter boundary, first sight | at most one emission per interval | in `Agent` |
| MQTT forwarder | `internal/forwarder/mqtt.go` | connection (external client) | Connect, Publish | broker refusal, cancellation | a failed publish is retried next pass | outcomes in `Agent` |
| Serial transport | `internal/transport/serial.go` | the port, one mutex | receive, send, close | noise, gaps inside frames, waiting under the mutex | frames once, in order, whole, lost only for a named reason; sends not starved | `SerialTransport` |
| BLE transport | `internal/transport/ble_transport.go` | a bounded channel, a poller goroutine, `closed` | start, poll, receive, send, close | missed notifications, overrun, close against push | newest kept, everything pulled, close releases all | `BleTransport` |
| BLE discovery, transport selection | rest of `internal/transport` | scan results | scan, match, open | operating-system scanning | | not modelled |
| Config copy, set, get, edit, promote, delete; sources, files | `cmd/rmesh/cmd/device_config_*.go`, `internal/deviceconfigs/source.go`, `file.go` | the resolved id, the payload read, the editor's buffer | resolve, read, filter, edit, write back, publish, delete | labels moved and payloads changed while the editor or a prompt is open, reads that lost a row, lost replies, truncating writes, formats and extensions | the right row is written, secrets and filters survive, a success is true | `ConfigTransfer` |
| Session store and login | `internal/session` | the session file and the legacy one | load (and migrate), save, clear, login | a kill between truncate and write, several processes without a lock | the last login or logout stands; a session is not lost on the way to the new file | `SessionStore` |
| Cloud API client | `internal/apiclient` | cursors | device configs; list, live stream | lost replies, pages, reconnects | nothing skipped silently | device configs in `ConfigTransfer`; the rest planned |
| Agent configuration | `internal/config`, `internal/cliconfig`, `cmd/rmesh/cmd/agent_config.go`, `agent_sections.go` | the config tree | load, `--set`, typed flags, validate, default, edit | precedence of three sources, defaults that look like values | what runs is what the user said, the last word first | `AgentConfig` |
| Metrics registry | `internal/metrics`, `internal/telemetry` | series and timestamps | record, refresh, republish, scrape | three writers, one of them outside the mutex; a refresh that makes old data look new | a gauge shows its node's row, a timestamp is not older than its gauges | `NodeMetrics` |
| Process shutdown | `cmd/rmesh/cmd/root.go`, `run.go`, `shutdown.go`, `doctor.go` | two contexts, the listener for a second signal | first signal cancels, second exits, exit code | two listeners registered at different times, a command that ignores its context | the exit code tells what happened | `AgentProcess`; the signal inside a running agent in `Agent` |
| Views, decoding, completion, output | remaining packages | none to speak of | formatting, byte-level decoding | | | not modelled |

The device config commands read a payload from one place and write it to another;
where that is a radio they call the apply loop, which opens a transport (`transport.Open`),
reads the device through it (`device.GetState`), runs a transaction
(`device.Apply`) and closes it, pass after pass. The agent opens one transport
and shares it between its reader, its main loop and its metrics refresher; the
first publishes what it hears over MQTT, the other two run `GetState` on the same
stream of frames. Both transports serve any number of goroutines at a time.

## Modules

| Module | Models | Its shape |
|---|---|---|
| `ApplyContract` | what `copy --to device` promises: look, write only what was seen to differ, end with a verdict the last look supports | 4 variables, 6 actions |
| `ApplySession` | `applyPayloadToDevice` with `device.Apply` and the radio | the loop's locals are the variables `pass`, `checked`, `primed`, `prevSize`, `stall`, `forced`; `pc` names the code's waits; `flash`, `ram`, `txn`, `rebootDue` are the radio |
| `PayloadAlgebra` | the functions of `internal/deviceconfigs` on payloads | a payload is a function from sections to JSON; constant operators only |
| `ConfigTransfer` | the handlers of copy, set, get, edit, promote and delete | `cmd` and `pc` are the command line and its handler's place, `cfgID`, `buffer`, `include` its locals; `device`, `file`, `rows` the world it shares with others |
| `SessionStore` | `session.Load`, `Save`, `Clear` and `Login` in several processes | `path` and `legacy` are the two files, `linked` says whose open file is still at its path; `pc`, `op`, `hand` are a process's place, command and session |
| `Agent` | `agent.Run` and its goroutines | `main`, `reader`, `metrics` are the goroutines' places; `inbox` is the transport as a FIFO of frames; `nodes`, `seen`, `last` are the runtime's maps |
| `AdminExchange` | the packets of one `device.Apply`, the answers of the radio and the mesh on the same link | `pc`, `cur`, `to` are the host's wait, packet and address; `rx` is the radio's buffer, `inbox` what it sent |
| `AgentConfig` | `config.Load`, `--set`, the typed flags, `Validate`, the defaults and `agent config` | a configuration is a function from yaml leaves to values; `pc` is the stage, `next` the `--set` pair |
| `AgentProcess` | the process of `agent run`, `observe` or `doctor` from command line to exit code; extends `AgentConfig` | `step` is how far the start is; `rootDone`, `runDone`, `hard` are the two contexts and the hard exit |
| `NodeMetrics` | the gauges of an agent and their writers; extends `AgentProcess` | `rows` is the runtime's table, `gauge` and `stamp` the series; `job`, `got`, `snap` are the writers' places |
| `SerialTransport` | `serialTransport` | `mutex`, `port`; `parse` is `readFrame`'s progress, byte by byte; `pc` per call |
| `BleTransport` | `bleTransport` | `poller` walks `start`, `pollLoop` and `pullPackets`; `closer` walks `Close`; `packets` is the channel |
| `MC*` | give the constants their values for TLC | |
| `*_proofs` | theorems about the module they extend | |

Definitions named `Bug_...` are not part of any specification: each is the form
a definition would take after a plausible mistake, and the checks are known to
fail when it takes that definition's place.

**ApplySession.** A section is `"want"` when its JSON equals the intended one,
`"old"` when not; the lora section may also be `"primed"` (old preset, new
region), because that is what `PrimeRegion` leaves. `view` is the last
conclusive read, `"absent"` for frames that did not arrive. One action stands
for one stretch of code between two points at which the link or the radio can
interfere: `OpenTransport`, `ReadState`; the alternatives of planning
(`RefuseRegion`, `Preview`, `Prime`, `NothingLeft`, `Stalled`, `StartApply`); one
action for each admin packet (`BeginEdit`, `SendSection`, `CommitEdit`);
`ObserveCommit`, `Reread`; the outcomes (`Accept`, `JudgeDrift`, `ForceReboot` and
the waits). The firmware is external: within a transaction it stages into RAM,
outside one it saves at once, a commit saves all, a boot reloads RAM from flash
and forgets the transaction, as the comments of `admin.go` and
`docs/configure.md:217-221` say. Faults (`FaultKinds`) are: an open that fails, a
read that fails or loses frames, a write that fails, an admin packet lost, a
flash write aborted, a wait that is too short, a link drop, a power glitch. The
payload is chosen with the flags at the start (`Payloads`), among them one with a
section that does not parse and one with a section that is never sent.

**AdminExchange.** `ApplySession` says of an admin packet that it reached the radio
or was lost; here is how that comes about. Packet 0 is the probe for the
node number, packet 1 opens the transaction, `LastPacket` commits it. One action is
one write or one frame received: `SendAdmin`, `Latch` and `ProbeSilent`, `AwaitAck`
and `AckTimeout`, `DrainNotifications`, `ObserveCommit`. The radio (external) takes
packets from a buffer that may overflow, passes on those addressed to others, and
answers each of its own, refuses it, or does not answer; a neighbour's packets
come in between. `taken`, `timedOut`, `abroad` and `rejected` are history.

**PayloadAlgebra.** A section is absent when it is not in a payload's domain and
`Null` when it is the JSON null; `jsonEqual` takes both for the same, `Apply`
does not. The JSON of a section is a function from fields to values, which is as
deep as `--exclude` and `Redact` look. Channel rows are sections named by their
place in the list, so a row taken out of the list moves those behind it
(`Without`).

**ConfigTransfer.** One action is one stretch of a handler between two waits: for
the cloud, for the device, for the editor, for an answer. `Resolve` is
`ResolveDeviceConfigID`; the `ReadTo...` actions are `readPayloadFromSource`, which
resolves the label once more, with what each verb does to the result;
`SaveEdit` and `SavePreview` are the two editors; `Preview`, `TruncateFile` then
`FillFile` or `FillPart`, `ApplyToDevice`, `Upload`, `Patch`, `Delete` and `Promote` are
the ends. `GiveUp` is any error, a declined prompt or a kill, at any point.

A file is an extension, the format of its text and the payload in it. `Form` is the
format a command writes: edit goes by the extension, get and copy by `--output`
alone, whose defaults are a tree and YAML. `Parser` and `Parses` are how it is read
back: a tree never, JSON as YAML too, YAML as JSON not. A write that is cut short
leaves an empty file, or the first part of a YAML text, which parses as fewer
sections (`FillPart`). A read of the device may lose one section (`Views`), and the channel
rows behind a lost one move up a place; their own index tells `Apply` where to
send them (`Numbered`, `Lands`).

`ApplyToDevice` is the whole of `ApplySession` as one step, with what that loop can
leave behind: any part of what is sent, on the configuration that was there or on
one that was only primed (`Bases`), and then a failure, or a success if a
read may have shown the payload. What was shown may have been staged and lost
since, as `apply_link_drop` shows, so a success does not mean that the device holds it. A
request that changed the cloud may lose its reply (`Answered`). The cloud is
external: two namespaces, roles, redaction and the server's default for an empty
include list, as `apiclient/device_configs.go` describes them. `Others` rename,
rewrite, save and delete rows and change the file and the device while a command
runs. `readFrom`, `origin`, `bearers`, `outside` and `wrote` are history for the
properties. References by row id, `--label` and descriptions are left out; a
template lives on one network; a region change is always allowed here, since the
flag is the subject of `ApplySession`; a new row is last in its list; a short write ends
between two sections, and one read loses one section at most.

**SessionStore.** One action is one system call: the two reads of `Load`, the
open and the write of `os.WriteFile`, the two removals of `Clear`. The first load
that finds only the legacy file saves it at the new path and removes it. A file
is a whole session, empty, torn or missing; who opened a file that was removed
meanwhile writes into the void (`Written`). Every call may fail, and a process may
be killed between any two. `solo`, `last`, `owned` and `harmed` are history for the
properties: who has run alone since it started, what the last such login or
logout left, whether a session is there that no logout has made void, and
whether a write was cut short, failed or overlapped.

**Agent.** The transport is a FIFO of frames of four kinds: packet, node row,
config-complete, garbage. A frame goes to the goroutine that receives first, as
in the code. Node rows are versions, time is whole polls. `GetState` is one
operator for both of its callers. `world`, chosen at the start, says what may
meet this agent: the packets to be heard, the faults (a link that goes, frames
that do not parse, a broker that refuses a publish, a broker URL that does not
parse), the polls that go by, and whether the transport reports a lost link: the
serial one does, over BLE a receive just waits on (`LinkError`), and a request may
still be taken. `Connect` is the wait for a broker, which may be for ever;
`ConnectFails` ends it for a bad URL or a signal. The reader starts after it.

**AgentConfig.** A leaf of the yaml tree is a path, a value one of the texts the
code tells apart. `Stat` and `LoadRaw` read the file, `ApplySetPaths` takes one `--set`
pair in the order given, `ApplyFlags` those of the verb's sections, `Finalize`
validates and fills in the defaults; until the file is read,
`EnsureAgentConfigFile` and `EditorSaves` of `agent config` may change it. Durations
are literals with their seconds.

**AgentProcess.** `Execute` listens for signals from the start, but the agent gets
its context from a second listener that `RunE` registers after the configuration
is loaded; `doctor` takes no context. `StepSucceeds`, `StepFails` and `StepCanceled`
walk `agent.Run` up to its loop, `TickersPanic` is `NewTicker` with a negative
period. `ReaderStops` is the reader's send to `errCh`, which has room for it; the
main loop takes it (`SelectErr`) or a done context (`ContextDone`, then
`AwaitReadLoop`), whichever `select` picks when both are ready. `PollerPanics` is what
closing a BLE transport may do to its poller (`BleTransport`). `Exit` is what
`main` makes of the result. What the goroutines do meanwhile is `Agent`.

**NodeMetrics.** `UpdateDeviceMetrics` is three writes, each an action
(`WriteGauge`). `storeNode` makes them under the mutex for a row the reader received,
the poll collected or the refresher swept; telemetry and the refresher that
republishes rows make them without it. Rows are reduced to two readings, and a
reading of 0 is one that was not sent.

**SerialTransport.** Bytes are bytes and a frame is START1, START2, two bytes of
length and the payload. The radio may print noise before a frame, which is any
member of the constant `Noise`, a set of byte strings; it may pause inside a
frame for longer than the 250 ms timeout, and disappear. A byte remembers its
frame and its place there, for the properties only, as do `masked` (frames behind noise
that ends with a START1) and `forged` (some noise held START1 START2).

**BleTransport.** Packets are numbers. Notifications may never fire, a read may
fail or return garbage, the link may be lost; `Close` runs its four steps under
`closeMu` while the poller and the receivers go on.

## Runs

| Run | Expected | Question |
|---|---|---|
| `apply` | pass | With all flag combinations, any mixture of matching and differing sections, a malformed and an unsendable section, a pending band change and any two faults: the contract, durable success, consent, whole batches, no leaked handle, and does every session end? |
| `apply_link_drop` | violation | Is what a success confirms really saved? |
| `admin` | pass | With answers late, missing or negative and a neighbour on the link: do the waits pace the stream, is a rejection blamed on its packet, do writes stay on this radio? |
| `transfer` | pass | Six verbs between device, file, personal rows and templates, with failures, lost rows, short writes, lost replies and two changes by others anywhere: right row, no placeholders written, filters hold, nothing unsafe published unasked, the device changes as asked, success is true |
| `session` | pass | Do logins, logouts and loads, interleaved and killed anywhere, keep the last word and lose no session? |
| `agent` | pass | With poll, metrics refresh and reader racing: are packets accounted for, does a poll learn all nodes, are emissions spaced, do timers tell the truth? With a broker that refuses or never answers, a link lost over serial or BLE, and garbage: does a signal end everything, and a loss that is reported? |
| `agent_first_seen` | violation | Are emissions an interval apart with `on_first_seen`? |
| `agent_poll_hangs` | violation | Does each NodeDB poll end? |
| `agent_process` | pass | From file, `--set` and flags to the exit code, with two signals anywhere, a read error that may wait beside a done context, and a BLE poller: does what the user said run, and does the exit code tell what happened? |
| `agent_metrics` | pass | With reader, poll and refresher writing gauges: does a scrape show the rows, and true ages? |
| `serial` | pass | With noise that hides a frame or looks like one: are frames delivered once, in order and whole, are sends served, is the port safe after Close? |
| `ble` | pass | Is only old data dropped, is everything pulled, does Close release all and stop the poller? |

### Bounds, and why they are enough

- `apply`: one section of each kind the code tells apart (lora, a
  module, a channel row, the owner entry) in three payloads: a well-formed one, one
  with a malformed module section and the owner, and a channel row alone. Two
  faults of nine kinds at any moment: one in a transaction and one in the
  re-read or the pass that repairs it. The loop's counters matter at 2 (stall),
  2 (forced reboots) and at the pass limit; four passes reach all of them, and a
  limit of 10 adds only repetition. Read attempts are 3 instead of 5 for the same
  reason.
- `admin`: five packets (probe, begin, two sections, commit), so that an answer
  may arrive in the wait of a later section; room for two packets in the radio,
  which three overflow; one neighbour heard once.
- `transfer`: one command (its handler keeps nothing for the next) from a set of
  sixteen, every verb with each kind of source and target it treats
  differently. Two sections, one of them with a secret, and two channel rows, the
  second with an index, so that losing the first moves it; `owner` and a null. Four
  worlds, with a file under each extension, in YAML, JSON and empty, and with a
  device of the payload's region and of another; four row ids, so that a label can
  be on a personal row, a template and after a rename on two rows, with one free
  for an upload or a row that somebody saves. Two changes by others are what it
  takes to move a label away and another one in its place.
- `session`: three processes, so that a login or logout may overlap a migration
  while somebody else loads; five commands let two loads race over the legacy file,
  a login come between and a load look at the result; two sessions tell an old one from a new one.
- `agent`: one node and one sweep by each caller, in five worlds: two packets (one
  opted out) and no poll, so that three receivers compete for six frames; one packet
  and one poll; no packets and three polls, which is an interval of
  nodeinfo and one of position with its jitter; one poll with all four faults over
  serial, and one with a lost link over BLE, where the signal or the loss may come
  at any point of a sweep or an emission. nodeinfo has `on_first_seen`, as the
  defaults always set it, position has not.
- `agent_process`: two `--set` pairs out of eight are what it takes for one to
  override the other; one edit of the file, two signals, and every verb; one of the
  two files has a BLE radio.
- `agent_metrics`: one node, since no step reads two; three configurations
  (a refresher that republishes, one that sweeps, metrics off); one change of the
  radio's row, one telemetry packet and one tick of the clock, which may come
  between any two writes.
- `serial`: an empty frame, then one of one byte, a START1; `MaxPdu` 1 stands for
  512. Noise is nothing, a START1, which hides the frame behind it, or START1
  START2, which looks like one; a START2 or any other byte alone is skipped in one
  place of `readFrame`. One fault, which cuts a frame in two or
  expires the call that waits for it. The first frame has no START1 behind its own and
  the second has, so `Clean` goes either way; the theorem is for all frames and noise.
- `ble`: capacity 1 stands for 120 and is overrun by two packets; two
  receivers, so that Close has more than one to release.

Counters that could grow are capped by guards with a named constant:
`FaultBudget`, `MaxCommands`, `MaxOutside`, `MaxVersion`, `MaxInbox`, `MaxSweeps`,
`world.time`, `MaxPairs`, `MaxEdits`, `MaxSignals`, `MaxChanges`, `MaxHeard`, `MaxTime`,
`MaxChatter`, `RxRoom`, `MaxSends`, `Packets`, `MaxOps`.

`CHECK_DEADLOCK FALSE` is set because each of these systems may stop: a session
ends, an agent returns, a process exits, a transport is closed.

### Fairness

- `ApplySession`: the host goroutine is never blocked for ever, since each of its
  waits has a deadline; a scheduled reboot happens. Faults are not fair.
- `Agent`: each goroutine that can take a step takes one (weak fairness per
  goroutine). Ticks, signals, frames and faults are not fair, and neither is
  `Connect`: `AwaitConnection` has no deadline and a broker may never answer
  (`mqtt.go:62`).
- `SerialTransport`: a reader or writer that can go on does; locking is strongly
  fair, because `sync.Mutex` switches to a hand-off after a waiter has starved for
  1 ms; a radio that paused goes on.
- `BleTransport`: goroutines that can run do and the ticker ticks; the stop case
  of `select` is strongly fair, because Go chooses among ready cases at random.
- The other modules state safety only.

## Properties worth knowing

- **Refinement.** `ApplySession` implements `ApplyContract` with
  `unmet <- Unmet` and `mayWrite <- ~opts.dryRun` (`ImplementsContract`).
- **Durability.** `SuccessIsDurable`: a success names what flash holds unless a
  packet was lost, a flash write aborted or the link was cut.
  `apply_link_drop` shows that the last exception is needed.
- **Consent.** `RegionConsent`: without `--allow-region-change` the radio stays in
  its region, for payloads that name a region, until a read loses a frame.
- **Right row.** `RightRow`: what edit and delete change bore the given label, in the
  given namespace, at some moment while the command ran; and unless a
  label was moved meanwhile, an edit patches the row it read. The second
  half needs its condition, because edit resolves the label twice.
- **Secrets.** `SecretsSurviveEdits`: edit reads revealed, and a caller whose role does
  not reach for that may not write the row either.
- **Asked for.** `DeviceChangesWereAsked`, `FilterHonoured` and `UnsafeNeedsAsking` say the same of
  the three places to which a payload goes: nothing arrives there that the
  flags and the operator did not choose, also when the source changes on the way.
- **Last word.** `LastWordHolds`: after a login or logout that ran alone, loads may be
  interleaved and killed in any way without undoing it. It rests on `Load` reading
  the new file first and on `Clear` removing both. `SessionNotLost`: a migration removes
  the legacy file only when the new one holds the session.
- **Blame.** `Paced`, `Blame` and `AddressedHere`: the waits keep the radio's buffer from
  overflowing as long as they do not run out; a rejection is never blamed on
  another packet, and is overlooked only if it comes late; a write goes to
  another node only if the state read had no node number and a neighbour was heard.
- **Last word counts.** `LastWordCounts`: a flag beats `--set`, a later `--set` an earlier
  one, and both the file; a default replaces only an empty value. The two
  exceptions it needs are listed under Divergences.
- **Exit code.** `ExitCodeHonest`: 0 means that no step failed and an agent was asked to
  stop; a lost link hides behind a 0 only if the signal came too. A panic is a
  negative poll, or a BLE transport closed on the way out.
- **Success.** `DoneMeansHeld`: of the cloud and of a file a success is true until
  somebody else writes, and the file reads back: always after an edit, after get and
  copy unless `--output` does not go with the extension. Of a device it says less, and
  `DeviceChangesWereAsked` and `SuccessIsDurable` say the rest.
- **Gauges.** `GaugesTrue`: a scrape shows the row the agent has, unless a row was
  stored while the refresher was republishing an older copy of it.
- **Everything ends.** `RunEnds`: a signal, at any wait of any goroutine, the wait
  for a broker included, ends the run and its reader; so does a lost link, once the broker
  was reached, over a transport that reports it. Before that nobody reads, and over BLE
  nobody is told. `RefreshLearnsAll` is about polls without
  faults: a metrics sweep that fails drops the rows it took from the poll's answer.
- **Accounting.** `PacketsAccountedFor` ties the inbox, the reader's hand, the
  sweeps and the publishes together, and holds the opt-out at the same time.
- **Resynchronisation.** `InStep`: frames come out once and in order, and only a frame that
  was itself cut short, or came right behind a noise byte START1, is lost. It is
  about streams in which nothing but a frame looks like a frame (`Clean`): no noise spells START1
  START2, and no frame that was lost has a START1 behind its first byte. Nothing
  in `readFrame` could tell those apart.
- **In flight.** `PanicOnlyInFlight`: the window between the poller's check of
  `closed` and its send is one packet wide.

## Proofs

All theorems are proved for every value of the constants that satisfies the
module's named assumptions.

| Theorem | States | Argument |
|---|---|---|
| `TypeCorrect` | `Spec => []TypeOK` (ApplySession) | inductive by itself; the flags and the data are separate halves because the two need different provers |
| `HandleAlwaysReleased` | `[]HandleReleased` | inductive with `TypeOK` |
| `SessionInvariant` | `[]SessionInv` | the strengthening behind the refinement: where the loop is limits what was written |
| `SessionImplementsContract` | `Spec => ImplementsContract` | `SessionInv` lets each step map to a contract step or a stutter: without it a preview could follow a write |
| `RegionConsentHolds` | `Spec => RegionConsent` | the invariant `ConsentInv`: either nothing of lora has changed and no write of it is possible, or the check has passed for the right reason (`Gate`) |
| `OnlyTheChosenIsWritten` | `[]FilterHonoured` (ConfigTransfer) | `FilterInv`: from the read on, the buffer of a copy is `Filtered`; `FilterFilters` is the lemma on the two filters, down to the field |
| `PromoteIsConsented` | `[]UnsafeNeedsAsking` | `AskedInv`: every name on the include list was offered by a flag or typed; the server keeps to the list |
| `DeviceOnlyChangesAsAsked` | `Spec => DeviceChangesWereAsked` | `FilterInv` for copies, `FreshInv` (the device is as it was read) for edits, and `OnlyWhatIsSentChanges`: whatever part arrives, and the priming before it, is of a section or slot that `Sent` has |
| `EditsKeepSecrets` | `[]SecretsSurviveEdits`, if the operator types no placeholder | `SecretInv`: a buffer that is not clean came from a template, for a caller who may not write one |
| `ACompletePassConverges` | once all of `Sent(goal)` has arrived, the diff over the goal is empty, for a goal a device can report | `ReportsAreTaken`: each section and each row of such a goal is sent, and to its own place |
| `TransferTypeCorrect` | `[]TypeOK` (ConfigTransfer) | `TypeInv`: with the rows, the buffer and the reader's origin |
| `TheRightRowIsChanged` | `[]RightRow` | `RowInv`: the id in hand bore the label when it was resolved, and an edit has resolved it twice to the same row unless a label moved |
| `SuccessHolds` | `[]DoneMeansHeld` | `VerdictInv`: a verdict ends the handler, and after it only others write; what a read showed of the device had nothing in it that is never sent |
| `StoreTypeCorrect` | `[]TypeOK` (SessionStore) | inductive by itself |
| `TheLastWordHolds` | `[]LastWordHolds` | `WordInv`: who started alone found the new file empty when it writes, and while the last word stands only loads with nothing to migrate run |
| `MigrationLosesNothing` | `[]SessionNotLost` | `OwnedInv`: while a session is owned no logout runs, so the file that a migration has opened or written is still there when it removes the legacy one |
| `SuccessIsDurableAlways` | `[]SuccessIsDurable` (ApplySession) | `DurableInv`: as long as no packet is lost, no write aborts and no link is cut over a transaction, a transaction is open only during the sends of one pass and RAM and flash agree outside it, so what a look has seen is fixed |
| `CleanSessionsApply` | `[]CleanSessionApplies`, if `MaxPasses >= 3` and `MaxReadAttempts >= 2` | `CleanInv`: an undisturbed session is in one of six phases, each with what the radio holds and the reboots still due; it takes at most three passes, and the last look two reads |
| `RegionIsPrimedFirst` | `Spec => PrimesBeforeCrossing` | `PrimedInv`: while no fault lets a pass start over a stale view or a pending reboot, lora is not among the sections to send before the preset has gone out, and is off the old region for good after it |
| `BatchIsPersistedWhole` | `Spec => PersistsWholeBatch`, if there is a channel row | `BatchInv`: with the same faults excluded, a reboot is due at the start of a pass only if there is nothing left to send, and all a pass has sent is staged when it commits |
| `TimersAreHonest` | `[]TimersFollowPublishes` (Agent) | `TimerInv`; only `maybeEmit` touches a timer (`OthersKeep`), and it moves timer and history together (`EmitMarks`) |
| `EmissionsAreSpaced` | `Spec => TimedEmissions` | from `TimerInv` and `Due`: without `on_first_seen` nothing but the timer makes a kind due |
| `AgentTypeCorrect` | `[]TypeOK` (Agent) | `Typed`: the reader's hand and both sweeps hold frames and rows of their kind |
| `PacketsAlwaysAccountedFor` | `[]PacketsAccountedFor` | `PacketInv`: a packet is in one place only (`Single`), and the places do not overlap (`Apart`) |
| `RefreshesLearnAll` | `Spec => RefreshLearnsAll` | `RefreshInv`: a row a sweep was promised is stored, in the sweep, in another goroutine's hand, or in the inbox before the sweep's own marker; `Marks` keeps the markers of the sweeps apart |
| `StreamIsPaced`, `BlameIsRight` | `[]Paced`, `[]Blame` (AdminExchange) | `ExchangeInv`: each packet is before, in or past the radio's buffer (`Line`), each unread answer is of a packet the radio took (`Replies`), and a wait that did not run out has read its answer (`Waits`) |
| `WritesStayHere` | `[]AddressedHere` | `Here`: with a known number the probe is never sent; in a silent mesh only this radio can be latched |
| `ConfigurationTyped` | `[]TypeOK` (AgentProcess) | with `FlagsFit`: every stage leaves a value the leaf can hold |
| `LastWordAlwaysCounts` | `[]LastWordCounts` | `Stage`: after `n` pairs the configuration is what the first `n` say, after the flags what all say, after the defaults the same but for empty values |
| `ExitCodeAlwaysHonest` | `[]ExitCodeHonest` | `ProcessInv`: `Evidence` ties result, contexts, the buffered read error and failures, `Placed` the process to the configuration's stage, `Signalled` the contexts to the signals |
| `GaugesAlwaysTrue` | `MetricsSpec => []GaugesTrue` (NodeMetrics) | `GaugeInv`, field by field: a gauge has its reading or somebody has it still to write (`NodeDBFollows`, `TelemetryFollows`); an update carries its node's row, or the node was stored since the refresher copied (`JobsFollow`, `CopiesFollow`), which needs that every other writer of rows holds the mutex |
| `MetricsImplementProcess` | `MetricsSpec => ProcessSpec` | each step of the goroutines leaves the process alone, each other step is one of it |
| `OneCallAtATime` | two calls are never inside the serial port | `Exclusive`: who is inside holds the mutex |
| `OrderlyCloseIsSafe` | `[]NoUseAfterClose` | `ClosedInv` on top of `Exclusive`: Close waits for the mutex, and every later holder sees the cancelled context |
| `SerialTypeCorrect` | `[]TypeOK` (SerialTransport) | `StreamInv`: what is on the wire and in the air is the end of the radio's frames, in order; `TypeInv` |
| `ReadersStayInStep` | `[]InStep` | `StepInv`: what a reader has parsed is the beginning of a frame it may deliver, or of one that was cut short (`Parsing`), and between two frames the next byte begins one (`Between`) |
| `BleTypeCorrect` | `[]TypeOK` (BleTransport) | `TypeInv`: with what the poller carries |
| `TheNewestIsKept` | `[]NewestKept` | `Ordered`: received, queued, carried and still at the radio are one increasing sequence; `Kept`: the newest packet leaves the poller's hand only for the channel, and a receiver takes it from there |
| `ClosePanicsInFlightOnly` | `[]PanicOnlyInFlight` | `CloseInv`: after Close has set `closed`, the check lets no packet through |

The theorems about ConfigTransfer share `FlowInv`, which says which command can
be where and that nothing is written before the end; those about an agent's process
and gauges share `ProcessInv`, because gauges depend on a configuration that does not
change any more once the agent runs (`UpKeepsConfig`). The assumptions are
`SectionsAssumption`, `OptionsAssumption`, `TransferAssumption`,
`AgentAssumption`, `AgentConfigAssumption`, `NodeMetricsAssumption`,
`ExchangeAssumption`, `SessionAssumption`, `SerialAssumption` and `BleAssumption`; TLC
evaluates each of them in the runs of its module.

Three theorems have a hypothesis of their own, and one is a statement about operators alone. `CleanSessionsApply` needs three passes
and two reads of a look: `maxApplyPasses` is 10 and `maxReadAttempts` 5.
`BatchIsPersistedWhole` needs a channel row, since without one
`isRereadInconclusive` takes every re-read for a sparse one, and a pass may then begin
before the commit's reboot; every radio has a primary channel. `EditsKeepSecrets` needs an operator who
types no placeholder. `ACompletePassConverges` is about a goal that a device can report
(`OfDevice`): without owner, position and nulls, and with each row in its own slot.
Three properties name in themselves what they do not cover: `TimedEmissions` leaves out the
kinds with `on_first_seen` (`agent_first_seen` shows why), `InStep` speaks of `Clean`
streams, and `DoneMeansHeld` asks nothing of a device that staged settings could
feign.

The proofs changed what was checked. `PersistsWholeBatch` had to except a commit that
aborts when the re-read fails as well (see Divergences): it takes three faults to see,
and the run has two. The invariant behind `InStep` needs to know where in its frame a
byte stood, so a byte carries its `place`. The one behind `GaugesTrue` showed that an
agent that was asked to stop while it read the device must not publish yet
(`StartsAgent`).

Only model-checked: what is temporal under fairness (`Terminates`, `RunEnds`, `Served`,
`PollerServes`), which TLAPS cannot prove. Every other property that a run checks and
the code satisfies is a theorem.

## Divergences

Three have a run (see `findings` in `PROJECT.json`):

- A link drop under an open transaction lets a later pass read staged RAM and
  report success with nothing saved (`device_config_apply.go:221`).
- `first` is inverted (`agent.go:306`): with `on_first_seen`, every pass after the
  first emits again at once.
- The reader may take the config-complete frame, and the poll then waits for ever
  (`agent.go:202`).

Others, seen while modelling and without a run:

- `get --to x.yaml` writes a tree unless `--output` says otherwise
  (`device_config_get.go:110-124`), although its help (lines 28-29) gives that as the way
  to export a YAML file; and it takes `--to` as a path as it stands, so `file:x.yaml`
  names a file with a colon. `copy --to x.json` writes YAML, the default of `--output`
  (`device_config_copy.go:204`), although the comment at lines 154-156 says that the
  format is inferred from the extension. Neither reads back (`Mismatched`).
- A short write of a YAML file leaves a text that may parse as a payload with fewer
  sections, and the next command takes it for the whole (`FillPart`).
- An agent whose broker never answers waits in `AwaitConnection` without a limit
  (`mqtt.go:62`), before the reader runs that would notice a lost link (`agent.go:109`).
- A read error in `errCh` and a done context may be ready at once; `select` may take
  the context, and a lost link then ends in exit code 0 (`agent.go:124-141`).
- Closing a BLE transport may panic the process: a packet past the check of `closed` is
  sent on the closed channel (`ble_transport.go:169-186`). An agent or doctor may thus end
  with a panic on its way out.
- A lost BLE link is never reported to a receiver: `pullPackets` drops the read
  error (`ble_transport.go:164`), so `ReceiveFromRadio` waits for its own context.
  `device_config_apply.go:390-392` says that awaitReboot reads the transport until
  the link drops; over BLE only the window ends it, and the agent's reader
  (`agent.go:179-188`) never learns that its radio is gone.
- A commit whose flash write aborts and whose re-read fails leaves its reboot pending;
  the next pass opens a transaction over it and loses it to the reboot, and if the
  link survives, sends its remaining sections one by one, each saved at once
  (`device_config_apply.go:231-241`), where `docs/configure.md:217` says that the commit persists
  everything at once (`PersistsWholeBatch` excepts it).
- A rejection that comes after the three seconds of its packet's wait is dropped:
  nobody looks for it any more (`admin.go:479-506`, `Blame`). The probe may take a
  neighbour for the radio, as its comment admits (`admin.go:190`), and every
  write then goes there.
- `enabled: false` without an interval is switched on by the cadence defaults, and
  `on_first_seen: false` never holds for nodeinfo (`config.go:217-228`), although
  `agent_config.go:13` says that typed flags win.
- A negative `nodedb_poll` passes `Validate` and makes `NewTicker` panic
  (`agent.go:118`).
- A signal that meets the start of an agent is reported as an error with exit code
  1, although `shutdown.go:5` says a cancelled run is no error; one that comes while the
  configuration is loaded never reaches the agent (`run.go:23` starts from
  `context.Background()`); `doctor` ignores the first signal; and a second signal
  before `root.go:47` has run is lost.
- Every refresh stamps each row it re-reads as updated now, so a node that went
  quiet never looks stale (`metrics/collector.go:17`, `docs/metrics.md:129-141`); the
  refresher that republishes may overwrite the gauge of a newer row
  (`agent.go:400-415`); `docs/metrics.md:87` says telemetry overwrites NodeDB values,
  but they are separate series.
- A success after a pass with drift prints the drift count of that earlier pass
  (`device_config_apply.go:164-172`), where `admin.go:34-36` calls zero the happy
  case.
- The region check is skipped when the first read lost the lora frame, or when
  `--exclude lora.region` removed the region, although `docs/configure.md:219`
  says region changes require the flag.
- `set`'s help (`device_config_set.go:35-37`) says the firmware reboots at most
  once; priming, forced reboots and resumed passes each add one.
- The stall diagnosis blames the firmware for `owner` and `fixed_position`, which
  Apply never sends (`device_config_apply.go:187`).
- `edit --dry-run` writes a file source back (`device_config_edit.go:177-182`), although
  the flag's help (`device_config_edit.go:251`) says "never write back".
- A load that migrates the legacy file while a logout runs may save the session
  after the logout has removed both files and said "Logged out" (`session/store.go:66-76`,
  `auth_login.go:75`); hence `solo` in `LastWordHolds`. A load during a save may find the file
  empty and report a parse error, and one during a migration may find neither
  file and report "not logged in". A logout ignores a failure to remove the
  legacy file, which the next load brings back (`session/store.go:124-127`).
- `set --to cloud:mine/...` uploads whatever `--dry-run` says; only copy looks at it
  for the cloud (`device_config_set.go:89-96`).
- `--section` keeps `owner` and `fixed_position` always and cannot name them
  (`canonical.go:104-144`); Apply sends neither, so a payload that holds an owner
  can be copied to a device in part only, and the command ends with a stall.
- `--exclude` with a path into a channel, the owner or the position, as the
  rendered diff prints them, matches nothing and is silently ignored
  (`canonical.go:150`); `--exclude lora.region` sends the rest of lora, which
  the firmware takes as a whole message with no region.
- edit resolves the label once for the PATCH and once for the read
  (`device_config_edit.go:108`, `device_config.go:154`): a rename in between sends
  the payload of one row to another.
- promote publishes the row as it is when the request arrives, filtered by
  name; values edited in the preview are dropped (`device_config_promote.go:229`).
- Emptiness is checked before the filters (`device_config_copy.go:110-118`), so a
  copy whose filters leave nothing writes an empty payload.
- The comment on OwnerEither (`apiclient/device_configs.go:231-234`) says personal rows
  come first; the code resolves templates only. ResolveDeviceConfigID speaks of
  paginating and reads one page.
- Unchanged rows are emitted again at each interval, although
  `docs/configure.md:138` speaks of content-hash diffing; `--reset-cadence` resets
  a map that is empty on every start.
- Sweeps swallow mesh packets, although `docs/metrics.md:145` says metrics leave
  forwarding unchanged.
- A noise byte 0x94 directly before a frame hides it: `readFrame` reads the
  frame's own START1 as a failed second byte and does not look at it again
  (`serial.go:83-88`). Noise that spells 0x94 0xc3 starts a frame of any length, and
  frames behind it may be lost or mixed.
- A packet may be evicted from the BLE channel although a receiver has made room
  since it was found full (`ble_transport.go:175-186`).
- When the reader's error ends the run, the deferred close runs without a
  cancelled context, so a sweep of the metrics refresher that waits for the mutex
  may use the nil port (`NoUseAfterClose` covers only a Close after a
  cancellation).

## Not modelled

Formatting, colours, completion, cobra wiring, operating-system scanning, AES and
protobuf decoding: they have no state of their own, and their correctness is
about bytes. The firmware and the broker appear only as far as the host relies on
them. The HTTP server that reads the gauges, and the message list and live stream of
the cloud, are left out.

## Plan

In order of importance; what exists is marked.

1. `ApplySession`, `ApplyContract` with their proofs: done.
2. `Agent` with its proofs: done.
3. `SerialTransport`, `BleTransport` with their proofs: done.
4. `PayloadAlgebra`, `ConfigTransfer` with their proofs: done. Next: field-level
   diffs (`walkJSON`, `FieldChanges`) against a reference definition; an abstract
   specification (the target holds its old content or the chosen part of the
   source) as a refinement.
5. The BLE scan's merge of advertisements (`ble_discover.go`).
6. `SessionStore` with its proofs: done. Next: the overlap of a migration and a logout as
   a run of its own, and a refinement of an atomic register for commands that
   do not overlap.
7. `AgentConfig`, `AgentProcess`, `NodeMetrics` with their proofs: done. Next: `CloudReads`,
   the message list and the live stream with their cursors.
   `AdminExchange` with its proofs: done. Next: that it implements the packet that
   arrives or is lost in `ApplySession`.
8. Proofs: that the agent's transport, a FIFO, is what the serial and the
   BLE transport provide.
