---------------------------- MODULE ConfigTransfer ----------------------------
(* The commands that move a saved configuration: `rmesh device config` copy,  *)
(* set, get, edit, promote and delete (cmd/rmesh/cmd/device_config_*.go), with *)
(* the file, the device and the cloud rows they work on, and everyone else who *)
(* works on those meanwhile.                                                   *)
(*                                                                            *)
(* One action is one stretch of a command between two waits: for a request to *)
(* the cloud, for the device, for the editor or for the operator's answer.    *)
(* Applying to a device is ApplySession; here it is one step with the outcomes *)
(* that loop can have, the lost transaction and the lone priming included.     *)
(* Every region change is allowed (--allow-region-change).                     *)
EXTENDS PayloadAlgebra

CONSTANTS
    Commands,       \* the command lines that may be run
    Ids,            \* cloud row ids, in the order the lists return them
    Worlds,         \* what device, file and cloud may hold at first
    Files,          \* what somebody may save in a file
    Labels,         \* the labels a row may get
    Contents,       \* payloads that others write
    Typed,          \* what an operator may type over a buffer
    SafeSections,   \* templateSafeSectionsCLI and the server's own default
    NoCommand,
    MaxCommands,    \* commands run one after the other
    MaxOutside      \* bound on what others do

NoRow   == [owner |-> "nobody", label |-> "", payload |-> NoSections]
NoWrite == [place |-> "nowhere", id |-> {}, payload |-> NoSections]
Rows    == [owner : {"mine", "template"}, label : Labels, payload : Contents]

(* A file has the extension that its path ends in, the format of its text, and  *)
(* the payload written there; one that was truncated and not filled is "torn".  *)
Forms == {"yaml", "json", "tree", "torn"}
IsFile(f) ==
    /\ f = [ext |-> f.ext, form |-> f.form, payload |-> f.payload]
    /\ f.ext \in {"yaml", "json", "none"} /\ f.form \in Forms
    /\ DOMAIN f.payload \subseteq Sections

(* The slot of a row is its index; protojson leaves out an index of 0. *)
Slot(row) == IF "index" \in DOMAIN row THEN row.index ELSE 0

(* ToCanonicalPayload finds neither owner nor position, and no null, and a      *)
(* radio reports each row from its own slot.                                   *)
OfDevice(p) ==
    /\ DOMAIN p \cap Personal = {}
    /\ \A s \in DOMAIN p : p[s] # Null /\ (s \in Channels => Slot(p[s]) = s[2])

ASSUME TransferAssumption ==
    /\ Ids \subseteq Nat
    /\ MaxCommands \in Nat /\ MaxOutside \in Nat
    /\ SafeSections \cap Personal = {}
    /\ \A p \in Contents \cup Typed : DOMAIN p \subseteq Sections
    /\ NoCommand \notin Commands
    /\ \A f \in Files : IsFile(f)
    /\ \A w \in Worlds :
        w.device \in Contents /\ OfDevice(w.device) /\ IsFile(w.file) /\ w.rows \in [Ids -> Rows \cup {NoRow}]
    /\ \A c \in Commands :
        /\ DOMAIN c = {"verb", "from", "to", "sections", "exclude", "dryRun", "reveal", "edit", "all", "output"}
        /\ c.verb \in {"copy", "set", "get", "edit", "promote", "delete"}
        /\ c.verb \in {"copy", "set", "get"} => ValidSections(c.sections)
        /\ c.output \in {"yaml", "json", "tree"}
        /\ c.verb = "promote" => c.from.kind = "mine"
        /\ c.verb = "delete" => c.from.kind \in {"mine", "template"}
        /\ c.verb = "set" => c.to.kind # "file"
        /\ c.verb = "get" => c.to.kind = "file"

VARIABLES
    device, file,   \* what the radio and the file hold
    rows,           \* the cloud: id -> [owner, label, payload] or NoRow
    elevated,       \* the operator's role on the network
    cmd, pc,        \* the command line and where its handler is
    cfgID,          \* the id resolved for writing, or none
    buffer,         \* payload, then filtered or edited
    include,        \* includeSections
    verdict,        \* what the command told the operator
    readFrom, origin,   \* the row read, and what the source really held then
    bearers,        \* rows that have borne the command's label since it began
    outside,        \* what others have changed since it began
    wrote,          \* the write it did
    ran, meddled    \* counted against MaxCommands and MaxOutside

world == <<device, file, rows>>
history == <<readFrom, origin, bearers, outside, wrote, ran, meddled>>
vars == <<device, file, rows, elevated, cmd, pc, cfgID, buffer, include, verdict,
          readFrom, origin, bearers, outside, wrote, ran, meddled>>

------------------------------------------------------------------------------
(* The cloud, external: two namespaces of labelled rows. *)

Bears(i, src) ==
    rows[i] # NoRow /\ rows[i].owner = src.kind /\ rows[i].label = src.label

(* ResolveDeviceConfigID takes the first row of the list with the label. A bare *)
(* cloud:<network>/<label> is a template, never a personal row.                *)
Matches(src) == {i \in Ids : Bears(i, src)}
First(ids) == CHOOSE i \in ids : \A j \in ids : i <= j

InCloud(src) == src.kind \in {"mine", "template"}

(* The personal library is always readable in the clear, a template only by an *)
(* elevated caller who asks for it.                                            *)
Shown(i, src, reveal) ==
    IF src.kind = "mine" \/ (reveal /\ elevated) THEN rows[i].payload
    ELSE Redact(rows[i].payload)

(* PATCH and DELETE go by owner and role. *)
MayChange(i, src) ==
    rows[i] # NoRow /\ rows[i].owner = src.kind /\ (src.kind = "mine" \/ elevated)

------------------------------------------------------------------------------
Init ==
    /\ \E w \in Worlds : device = w.device /\ file = w.file /\ rows = w.rows
    /\ elevated \in BOOLEAN
    /\ cmd = NoCommand /\ pc = "idle" /\ cfgID = {} /\ buffer = NoSections /\ include = {}
    /\ verdict = "none" /\ readFrom = {} /\ origin = NoSections /\ bearers = {}
    /\ outside = {} /\ wrote = NoWrite /\ ran = 0 /\ meddled = 0

NeedsID(c) == c.verb \in {"promote", "delete"} \/ (c.verb = "edit" /\ InCloud(c.from))

Start(c) ==
    /\ pc = "idle" /\ ran < MaxCommands
    /\ ran' = ran + 1
    /\ cmd' = c
    /\ pc' = IF NeedsID(c) THEN "resolve" ELSE "read"
    /\ bearers' = IF InCloud(c.from) THEN Matches(c.from) ELSE {}
    /\ cfgID' = {} /\ buffer' = NoSections /\ include' = {} /\ verdict' = "none"
    /\ readFrom' = {} /\ origin' = NoSections /\ outside' = {} /\ wrote' = NoWrite
    /\ UNCHANGED <<world, elevated, meddled>>

End(v) == pc' = "idle" /\ verdict' = v

(* Any request, open, read, parse or editor may fail, the operator may decline, *)
(* and the process may be killed.                                              *)
GiveUp ==
    /\ pc # "idle"
    /\ End("failed")
    /\ UNCHANGED <<world, elevated, cmd, cfgID, buffer, include, history>>

(* The sections promote starts from. *)
Bug_SeedAll(c, p) == IF c.sections # {} THEN c.sections ELSE AllPresentSections(p)
Seed(c, p) ==
    IF c.all THEN AllPresentSections(p)
    ELSE IF c.sections # {} THEN c.sections ELSE SafeSections

Resolve ==
    /\ pc = "resolve"
    /\ Matches(cmd.from) # {}
    /\ cfgID' = {First(Matches(cmd.from))}
    /\ pc' = IF cmd.verb = "delete" THEN "confirm"
             ELSE IF cmd.verb = "edit" \/ cmd.edit \/ cmd.all THEN "read" ELSE "write"
    /\ include' = cmd.sections
    /\ UNCHANGED <<world, elevated, cmd, buffer, verdict, history>>

Confirm ==
    /\ pc = "confirm"
    /\ pc' = "write"
    /\ UNCHANGED <<world, elevated, cmd, cfgID, buffer, include, verdict, history>>

------------------------------------------------------------------------------
(* readPayloadFromSource: what is read, from which row, and what was there.    *)
(* A sweep of the device may lose a section, and the rows are listed as they    *)
(* arrive: those behind a lost one move up.                                    *)
Got(p, id, really) == [payload |-> p, row |-> id, really |-> really]

Views(p) == {p} \cup {Without(p, s) : s \in DOMAIN p}

DeviceReads == {Got(view, {}, device) : view \in Views(device)}

(* The extension chooses the parser, and without one the first character: an   *)
(* empty text goes to JSON. JSON is YAML too, an empty YAML text is an empty    *)
(* payload, and a tree is neither.                                             *)
Parser(f) ==
    IF f.ext # "none" THEN f.ext
    ELSE IF f.form \in {"json", "torn"} THEN "json" ELSE "yaml"

Parses(f) ==
    IF Parser(f) = "yaml" THEN f.form \in {"yaml", "json", "torn"} ELSE f.form = "json"

FileReads == {Got(f.payload, {}, f.payload) : f \in {g \in {file} : Parses(g)}}

Bug_ReadsAnyOwner(src, reveal) ==
    LET ids == {i \in Ids : rows[i] # NoRow /\ rows[i].label = src.label}
    IN  IF ids = {} THEN {}
        ELSE {Got(Shown(First(ids), src, reveal), {First(ids)}, rows[First(ids)].payload)}
CloudReads(src, reveal) ==
    IF Matches(src) = {} THEN {}
    ELSE LET i == First(Matches(src)) IN {Got(Shown(i, src, reveal), {i}, rows[i].payload)}

(* Every verb but get reveals. *)
Bug_Reveals == cmd.reveal
Reveals == cmd.verb # "get" \/ cmd.reveal

Reads ==
    CASE cmd.from.kind = "device" -> DeviceReads
      [] cmd.from.kind = "file"   -> FileReads
      [] OTHER                    -> CloudReads(cmd.from, Reveals)

Receive(r) ==
    /\ readFrom' = r.row /\ origin' = r.really
    /\ UNCHANGED <<world, elevated, cmd, cfgID, bearers, outside, wrote, ran, meddled>>

(* The sections and exclusions are applied after the check for emptiness. *)
Bug_FilterEither(p) ==
    IF cmd.sections # {} THEN CloneSections(p, cmd.sections) ELSE ExcludeFields(p, cmd.exclude)
Filter(p) == ExcludeFields(CloneSections(p, cmd.sections), cmd.exclude)

ReadToCopy ==
    /\ pc = "read" /\ cmd.verb \in {"copy", "set"}
    /\ \E r \in Reads :
        /\ Receive(r)
        /\ IF IsEmpty(r.payload) THEN End("failed") /\ UNCHANGED buffer
           ELSE buffer' = Filter(r.payload) /\ pc' = "write" /\ UNCHANGED verdict
    /\ UNCHANGED include

ReadToShow ==
    /\ pc = "read" /\ cmd.verb = "get"
    /\ \E r \in Reads :
        /\ Receive(r)
        /\ buffer' = CloneSections(IF Reveals \/ InCloud(cmd.from) THEN r.payload ELSE Redact(r.payload),
                                   cmd.sections)
    /\ pc' = "write"
    /\ UNCHANGED <<include, verdict>>

ReadToEdit ==
    /\ pc = "read" /\ cmd.verb = "edit"
    /\ \E r \in Reads : Receive(r) /\ buffer' = r.payload
    /\ pc' = "editor"
    /\ UNCHANGED <<include, verdict>>

(* The row is read only for a preview or to expand --all-sections. *)
ReadToPromote ==
    /\ pc = "read" /\ cmd.verb = "promote"
    /\ \E r \in Reads :
        /\ Receive(r)
        /\ include' = Seed(cmd, r.payload)
        /\ buffer' = FilterPromoteSections(r.payload, Seed(cmd, r.payload))
    /\ pc' = IF cmd.edit THEN "editor" ELSE "write"
    /\ UNCHANGED verdict

------------------------------------------------------------------------------
(* The editor: the operator deletes a section or types over the buffer. *)
Edits ==
    {buffer} \cup {Without(buffer, s) : s \in DOMAIN buffer}
             \cup {Overlay(buffer, t) : t \in Typed}

SaveEdit ==
    /\ pc = "editor" /\ cmd.verb = "edit"
    /\ \E e \in Edits :
        IF e = buffer THEN End("unchanged") /\ UNCHANGED buffer
        ELSE IF IsEmpty(e) THEN End("failed") /\ UNCHANGED buffer
        ELSE buffer' = e /\ pc' = "write" /\ UNCHANGED verdict
    /\ UNCHANGED <<world, elevated, cmd, cfgID, include, history>>

(* Promote takes the names of the sections that are left; an untouched buffer  *)
(* stands for the sections it was made from, whether they were present or not. *)
SavePreview ==
    /\ pc = "editor" /\ cmd.verb = "promote"
    /\ \E e \in Edits :
        /\ buffer' = e
        /\ include' = IF e = buffer THEN include ELSE AllPresentSections(e)
        /\ IF include' = {} THEN End("failed") ELSE pc' = "write" /\ UNCHANGED verdict
    /\ UNCHANGED <<world, elevated, cmd, cfgID, history>>

------------------------------------------------------------------------------
(* Writing. *)

Target == IF cmd.verb = "edit" THEN cmd.from ELSE cmd.to

(* edit does not look at --dry-run for a file, nor set for the cloud. *)
Previews ==
    /\ cmd.dryRun
    /\ ~(cmd.verb = "edit" /\ Target.kind = "file")
    /\ ~(cmd.verb = "set" /\ InCloud(Target))

Preview ==
    /\ pc = "write" /\ cmd.verb \in {"copy", "set", "edit"} /\ Previews
    /\ End("preview")
    /\ UNCHANGED <<world, elevated, cmd, cfgID, buffer, include, history>>

Writing(verbs) == pc = "write" /\ cmd.verb \in verbs /\ ~Previews

Put(place, id, p) ==
    /\ wrote' = [place |-> place, id |-> id, payload |-> p]
    /\ UNCHANGED <<elevated, cmd, cfgID, buffer, include, readFrom, origin, bearers, outside, ran, meddled>>

(* os.Create truncates, Render fills. GiveUp in between leaves a torn file. *)
TruncateFile ==
    /\ Writing({"copy", "get", "edit"}) /\ Target.kind = "file"
    /\ file' = [file EXCEPT !.form = "torn", !.payload = NoSections]
    /\ pc' = "filling"
    /\ UNCHANGED <<device, rows, elevated, cmd, cfgID, buffer, include, verdict, history>>

(* edit writes what the extension names, JSON where there is none; get and copy *)
(* write what --output says, whatever the extension.                           *)
Bug_AlwaysYaml == IF cmd.verb = "edit" THEN "yaml" ELSE cmd.output
Form ==
    IF cmd.verb # "edit" THEN cmd.output
    ELSE IF file.ext = "yaml" THEN "yaml" ELSE "json"

FillFile ==
    /\ pc = "filling"
    /\ file' = [file EXCEPT !.form = Form, !.payload = buffer]
    /\ Put("file", {}, buffer)
    /\ End("done")
    /\ UNCHANGED <<device, rows>>

(* A write cut short: what is there of a YAML text may parse as fewer sections. *)
FillPart ==
    /\ pc = "filling" /\ Form = "yaml"
    /\ \E part \in SUBSET DOMAIN buffer :
        /\ \A s, t \in DOMAIN buffer \cap Channels : t \in part /\ s[2] < t[2] => s \in part
        /\ file' = [file EXCEPT !.form = "yaml", !.payload = Restrict(buffer, part)]
    /\ End("failed")
    /\ UNCHANGED <<device, rows, elevated, cmd, cfgID, buffer, include, history>>

(* What Apply sends: no owner and no position, and no null, which it refuses to *)
(* parse. A row behind the first that has no index gets its place as one.       *)
Bug_SendsOwner(p) == Restrict(p, {s \in DOMAIN p : p[s] # Null})
Sendable(p) == Restrict(p, {s \in DOMAIN p : s \notin Personal /\ p[s] # Null})

Numbered(s, json) ==
    IF s \notin Channels \/ "index" \in DOMAIN json \/ s[2] = 0 THEN json
    ELSE Overlay(json, [index |-> s[2]])

Lands(p, s) == IF s \in Channels THEN <<"channels", Slot(Numbered(s, p[s]))>> ELSE s

(* What the device takes of p, a row in the slot of its index (if two rows have *)
(* the same index, one of them).                                               *)
Sent(p) ==
    LET q == Sendable(p)
        from(t) == CHOOSE s \in DOMAIN q : Lands(q, s) = t
    IN  [t \in {Lands(q, s) : s \in DOMAIN q} \cap Sections |-> Numbered(from(t), q[from(t)])]

(* What the sections land on: a change of region is sent first, in the lora     *)
(* section that the device has.                                                *)
Lora == <<"config", "lora">>
HasRegion(p) == Lora \in DOMAIN p /\ p[Lora] # Null /\ "region" \in DOMAIN p[Lora]
RegionCrossing(current, intended) ==
    HasRegion(current) /\ HasRegion(intended) /\ current[Lora].region # intended[Lora].region
Bases(current, intended) ==
    IF ~RegionCrossing(current, intended) THEN {current} ELSE
    {current, [current EXCEPT ![Lora] = Overlay(@, [region |-> intended[Lora].region, use_preset |-> TRUE])]}

(* Whatever agrees is not sent, and sending it would change nothing. Success is *)
(* that a read showed the payload; that may have been staged settings, lost     *)
(* since, and a failure may come at any point.                                 *)
ApplyToDevice ==
    /\ Writing({"copy", "set", "edit"}) /\ Target.kind = "device"
    /\ \E base \in Bases(device, buffer), part \in SUBSET DOMAIN Sent(buffer) :
        device' = Overlay(base, Restrict(Sent(buffer), part))
    /\ \/ /\ \E view \in Views(Overlay(device, Sent(buffer))) :
                Diff(ProjectOnto(view, buffer), buffer) = {}
          /\ End("done")
       \/ End("failed")
    /\ Put("device", {}, buffer)
    /\ UNCHANGED <<file, rows>>

(* A request that the server carried out may still lose its reply. *)
Answered == \E v \in {"done", "failed"} : End(v)

(* uploadToCloud: only into the personal library, always as a new row. *)
Upload ==
    /\ Writing({"copy", "set"}) /\ Target.kind = "mine"
    /\ \E i \in Ids :
        /\ rows[i] = NoRow
        /\ rows' = [rows EXCEPT ![i] = [owner |-> "mine", label |-> Target.label, payload |-> buffer]]
        /\ Put("new", {i}, buffer)
    /\ Answered
    /\ UNCHANGED <<device, file>>

Patch ==
    /\ Writing({"edit"}) /\ InCloud(Target)
    /\ \E i \in cfgID :
        /\ MayChange(i, cmd.from)
        /\ rows' = [rows EXCEPT ![i].payload = buffer]
        /\ Put("row", {i}, buffer)
    /\ Answered
    /\ UNCHANGED <<device, file>>

Delete ==
    /\ Writing({"delete"})
    /\ \E i \in cfgID :
        /\ MayChange(i, cmd.from)
        /\ rows' = [rows EXCEPT ![i] = NoRow]
        /\ Put("gone", {i}, NoSections)
    /\ Answered
    /\ UNCHANGED <<device, file>>

(* PromoteDeviceConfig sends names; the server filters the row as it is then,  *)
(* and takes its own default for an empty list.                                *)
Promote ==
    /\ Writing({"promote"})
    /\ \E i \in cfgID, n \in Ids :
        /\ MayChange(i, cmd.from) /\ elevated /\ rows[n] = NoRow
        /\ LET names == IF include = {} THEN SafeSections ELSE include
               staged == FilterPromoteSections(rows[i].payload, names)
           IN  /\ rows' = [rows EXCEPT ![n] = [owner |-> "template", label |-> cmd.to.label, payload |-> staged]]
               /\ Put("new", {n}, staged)
    /\ Answered
    /\ UNCHANGED <<device, file>>

------------------------------------------------------------------------------
(* Others: another operator, the web interface, an editor on the same file. The *)
(* world before the first command is any, and after the last nobody looks.     *)

Meddle(what) ==
    /\ meddled < MaxOutside /\ (pc = "idle" => 0 < ran /\ ran < MaxCommands)
    /\ meddled' = meddled + 1
    /\ outside' = outside \cup {what}
    /\ UNCHANGED <<elevated, cmd, pc, cfgID, buffer, include, verdict, readFrom, origin, wrote, ran>>

Relabel(i, l) ==
    /\ rows[i] # NoRow
    /\ rows' = [rows EXCEPT ![i].label = l]
    /\ bearers' = IF cmd # NoCommand /\ rows[i].owner = cmd.from.kind /\ l = cmd.from.label
                  THEN bearers \cup {i} ELSE bearers
    /\ UNCHANGED <<device, file>>
    /\ Meddle("names")

Rewrite(i, p) ==
    /\ rows[i] # NoRow
    /\ rows' = [rows EXCEPT ![i].payload = p]
    /\ UNCHANGED <<device, file, bearers>>
    /\ Meddle("contents")

(* A new row comes last in the lists; ids are not used again while a command   *)
(* runs.                                                                       *)
Create(i, r) ==
    /\ \A j \in Ids : rows[j] # NoRow => j < i
    /\ rows' = [rows EXCEPT ![i] = r]
    /\ bearers' = IF cmd # NoCommand /\ r.owner = cmd.from.kind /\ r.label = cmd.from.label
                  THEN bearers \cup {i} ELSE bearers
    /\ UNCHANGED <<device, file>>
    /\ Meddle("names")

Remove(i) ==
    /\ rows[i] # NoRow
    /\ rows' = [rows EXCEPT ![i] = NoRow]
    /\ UNCHANGED <<device, file, bearers>>
    /\ Meddle("names")

ChangeFile(f) ==
    /\ f.ext = file.ext
    /\ file' = f
    /\ UNCHANGED <<device, rows, bearers>>
    /\ Meddle("contents")

ChangeDevice(p) ==
    /\ OfDevice(p)
    /\ device' = p
    /\ UNCHANGED <<file, rows, bearers>>
    /\ Meddle("contents")

Others ==
    \/ \E i \in Ids, l \in Labels : Relabel(i, l)
    \/ \E i \in Ids, p \in Contents : Rewrite(i, p)
    \/ \E i \in Ids, r \in Rows : Create(i, r)
    \/ \E i \in Ids : Remove(i)
    \/ \E f \in Files : ChangeFile(f)
    \/ \E p \in Contents : ChangeDevice(p)

Next ==
    \/ \E c \in Commands : Start(c)
    \/ Resolve \/ Confirm
    \/ ReadToCopy \/ ReadToShow \/ ReadToEdit \/ ReadToPromote
    \/ SaveEdit \/ SavePreview
    \/ Preview \/ TruncateFile \/ FillFile \/ FillPart \/ ApplyToDevice
    \/ Upload \/ Patch \/ Delete \/ Promote
    \/ GiveUp
    \/ Others

Spec == Init /\ [][Next]_vars

------------------------------------------------------------------------------
(* Properties. *)

Places == {"file", "device", "row", "new", "gone"}

(* The variables have their types: verdicts, places in the handler, ids and    *)
(* the sections of payloads.                                                   *)
TypeOK ==
    /\ pc \in {"idle", "resolve", "read", "confirm", "editor", "write", "filling"}
    /\ verdict \in {"none", "failed", "unchanged", "preview", "done"}
    /\ cfgID \subseteq Ids /\ Cardinality(cfgID) <= 1 /\ bearers \subseteq Ids /\ readFrom \subseteq Ids
    /\ cmd \in Commands \cup {NoCommand} /\ elevated \in BOOLEAN
    /\ outside \subseteq {"names", "contents"}
    /\ DOMAIN buffer \subseteq Sections /\ DOMAIN device \subseteq Sections \ Personal
    /\ IsFile(file)
    /\ wrote = NoWrite \/ (wrote.place \in Places /\ wrote.id \subseteq Ids)
    /\ \A i \in Ids : rows[i] = NoRow \/ DOMAIN rows[i].payload \subseteq Sections

Wrote(verbs) == wrote # NoWrite /\ cmd.verb \in verbs

(* edit and delete change only a row that bore the given label, in the given   *)
(* namespace, while the command ran; and unless a label was moved meanwhile,    *)
(* the payload an edit sends back is of the row that was read (edit resolves    *)
(* the label twice, device_config_edit.go:108 and device_config.go:154).       *)
RightRow ==
    Wrote({"edit", "delete"}) /\ wrote.place \in {"row", "gone"} =>
        /\ wrote.id \subseteq bearers
        /\ cmd.verb = "edit" /\ "names" \notin outside => wrote.id = readFrom

(* An edit writes no placeholder where its source had none, in that section or, *)
(* for a row of the channels, in one of the rows: it reads with secrets         *)
(* revealed, and where the role does not reach for that it does not reach for   *)
(* the write either (device_config_edit.go:124-128).                            *)
Hidden(p, s, f) == s \in DOMAIN p /\ p[s] # Null /\ f \in DOMAIN p[s] /\ p[s][f] = Placeholder

SecretsSurviveEdits ==
    Wrote({"edit"}) =>
        \A s \in DOMAIN wrote.payload : \A f \in SecretFields(s) :
            Hidden(wrote.payload, s, f) =>
                \E t \in DOMAIN origin : Listed(t) = Listed(s) /\ Hidden(origin, t, f)

(* What copy and set transfer was chosen: its section named, or none named, or *)
(* one that --section cannot name; not excluded; and without excluded fields    *)
(* (canonical.go:108-192).                                                     *)
Chosen(s) ==
    /\ cmd.sections = {} \/ s \in Personal \/ Key(s) \in cmd.sections
    /\ [head |-> Key(s), tail |-> ""] \notin cmd.exclude

FilterHonoured ==
    Wrote({"copy", "set"}) =>
        \A s \in DOMAIN wrote.payload :
            /\ s \in DOMAIN origin /\ Chosen(s)
            /\ wrote.payload[s] # Null =>
                \A f \in DOMAIN wrote.payload[s] :
                    s \in Channels \cup Personal \/ [head |-> Key(s), tail |-> f] \notin cmd.exclude

(* A section of the device, or a slot of its channels, changes only if the      *)
(* payload has something for it: of what was chosen of the source, and in an    *)
(* edit what the operator did change, provided that nobody else wrote to the    *)
(* device while the editor was open. Rows that a lost frame has moved still go  *)
(* to their own slots (device_config_apply.go:110, admin.go:318-345).          *)
DeviceChangesWereAsked ==
    [][wrote' # wrote /\ wrote' # NoWrite =>
        \A s \in Diff(device, device') :
            /\ s \in DOMAIN Sent(wrote'.payload)
            /\ cmd.verb \in {"copy", "set"} => Chosen(s)
            /\ cmd.verb = "edit" /\ "contents" \notin outside => s \in Diff(origin, Sent(wrote'.payload))]_vars

(* Sections outside the safe set are published only if a flag named them or the *)
(* operator typed them into the preview, which starts from the safe ones        *)
(* (device_config_promote.go:85-97, 163-176).                                  *)
UnsafeNeedsAsking ==
    Wrote({"promote"}) =>
        \A s \in DOMAIN wrote.payload :
            \/ Listed(s) \in SafeSections \cup cmd.sections \/ cmd.all
            \/ cmd.edit /\ \E t \in Typed : Listed(s) \in AllPresentSections(t) \cap AllPresentSections(buffer)

(* A command that reports success has written what it chose where it was told   *)
(* to, and until somebody else writes it is there: a row of the cloud has it;   *)
(* the file has it and gives it back when it is read, for edit always, for get   *)
(* and copy unless --output does not go with the extension; of a device it only *)
(* says that nothing had to stay unsent (what was shown may have been staged).   *)
(* One that reports nothing to do or a preview has written nothing              *)
(* (device_config_copy.go:134-169, file.go:55-84, device_config_apply.go:164).  *)
Mismatched == cmd.output = "tree" \/ (cmd.output = "yaml" /\ file.ext = "json")

Held(w) ==
    CASE w.place = "file"   -> file.payload = w.payload /\ (Parses(file) \/ (cmd.verb # "edit" /\ Mismatched))
      [] w.place = "device" -> \A s \in DOMAIN w.payload \cap Personal : w.payload[s] = Null
      [] w.place = "gone"   -> \A i \in w.id : rows[i] = NoRow
      [] OTHER              -> \A i \in w.id : rows[i] # NoRow /\ rows[i].payload = w.payload

DoneMeansHeld ==
    /\ verdict = "done" => wrote # NoWrite /\ (outside = {} => Held(wrote))
    /\ verdict \in {"unchanged", "preview"} => wrote = NoWrite
===============================================================================
