------------------------ MODULE ConfigTransfer_proofs ------------------------
(* What the transfer commands write, for every payload, filter, file, cloud   *)
(* and number of commands, and whatever others do meanwhile.                  *)
EXTENDS ConfigTransfer, TLAPS, FiniteSetTheorems, WellFoundedInduction

\* Which command can be where in its handler, and nothing written before its end.
FlowInv ==
    /\ pc = "resolve" => cmd.verb \in {"promote", "delete", "edit"}
    /\ pc = "confirm" => cmd.verb = "delete"
    /\ pc = "filling" => cmd.verb \in {"copy", "get"} \/ (cmd.verb = "edit" /\ cmd.from.kind = "file")
    /\ pc # "idle" => wrote = NoWrite

\* Each way a step can go, with what the invariants below have in common:
\* the command is only changed by Start, and only the last step writes.
LEMMA InitFlow == Init => FlowInv
  BY DEF Init, FlowInv

LEMMA NextFlow == FlowInv /\ [Next]_vars => FlowInv'
<1> SUFFICES ASSUME FlowInv, [Next]_vars PROVE FlowInv'
  OBVIOUS
<1> USE DEF FlowInv
<1>1. CASE UNCHANGED vars
  BY <1>1 DEF vars
<1>2. ASSUME NEW c \in Commands, Start(c) PROVE FlowInv'
  BY <1>2 DEF Start, NeedsID, InCloud
<1>3. CASE Resolve \/ Confirm
  BY <1>3 DEF Resolve, Confirm, history
<1>4. CASE ReadToCopy \/ ReadToShow \/ ReadToEdit \/ ReadToPromote
  BY <1>4 DEF ReadToCopy, ReadToShow, ReadToEdit, ReadToPromote, Receive, End
<1>5. CASE SaveEdit \/ SavePreview
  BY <1>5 DEF SaveEdit, SavePreview, End, history
<1>6. CASE Preview \/ TruncateFile \/ GiveUp \/ FillPart
  BY <1>6 DEF Preview, TruncateFile, Writing, Target, GiveUp, FillPart, End, history
<1>7. CASE FillFile \/ ApplyToDevice
  BY <1>7 DEF FillFile, ApplyToDevice, End, Put
<1>8. CASE Upload \/ Patch \/ Delete \/ Promote
  BY <1>8 DEF Upload, Patch, Delete, Promote, Answered, End, Put
<1>9. CASE Others
  BY <1>9 DEF Others, Relabel, Rewrite, Create, Remove, ChangeFile, ChangeDevice, Meddle
<1> QED
  BY <1>1, <1>2, <1>3, <1>4, <1>5, <1>6, <1>7, <1>8, <1>9 DEF Next

------------------------------------------------------------------------------
(* copy and set *)

\* A payload that holds only what was chosen of the source.
Filtered(p, source) ==
    \A s \in DOMAIN p :
        /\ s \in DOMAIN source /\ Chosen(s)
        /\ p[s] # Null =>
            \A f \in DOMAIN p[s] :
                s \in Channels \cup Personal \/ [head |-> Key(s), tail |-> f] \notin cmd.exclude

Copying == cmd.verb \in {"copy", "set"}

FilterInv ==
    /\ Copying /\ pc \in {"write", "filling"} => Filtered(buffer, origin)
    /\ Copying /\ wrote # NoWrite => Filtered(wrote.payload, origin)

\* A view of a payload has sections of it, and in each what the section holds, or
\* for a row of the channels another row.
LEMMA WithoutIsPart ==
  ASSUME NEW p, NEW d PROVE DOMAIN Without(p, d) \subseteq DOMAIN p
  BY DEF Without, Restrict

LEMMA WithoutHolds ==
  ASSUME NEW p, DOMAIN p \subseteq Sections, NEW d, NEW s \in DOMAIN Without(p, d)
  PROVE  \E t \in DOMAIN p : Without(p, d)[s] = p[t] /\ Listed(t) = Listed(s) /\ SecretFields(t) = SecretFields(s)
<1>1. CASE d \notin Channels
  BY <1>1 DEF Without, Restrict
<1>2. CASE d \in Channels
  <2> DEFINE from(t) == IF t \in Channels /\ t[2] >= d[2] THEN <<"channels", t[2] + 1>> ELSE t
  <2>1. /\ Without(p, d) = [t \in {u \in DOMAIN p : from(u) \in DOMAIN p} |-> p[from(t)]]
    BY <1>2 DEF Without
  <2>2. from(s) \in DOMAIN p /\ Without(p, d)[s] = p[from(s)]
    BY <2>1
  <2>3. CASE from(s) = s
    BY <2>2, <2>3
  <2>4. CASE s \in Channels /\ from(s) = <<"channels", s[2] + 1>>
    <3>1. from(s) \in Channels
      BY <2>2, <2>4 DEF Sections, Personal, Channels
    <3>2. Listed(from(s)) = Listed(s) /\ SecretFields(from(s)) = SecretFields(s)
      BY <2>4, <3>1 DEF Listed, SecretFields
    <3> QED
      BY <2>2, <3>2
  <2> QED
    BY <2>3, <2>4
<1> QED
  BY <1>1, <1>2

\* No source gives a section that it does not hold.
LEMMA ReadsOnlyWhatIsThere ==
  ASSUME NEW r \in Reads PROVE DOMAIN r.payload \subseteq DOMAIN r.really
<1>1. CASE cmd.from.kind = "device"
  <2>1. r \in DeviceReads
    BY <1>1 DEF Reads
  <2>2. PICK view \in Views(device) : r = Got(view, {}, device)
    BY <2>1 DEF DeviceReads
  <2>3. r.payload = view /\ r.really = device
    BY <2>2 DEF Got
  <2> QED
    BY <2>2, <2>3, WithoutIsPart DEF Views
<1>2. CASE cmd.from.kind # "device" /\ cmd.from.kind = "file"
  BY <1>2 DEF Reads, FileReads, Got
<1>3. CASE cmd.from.kind # "device" /\ cmd.from.kind # "file"
  <2>1. r \in CloudReads(cmd.from, Reveals)
    BY <1>3 DEF Reads
  <2>2. PICK i : r = Got(Shown(i, cmd.from, Reveals), {i}, rows[i].payload)
    BY <2>1 DEF CloudReads
  <2>3. r.payload = Shown(i, cmd.from, Reveals) /\ r.really = rows[i].payload
    BY <2>2 DEF Got
  <2>4. DOMAIN Redact(rows[i].payload) = DOMAIN rows[i].payload
    BY DEF Redact
  <2> QED
    BY <2>3, <2>4 DEF Shown
<1> QED
  BY <1>1, <1>2, <1>3

\* What is left after --section and --exclude satisfies both, to the field.
LEMMA FilterFilters ==
  ASSUME NEW p, NEW source, DOMAIN p \subseteq DOMAIN source
  PROVE  Filtered(Filter(p), source)
<1> DEFINE q == CloneSections(p, cmd.sections)
           kept == {s \in DOMAIN q : \A x \in cmd.exclude : ~Drops(x, s)}
           trimmed(s) == {x.tail : x \in {y \in cmd.exclude : Trims(y, s)}}
<1>1. Filter(p) = [s \in kept |-> RemoveFields(q[s], trimmed(s))]
  BY DEF Filter, ExcludeFields
<1>2. \A s \in DOMAIN q : s \in DOMAIN p /\ (cmd.sections = {} \/ s \in Personal \/ Key(s) \in cmd.sections)
  BY DEF CloneSections, Restrict
<1> SUFFICES ASSUME NEW s \in kept
             PROVE  /\ s \in DOMAIN source /\ Chosen(s)
                    /\ RemoveFields(q[s], trimmed(s)) # Null =>
                        \A f \in DOMAIN RemoveFields(q[s], trimmed(s)) :
                            s \in Channels \cup Personal \/ [head |-> Key(s), tail |-> f] \notin cmd.exclude
  BY <1>1 DEF Filtered
<1>3. [head |-> Key(s), tail |-> ""] \notin cmd.exclude
  BY DEF Drops
<1>4. s \in DOMAIN source /\ Chosen(s)
  BY <1>2, <1>3 DEF Chosen
<1>5. ASSUME RemoveFields(q[s], trimmed(s)) # Null, s \notin Channels \cup Personal,
             NEW f \in DOMAIN RemoveFields(q[s], trimmed(s)),
             [head |-> Key(s), tail |-> f] \in cmd.exclude
      PROVE FALSE
  <2>1. f \notin trimmed(s)
    BY <1>5 DEF RemoveFields, Restrict
  <2>2. f # ""
    BY <1>3, <1>5
  <2>3. Trims([head |-> Key(s), tail |-> f], s)
    BY <1>5, <2>2 DEF Trims
  <2>4. f \in trimmed(s)
    BY <1>5, <2>3
  <2> QED
    BY <2>1, <2>4
<1> QED
  BY <1>4, <1>5

LEMMA InitFilter == Init => FilterInv
  BY DEF Init, FilterInv

LEMMA NextFilter == FlowInv /\ FilterInv /\ [Next]_vars => FilterInv'
<1> SUFFICES ASSUME FlowInv, FilterInv, [Next]_vars PROVE FilterInv'
  OBVIOUS
<1> USE DEF FilterInv, Copying
<1>1. CASE UNCHANGED vars
  BY <1>1 DEF vars, Filtered, Chosen
<1>2. ASSUME NEW c \in Commands, Start(c) PROVE FilterInv'
  BY <1>2 DEF Start
<1>3. CASE Resolve \/ Confirm
  BY <1>3 DEF Resolve, Confirm, history, FlowInv
<1>4. CASE ReadToCopy
  <2>1. PICK r \in Reads :
            /\ Receive(r)
            /\ \/ End("failed") /\ UNCHANGED buffer
               \/ buffer' = Filter(r.payload) /\ pc' = "write"
    BY <1>4 DEF ReadToCopy
  <2>2. wrote' = NoWrite
    BY <1>4, <2>1 DEF ReadToCopy, Receive, FlowInv
  <2>3. CASE End("failed")
    BY <2>2, <2>3 DEF End
  <2>4. CASE buffer' = Filter(r.payload) /\ pc' = "write"
    <3>1. Filtered(Filter(r.payload), r.really)
      BY ReadsOnlyWhatIsThere, FilterFilters
    <3>2. buffer' = Filter(r.payload) /\ origin' = r.really /\ cmd' = cmd
      BY <2>1, <2>4 DEF Receive
    <3>3. Filtered(buffer, origin)'
      BY <3>1, <3>2 DEF Filtered, Chosen
    <3> QED
      BY <2>2, <3>3
  <2> QED
    BY <2>1, <2>3, <2>4
<1>5. CASE ReadToShow \/ ReadToEdit \/ ReadToPromote
  BY <1>5 DEF ReadToShow, ReadToEdit, ReadToPromote, Receive, FlowInv
<1>6. CASE SaveEdit \/ SavePreview
  BY <1>6 DEF SaveEdit, SavePreview, history, FlowInv
<1>7. CASE Preview \/ TruncateFile \/ GiveUp \/ FillPart
  BY <1>7 DEF Preview, TruncateFile, Writing, GiveUp, FillPart, End, history, Filtered, Chosen
<1>8. CASE FillFile \/ ApplyToDevice \/ Upload \/ Patch
  <2>1. pc \in {"write", "filling"} /\ pc' = "idle" /\ wrote'.payload = buffer
        /\ UNCHANGED <<cmd, buffer, origin>>
    BY <1>8 DEF FillFile, ApplyToDevice, Upload, Patch, Writing, Answered, End, Put
  <2> QED
    BY <2>1 DEF Filtered, Chosen
<1>9. CASE Delete \/ Promote
  BY <1>9 DEF Delete, Promote, Writing, Answered, End, Put
<1>10. CASE Others
  BY <1>10 DEF Others, Relabel, Rewrite, Create, Remove, ChangeFile, ChangeDevice, Meddle, Filtered, Chosen
<1> QED
  BY <1>1, <1>2, <1>3, <1>4, <1>5, <1>6, <1>7, <1>8, <1>9, <1>10 DEF Next

(* No path through copy and set transfers a section or a field that the flags   *)
(* left out (applyFilters after readPayloadFromSource, device_config_copy.go).  *)
THEOREM OnlyTheChosenIsWritten == Spec => []FilterHonoured
<1>1. FilterInv => FilterHonoured
  BY DEF FilterInv, FilterHonoured, Wrote, Copying, Filtered
<1> QED
  BY InitFlow, NextFlow, InitFilter, NextFilter, <1>1, PTL DEF Spec

------------------------------------------------------------------------------
(* promote *)

Promoting == cmd.verb = "promote"
Offered(n) == n \in SafeSections \cup cmd.sections \/ cmd.all
TypedIn(n) ==
    cmd.edit /\ \E t \in Typed : n \in AllPresentSections(t) \cap AllPresentSections(buffer)

\* The include list and the preview hold what was offered, and after the editor
\* also what was typed there.
AskedInv ==
    /\ Promoting /\ pc = "editor" =>
        cmd.edit /\ \A n \in include \cup AllPresentSections(buffer) : Offered(n)
    /\ Promoting /\ pc = "write" => \A n \in include : Offered(n) \/ TypedIn(n)
    /\ Promoting /\ wrote # NoWrite =>
        \A s \in DOMAIN wrote.payload : Offered(Listed(s)) \/ TypedIn(Listed(s))

LEMMA SeedIsOffered == ASSUME NEW p, NEW n \in Seed(cmd, p) PROVE Offered(n)
  BY DEF Seed, Offered

LEMMA PreviewIsSeeded ==
  ASSUME NEW p, NEW names, NEW n \in AllPresentSections(FilterPromoteSections(p, names))
  PROVE  n \in names
  BY DEF AllPresentSections, FilterPromoteSections, Restrict

LEMMA InitAsked == Init => AskedInv
  BY DEF Init, AskedInv

LEMMA NextAsked == FlowInv /\ AskedInv /\ [Next]_vars => AskedInv'
<1> SUFFICES ASSUME FlowInv, AskedInv, [Next]_vars PROVE AskedInv'
  OBVIOUS
<1> USE DEF AskedInv, Promoting
<1>1. ASSUME UNCHANGED <<cmd, buffer, include, wrote>>,
             pc' \in {"editor", "write"} => pc' = pc PROVE AskedInv'
  BY <1>1 DEF Offered, TypedIn, AllPresentSections
<1>2. CASE UNCHANGED vars
  BY <1>1, <1>2 DEF vars
<1>3. ASSUME NEW c \in Commands, Start(c) PROVE AskedInv'
  BY <1>3 DEF Start
<1>4. CASE Resolve
  BY <1>4 DEF Resolve, history, FlowInv, Offered
<1>5. CASE Confirm
  BY <1>5 DEF Confirm, history, FlowInv
<1>6. CASE ReadToCopy \/ ReadToShow \/ ReadToEdit
  BY <1>6 DEF ReadToCopy, ReadToShow, ReadToEdit, Receive, FlowInv
<1>7. CASE ReadToPromote
  <2>1. PICK r \in Reads :
            /\ Receive(r)
            /\ include' = Seed(cmd, r.payload)
            /\ buffer' = FilterPromoteSections(r.payload, Seed(cmd, r.payload))
    BY <1>7 DEF ReadToPromote
  <2>2. \A n \in include' \cup AllPresentSections(buffer)' : Offered(n)
    <3>1. \A n \in include' : Offered(n)
      BY <2>1, SeedIsOffered
    <3>2. AllPresentSections(buffer)' = AllPresentSections(buffer')
      BY DEF AllPresentSections
    <3> QED
      BY <2>1, <3>1, <3>2, PreviewIsSeeded
  <2>3. wrote' = NoWrite /\ cmd' = cmd
    BY <1>7, <2>1 DEF ReadToPromote, Receive, FlowInv
  <2> QED
    BY <1>7, <2>2, <2>3 DEF ReadToPromote, Offered
<1>8. CASE SaveEdit
  BY <1>8 DEF SaveEdit, End, history, FlowInv
<1>9. CASE SavePreview
  <2>1. PICK e \in Edits :
            buffer' = e /\ include' = IF e = buffer THEN include ELSE AllPresentSections(e)
    BY <1>9 DEF SavePreview
  <2>2. cmd' = cmd /\ wrote' = NoWrite /\ Promoting /\ pc = "editor" /\ pc' # "editor"
    BY <1>9 DEF SavePreview, End, history, FlowInv
  <2>3. ASSUME NEW n \in include' PROVE Offered(n) \/ (TypedIn(n))'
    <3>1. CASE e = buffer
      BY <2>1, <2>2, <3>1
    <3>2. CASE e # buffer
      <4>1. PICK s \in DOMAIN e : n = Listed(s)
        BY <2>1, <3>2 DEF AllPresentSections
      <4>2. CASE s \in DOMAIN buffer
        BY <2>2, <4>1, <4>2 DEF AllPresentSections
      <4>3. CASE s \notin DOMAIN buffer
        <5>1. PICK t \in Typed : e = Overlay(buffer, t)
          BY <2>1, <4>1, <4>3, WithoutIsPart DEF Edits
        <5>2. s \in DOMAIN t
          BY <4>1, <4>3, <5>1 DEF Overlay
        <5> QED
          BY <2>1, <2>2, <4>1, <5>2 DEF TypedIn, AllPresentSections
      <4> QED
        BY <4>2, <4>3
    <3> QED
      BY <3>1, <3>2
  <2> QED
    BY <2>2, <2>3 DEF Offered
<1>10. CASE Preview \/ TruncateFile \/ GiveUp \/ FillPart
  BY <1>1, <1>10 DEF Preview, TruncateFile, Writing, GiveUp, FillPart, End, history
<1>11. CASE FillFile
  BY <1>11 DEF FillFile, End, Put, FlowInv
<1>12. CASE ApplyToDevice \/ Upload \/ Patch \/ Delete
  BY <1>12 DEF ApplyToDevice, Upload, Patch, Delete, Writing, Answered, End, Put
<1>13. CASE Promote
  <2>1. UNCHANGED <<cmd, buffer>> /\ pc = "write" /\ pc' = "idle" /\ Promoting
    BY <1>13 DEF Promote, Writing, Answered, End, Put
  <2>2. PICK i \in cfgID :
            wrote'.payload = FilterPromoteSections(rows[i].payload, IF include = {} THEN SafeSections ELSE include)
    BY <1>13 DEF Promote, Put
  <2>3. \A s \in DOMAIN wrote'.payload : Listed(s) \in SafeSections \cup include
    BY <2>2 DEF FilterPromoteSections, Restrict
  <2>4. \A s \in DOMAIN wrote'.payload : Offered(Listed(s)) \/ TypedIn(Listed(s))
    BY <2>1, <2>3 DEF Offered
  <2> QED
    BY <2>1, <2>4 DEF Offered, TypedIn, AllPresentSections
<1>14. CASE Others
  BY <1>1, <1>14 DEF Others, Relabel, Rewrite, Create, Remove, ChangeFile, ChangeDevice, Meddle
<1> QED
  BY <1>2, <1>3, <1>4, <1>5, <1>6, <1>7, <1>8, <1>9, <1>10, <1>11, <1>12, <1>13, <1>14 DEF Next

(* A template never publishes a section outside the safe set that no flag and   *)
(* no edit asked for, although the server filters a row that may have changed    *)
(* since the preview (device_config_promote.go:163-229).                        *)
THEOREM PromoteIsConsented == Spec => []UnsafeNeedsAsking
<1>1. AskedInv => UnsafeNeedsAsking
  BY DEF AskedInv, UnsafeNeedsAsking, Wrote, Promoting, Offered, TypedIn
<1> QED
  BY InitFlow, NextFlow, InitAsked, NextAsked, <1>1, PTL DEF Spec

-----------------------------------------------------------------------------
(* Types                                                                   *)

\* A row is a record of these three fields, and is nobody's only where there is none.
IsRow(r) == /\ r = [owner |-> r.owner, label |-> r.label, payload |-> r.payload]
            /\ r.owner \in {"mine", "template"} /\ DOMAIN r.payload \subseteq Sections

RowsTyped ==
    /\ rows = [i \in Ids |-> rows[i]]
    /\ \A i \in Ids : rows[i] = NoRow \/ IsRow(rows[i])

\* The types, those that TypeOK leaves out included.
TypeInv ==
    /\ TypeOK /\ RowsTyped
    /\ cfgID = {} \/ \E i \in Ids : cfgID = {i}
    /\ pc # "idle" => cmd \in Commands

LEMMA NoRowIsNobodys == NoRow.owner = "nobody"
  BY DEF NoRow

LEMMA NoSectionsHasNone == DOMAIN NoSections = {}
  BY DEF NoSections, Restrict

LEMMA RowsOfWorlds ==
  ASSUME NEW cloud \in [Ids -> Rows \cup {NoRow}]
  PROVE  /\ cloud = [i \in Ids |-> cloud[i]]
         /\ \A i \in Ids : cloud[i] = NoRow \/ IsRow(cloud[i])
<1>1. ASSUME NEW r \in Rows PROVE IsRow(r)
  BY TransferAssumption DEF Rows, IsRow
<1> QED
  BY <1>1

\* The first row of a list is in the list.
LEMMA FirstIsListed ==
  ASSUME NEW ids \in SUBSET Ids, ids # {}
  PROVE  First(ids) \in ids
<1> DEFINE less == OpToRel(<, Nat)
<1>1. \E i \in ids : \A j \in ids : ~ (<<j, i>> \in less)
  <2>1. ids \subseteq Nat
    BY TransferAssumption
  <2> HIDE DEF less
  <2>2. IsWellFoundedOn(less, Nat)
    BY NatLessThanWellFounded DEF less
  <2> QED
    BY <2>1, <2>2, WFMin
<1>2. \E i \in ids : \A j \in ids : i <= j
  <2>1. PICK i \in ids : \A j \in ids : ~ (<<j, i>> \in less)
    BY <1>1
  <2>2. ASSUME NEW j \in ids PROVE i <= j
    <3>1. i \in Nat /\ j \in Nat
      BY TransferAssumption
    <3>2. ~ (j < i)
      BY <2>1, <3>1 DEF OpToRel
    <3> QED
      BY <3>1, <3>2
  <2> QED
    BY <2>2
<1> QED
  BY <1>2 DEF First

\* One row is written, or its label or payload is.
LEMMA PutRow ==
  ASSUME RowsTyped, NEW i \in Ids, NEW r, r = NoRow \/ IsRow(r), rows' = [rows EXCEPT ![i] = r]
  PROVE  RowsTyped' /\ rows'[i] = r /\ \A j \in Ids : j # i => rows'[j] = rows[j]
  BY DEF RowsTyped

LEMMA PutPayload ==
  ASSUME RowsTyped, NEW i \in Ids, rows[i] # NoRow, NEW p, rows' = [rows EXCEPT ![i].payload = p]
  PROVE  /\ rows' = [rows EXCEPT ![i] = [rows[i] EXCEPT !.payload = p]]
         /\ [rows[i] EXCEPT !.payload = p]
              = [owner |-> rows[i].owner, label |-> rows[i].label, payload |-> p]
  BY DEF RowsTyped, IsRow

LEMMA PutLabel ==
  ASSUME RowsTyped, NEW i \in Ids, rows[i] # NoRow, NEW l, rows' = [rows EXCEPT ![i].label = l]
  PROVE  /\ rows' = [rows EXCEPT ![i] = [rows[i] EXCEPT !.label = l]]
         /\ [rows[i] EXCEPT !.label = l]
              = [owner |-> rows[i].owner, label |-> l, payload |-> rows[i].payload]
  BY DEF RowsTyped, IsRow

LEMMA PutPayloadTyped ==
  ASSUME RowsTyped, NEW i \in Ids, rows[i] # NoRow, NEW p, DOMAIN p \subseteq Sections,
         rows' = [rows EXCEPT ![i].payload = p]
  PROVE  /\ RowsTyped' /\ \A j \in Ids : j # i => rows'[j] = rows[j]
         /\ rows'[i] = [owner |-> rows[i].owner, label |-> rows[i].label, payload |-> p]
         /\ rows[i].owner \in {"mine", "template"}
<1>1. rows[i].owner \in {"mine", "template"}
  BY DEF RowsTyped, IsRow
<1>2. IsRow([owner |-> rows[i].owner, label |-> rows[i].label, payload |-> p])
  BY <1>1 DEF IsRow
<1> DEFINE r == [owner |-> rows[i].owner, label |-> rows[i].label, payload |-> p]
<1>3. rows' = [rows EXCEPT ![i] = r] /\ IsRow(r)
  BY <1>2, PutPayload
<1> HIDE DEF r
<1>4. RowsTyped' /\ rows'[i] = r /\ \A j \in Ids : j # i => rows'[j] = rows[j]
  BY <1>3, PutRow
<1> QED
  BY <1>1, <1>4 DEF r

LEMMA PutLabelTyped ==
  ASSUME RowsTyped, NEW i \in Ids, rows[i] # NoRow, NEW l, rows' = [rows EXCEPT ![i].label = l]
  PROVE  /\ RowsTyped' /\ \A j \in Ids : j # i => rows'[j] = rows[j]
         /\ rows'[i] = [owner |-> rows[i].owner, label |-> l, payload |-> rows[i].payload]
<1>1. IsRow(rows[i])
  BY DEF RowsTyped
<1>2. IsRow([owner |-> rows[i].owner, label |-> l, payload |-> rows[i].payload])
  BY <1>1 DEF IsRow
<1> QED
  <2> DEFINE r == [owner |-> rows[i].owner, label |-> l, payload |-> rows[i].payload]
  <2>1. rows' = [rows EXCEPT ![i] = r]
    BY PutLabel
  <2>2. IsRow(r)
    BY <1>2
  <2> HIDE DEF r
  <2>3. RowsTyped' /\ rows'[i] = r /\ \A j \in Ids : j # i => rows'[j] = rows[j]
    BY <2>1, <2>2, PutRow
  <2> QED
    BY <2>3 DEF r

\* What is read has only sections, and the row it is of is the one the label gives.
LEMMA ReadsAreTyped ==
  ASSUME TypeInv, NEW r \in Reads
  PROVE  /\ DOMAIN r.payload \subseteq Sections /\ r.row \subseteq Ids
         /\ InCloud(cmd.from) => Matches(cmd.from) # {} /\ r.row = {First(Matches(cmd.from))}
<1>1. CASE cmd.from.kind = "device"
  <2>1. PICK view \in Views(device) : r = Got(view, {}, device)
    BY <1>1 DEF Reads, DeviceReads
  <2>2. DOMAIN view \subseteq DOMAIN device
    BY <2>1, WithoutIsPart DEF Views
  <2> QED
    BY <1>1, <2>1, <2>2 DEF Got, TypeInv, TypeOK, InCloud
<1>2. CASE cmd.from.kind # "device" /\ cmd.from.kind = "file"
  <2>1. r.payload = file.payload /\ r.row = {}
    BY <1>2 DEF Reads, FileReads, Got
  <2>2. DOMAIN file.payload \subseteq Sections
    BY DEF TypeInv, TypeOK, IsFile
  <2> QED
    BY <1>2, <2>1, <2>2 DEF InCloud
<1>3. CASE cmd.from.kind # "device" /\ cmd.from.kind # "file"
  <2> DEFINE i == First(Matches(cmd.from))
  <2>1. r = Got(Shown(i, cmd.from, Reveals), {i}, rows[i].payload) /\ Matches(cmd.from) # {}
    BY <1>3 DEF Reads, CloudReads
  <2>2. i \in Matches(cmd.from) /\ Matches(cmd.from) \subseteq Ids
    BY <2>1, FirstIsListed DEF Matches
  <2>3. DOMAIN rows[i].payload \subseteq Sections
    BY <2>2 DEF Matches, Bears, TypeInv, RowsTyped, IsRow
  <2>4. DOMAIN Redact(rows[i].payload) = DOMAIN rows[i].payload
    BY DEF Redact
  <2>5. r.payload = Shown(i, cmd.from, Reveals) /\ r.row = {i}
    BY <2>1 DEF Got
  <2>6. r.payload = rows[i].payload \/ r.payload = Redact(rows[i].payload)
    BY <2>5 DEF Shown
  <2>7. DOMAIN r.payload \subseteq Sections
    BY <2>3, <2>4, <2>6
  <2> QED
    BY <2>1, <2>2, <2>5, <2>7
<1> QED
  BY <1>1, <1>2, <1>3
-----------------------------------------------------------------------------
(* Types, step by step                                                     *)

LEMMA Domains ==
  ASSUME NEW p, DOMAIN p \subseteq Sections
  PROVE  /\ DOMAIN Filter(p) \subseteq Sections
         /\ \A keys : DOMAIN CloneSections(p, keys) \subseteq Sections
         /\ \A names : DOMAIN FilterPromoteSections(p, names) \subseteq Sections
         /\ DOMAIN Redact(p) = DOMAIN p
<1>1. \A keys : DOMAIN CloneSections(p, keys) \subseteq Sections
  BY DEF CloneSections, Restrict
<1>2. \A names : DOMAIN FilterPromoteSections(p, names) \subseteq Sections
  BY DEF FilterPromoteSections, Restrict
<1>3. DOMAIN Filter(p) \subseteq DOMAIN CloneSections(p, cmd.sections)
  BY DEF Filter, ExcludeFields
<1> QED
  BY <1>1, <1>2, <1>3 DEF Redact

LEMMA EditsAreTyped ==
  ASSUME DOMAIN buffer \subseteq Sections, NEW e \in Edits
  PROVE  DOMAIN e \subseteq Sections
<1>1. ASSUME NEW d \in DOMAIN buffer, e = Without(buffer, d) PROVE DOMAIN e \subseteq Sections
  BY <1>1, WithoutIsPart
<1>2. ASSUME NEW t \in Typed, e = Overlay(buffer, t) PROVE DOMAIN e \subseteq Sections
  BY <1>2, TransferAssumption DEF Overlay
<1> QED
  BY <1>1, <1>2 DEF Edits

\* What is sent to a device leaves it without owner and position.
LEMMA SentIsTyped ==
  ASSUME NEW p PROVE DOMAIN Sent(p) \subseteq Sections \ Personal
<1> SUFFICES ASSUME NEW s \in DOMAIN Sent(p) PROVE s \in Sections \ Personal
  OBVIOUS
<1>1. s \in Sections /\ \E t \in DOMAIN Sendable(p) : s = Lands(Sendable(p), t)
  BY DEF Sent
<1>2. PICK t \in DOMAIN Sendable(p) : s = Lands(Sendable(p), t)
  BY <1>1
<1>3. t \notin Personal
  BY DEF Sendable, Restrict
<1>4. \A n : <<"channels", n>> \notin Personal
  BY DEF Personal
<1> QED
  BY <1>1, <1>2, <1>3, <1>4 DEF Lands

\* The parts of the type invariant that the steps disturb one by one.
Callers ==
    /\ cmd \in Commands \cup {NoCommand} /\ elevated \in BOOLEAN
    /\ outside \subseteq {"names", "contents"}
    /\ pc # "idle" => cmd \in Commands
Handler ==
    /\ pc \in {"idle", "resolve", "read", "confirm", "editor", "write", "filling"}
    /\ verdict \in {"none", "failed", "unchanged", "preview", "done"}
    /\ cfgID = {} \/ \E i \in Ids : cfgID = {i}
    /\ bearers \subseteq Ids /\ readFrom \subseteq Ids
    /\ wrote = NoWrite \/ (wrote.place \in Places /\ wrote.id \subseteq Ids)
Holdings ==
    /\ DOMAIN buffer \subseteq Sections /\ DOMAIN device \subseteq Sections \ Personal
    /\ IsFile(file)
    /\ RowsTyped

LEMMA TypeParts == TypeInv <=> Callers /\ Handler /\ Holdings
<1>1. cfgID = {} \/ (\E i \in Ids : cfgID = {i}) => cfgID \subseteq Ids /\ Cardinality(cfgID) <= 1
  <2>1. CASE cfgID = {}
    BY <2>1, FS_EmptySet
  <2>2. ASSUME NEW i \in Ids, cfgID = {i} PROVE cfgID \subseteq Ids /\ Cardinality(cfgID) <= 1
    <3>1. Cardinality({i}) = 1
      BY FS_Singleton
    <3> QED
      BY <2>2, <3>1
  <2> QED
    BY <2>1, <2>2
<1>2. RowsTyped => \A i \in Ids : rows[i] = NoRow \/ DOMAIN rows[i].payload \subseteq Sections
  BY DEF RowsTyped, IsRow
<1> QED
  BY <1>1, <1>2 DEF TypeInv, TypeOK, Callers, Handler, Holdings

LEMMA InitType == Init => TypeInv
<1> SUFFICES ASSUME Init PROVE TypeInv
  OBVIOUS
<1>w. PICK w \in Worlds : device = w.device /\ file = w.file /\ rows = w.rows
  BY DEF Init
<1>1. RowsTyped
  BY <1>w, RowsOfWorlds, TransferAssumption DEF RowsTyped
<1>2. Holdings
  BY <1>w, <1>1, NoSectionsHasNone, TransferAssumption DEF Init, Holdings, OfDevice
<1>3. Callers /\ Handler
  BY DEF Init, Callers, Handler
<1> QED
  BY <1>2, <1>3, TypeParts

LEMMA NextType == TypeInv /\ FlowInv /\ [Next]_vars => TypeInv'
<1> SUFFICES ASSUME TypeInv, FlowInv, [Next]_vars PROVE Callers' /\ Handler' /\ Holdings'
  BY TypeParts, PTL
<1>0. Callers /\ Handler /\ Holdings /\ DOMAIN NoSections \subseteq Sections
  BY TypeParts, NoSectionsHasNone
<1> USE DEF Callers, Handler
<1>k. rows' = rows => RowsTyped'
  BY <1>0 DEF RowsTyped, Holdings
<1>u. UNCHANGED world /\ DOMAIN buffer' \subseteq Sections => Holdings'
  BY <1>0, <1>k DEF Holdings, world
<1>m. Matches(cmd.from) \subseteq Ids
  BY DEF Matches
<1>1. CASE UNCHANGED vars
  BY <1>0, <1>1, <1>u DEF vars, Holdings, world
<1>2. ASSUME NEW c \in Commands, Start(c) PROVE Callers' /\ Handler' /\ Holdings'
  BY <1>0, <1>2, <1>u DEF Start, Matches
<1>3. CASE Resolve
  <2>1. First(Matches(cmd.from)) \in Ids
    BY <1>3, <1>m, FirstIsListed DEF Resolve
  <2> QED
    BY <1>0, <1>3, <1>u, <2>1 DEF Resolve, history, Holdings
<1>4. CASE Confirm
  BY <1>0, <1>4, <1>u DEF Confirm, history, Holdings
<1>5. ASSUME NEW r \in Reads, Receive(r), DOMAIN buffer' \subseteq Sections,
             pc' \in {"idle", "editor", "write"}, verdict' \in {verdict, "failed"}, pc # "idle"
      PROVE  Callers' /\ Handler' /\ Holdings'
  <2>1. r.row \subseteq Ids
    BY ReadsAreTyped
  <2> QED
    BY <1>0, <1>5, <1>u, <2>1 DEF Receive
<1>6. CASE ReadToCopy
  <2>1. PICK r \in Reads : Receive(r) /\ (buffer' = buffer \/ buffer' = Filter(r.payload))
                           /\ pc' \in {"idle", "write"} /\ verdict' \in {verdict, "failed"}
    BY <1>6 DEF ReadToCopy, End
  <2>2. DOMAIN buffer' \subseteq Sections /\ pc # "idle"
    BY <1>0, <1>6, <2>1, ReadsAreTyped, Domains DEF Holdings, ReadToCopy
  <2> QED
    BY <1>5, <2>1, <2>2
<1>7. CASE ReadToShow
  <2>1. PICK r \in Reads :
            /\ Receive(r)
            /\ \/ buffer' = CloneSections(r.payload, cmd.sections)
               \/ buffer' = CloneSections(Redact(r.payload), cmd.sections)
    BY <1>7 DEF ReadToShow
  <2>2. DOMAIN r.payload \subseteq Sections
    BY ReadsAreTyped
  <2>3. DOMAIN buffer' \subseteq Sections
    BY <2>1, <2>2, Domains
  <2> QED
    BY <1>5, <1>7, <2>1, <2>3 DEF ReadToShow
<1>8. CASE ReadToEdit
  <2>1. PICK r \in Reads : Receive(r) /\ buffer' = r.payload
    BY <1>8 DEF ReadToEdit
  <2> QED
    BY <1>5, <1>8, <2>1, ReadsAreTyped DEF ReadToEdit
<1>9. CASE ReadToPromote
  <2>1. PICK r \in Reads : Receive(r) /\ buffer' = FilterPromoteSections(r.payload, Seed(cmd, r.payload))
    BY <1>9 DEF ReadToPromote
  <2>2. DOMAIN buffer' \subseteq Sections
    BY <2>1, ReadsAreTyped, Domains
  <2> QED
    BY <1>5, <1>9, <2>1, <2>2 DEF ReadToPromote
<1>10. CASE SaveEdit \/ SavePreview
  <2>1. PICK e \in Edits : buffer' = buffer \/ buffer' = e
    BY <1>10 DEF SaveEdit, SavePreview
  <2>2. DOMAIN buffer' \subseteq Sections
    BY <1>0, <2>1, EditsAreTyped DEF Holdings
  <2>3. UNCHANGED world /\ Callers' /\ Handler'
    BY <1>0, <1>10 DEF SaveEdit, SavePreview, End, history
  <2> QED
    BY <1>u, <2>2, <2>3
<1>11. CASE Preview \/ GiveUp
  BY <1>0, <1>11, <1>u DEF Preview, GiveUp, End, history, Holdings
<1>12. CASE TruncateFile
  <2>1. IsFile(file)'
    BY <1>0, <1>12 DEF TruncateFile, Holdings, IsFile, Forms
  <2> QED
    BY <1>0, <1>12, <1>k, <2>1 DEF TruncateFile, Writing, history, Holdings
<1>f. pc = "filling" => Form \in Forms
  BY <1>0, TransferAssumption DEF Form, Forms
<1>13. CASE FillFile
  <2>1. IsFile(file)'
    BY <1>0, <1>13, <1>f DEF FillFile, Holdings, IsFile
  <2> QED
    BY <1>0, <1>13, <1>k, <2>1 DEF FillFile, Put, End, Holdings, Places
<1>p. CASE FillPart
  <2>1. PICK part \in SUBSET DOMAIN buffer :
            file' = [file EXCEPT !.form = "yaml", !.payload = Restrict(buffer, part)]
    BY <1>p DEF FillPart
  <2>2. DOMAIN Restrict(buffer, part) \subseteq Sections
    BY <1>0 DEF Restrict, Holdings
  <2>3. IsFile(file)'
    BY <1>0, <2>1, <2>2 DEF Holdings, IsFile, Forms
  <2> QED
    BY <1>0, <1>p, <1>k, <2>3 DEF FillPart, End, history, Holdings
<1>14. CASE ApplyToDevice
  <2>1. /\ UNCHANGED <<file, rows, elevated, cmd, cfgID, buffer, readFrom, bearers, outside>>
        /\ pc' = "idle" /\ verdict' \in {"done", "failed"} /\ wrote' = [place |-> "device", id |-> {}, payload |-> buffer]
    BY <1>14 DEF ApplyToDevice, Put, End
  <2>2. DOMAIN device' \subseteq Sections \ Personal
    <3>1. PICK base \in Bases(device, buffer), part \in SUBSET DOMAIN Sent(buffer) :
              device' = Overlay(base, Restrict(Sent(buffer), part))
      BY <1>14 DEF ApplyToDevice
    <3>2. DOMAIN base = DOMAIN device
      BY DEF Bases
    <3>3. DOMAIN Restrict(Sent(buffer), part) \subseteq Sections \ Personal
      BY SentIsTyped DEF Restrict
    <3> QED
      BY <1>0, <3>1, <3>2, <3>3 DEF Holdings, Overlay
  <2>3. Callers' /\ Handler'
    BY <1>0, <2>1 DEF Places
  <2> QED
    BY <1>0, <1>k, <2>1, <2>2, <2>3 DEF Holdings
\* A write to the cloud touches one row.
<1>15. ASSUME NEW i \in Ids, NEW place \in Places, NEW p, Put(place, {i}, p), Answered,
              RowsTyped', UNCHANGED <<device, file>>
       PROVE  Callers' /\ Handler' /\ Holdings'
  BY <1>0, <1>15 DEF Put, Answered, End, Holdings
<1>16. CASE Upload
  <2>1. PICK i \in Ids :
            /\ rows' = [rows EXCEPT ![i] = [owner |-> "mine", label |-> Target.label, payload |-> buffer]]
            /\ Put("new", {i}, buffer)
    BY <1>16 DEF Upload
  <2>2. IsRow([owner |-> "mine", label |-> Target.label, payload |-> buffer])
    BY <1>0 DEF IsRow, Holdings
  <2>3. RowsTyped'
    BY <1>0, <2>1, <2>2, PutRow DEF Holdings
  <2> QED
    BY <1>15, <1>16, <2>1, <2>3 DEF Upload, Places
<1>17. CASE Patch
  <2>1. PICK i \in cfgID :
            MayChange(i, cmd.from) /\ rows' = [rows EXCEPT ![i].payload = buffer] /\ Put("row", {i}, buffer)
    BY <1>17 DEF Patch
  <2>2. i \in Ids /\ rows[i] # NoRow
    BY <1>0, <2>1 DEF MayChange
  <2>3. RowsTyped'
    BY <1>0, <2>1, <2>2, PutPayloadTyped DEF Holdings
  <2> QED
    BY <1>15, <1>17, <2>1, <2>2, <2>3 DEF Patch, Places
<1>18. CASE Delete
  <2>1. PICK i \in cfgID : rows' = [rows EXCEPT ![i] = NoRow] /\ Put("gone", {i}, NoSections)
    BY <1>18 DEF Delete
  <2>2. i \in Ids
    BY <1>0
  <2>3. RowsTyped'
    BY <1>0, <2>1, <2>2, PutRow DEF Holdings
  <2> QED
    BY <1>15, <1>18, <2>1, <2>2, <2>3 DEF Delete, Places
<1>19. CASE Promote
  <2>1. PICK i \in cfgID, n \in Ids :
            LET staged == FilterPromoteSections(rows[i].payload, IF include = {} THEN SafeSections ELSE include)
            IN  /\ MayChange(i, cmd.from)
                /\ rows' = [rows EXCEPT ![n] = [owner |-> "template", label |-> cmd.to.label, payload |-> staged]]
                /\ Put("new", {n}, staged)
    BY <1>19 DEF Promote
  <2> DEFINE staged == FilterPromoteSections(rows[i].payload, IF include = {} THEN SafeSections ELSE include)
  <2>2. DOMAIN staged \subseteq Sections
    BY <1>0, <2>1, Domains DEF MayChange, Holdings, RowsTyped, IsRow
  <2> DEFINE r == [owner |-> "template", label |-> cmd.to.label, payload |-> staged]
  <2>3. rows' = [rows EXCEPT ![n] = r] /\ Put("new", {n}, staged)
    BY <2>1
  <2>4. IsRow(r)
    BY <2>2 DEF IsRow
  <2> HIDE DEF r, staged
  <2>5. RowsTyped'
    BY <1>0, <2>3, <2>4, PutRow DEF Holdings
  <2> QED
    BY <1>15, <1>19, <2>3, <2>5 DEF Promote, Places
<1>20. CASE Others
  <2>1. Callers' /\ DOMAIN buffer' \subseteq Sections /\ bearers' \subseteq Ids
    BY <1>0, <1>20 DEF Others, Relabel, Rewrite, Create, Remove, ChangeFile, ChangeDevice, Meddle, Holdings
  <2>2. Handler'
    BY <1>0, <1>20, <2>1 DEF Others, Relabel, Rewrite, Create, Remove, ChangeFile, ChangeDevice, Meddle
  <2>3. ASSUME NEW i \in Ids, NEW l \in Labels, Relabel(i, l) PROVE Holdings'
    BY <1>0, <2>1, <2>3, PutLabelTyped DEF Relabel, Holdings
  <2>4. ASSUME NEW i \in Ids, NEW p \in Contents, Rewrite(i, p) PROVE Holdings'
    <3>1. DOMAIN p \subseteq Sections
      BY TransferAssumption
    <3> QED
      BY <1>0, <2>1, <2>4, <3>1, PutPayloadTyped DEF Rewrite, Holdings
  <2>5. ASSUME NEW p \in Contents, ChangeDevice(p) PROVE Holdings'
    <3>1. DOMAIN p \subseteq Sections
      BY TransferAssumption
    <3> QED
      BY <1>0, <1>k, <2>1, <2>5, <3>1 DEF ChangeDevice, OfDevice, Holdings
  <2>6. ASSUME NEW f \in Files, ChangeFile(f) PROVE Holdings'
    <3>1. IsFile(f)
      BY TransferAssumption
    <3>2. IsFile(file)'
      BY <2>6, <3>1 DEF ChangeFile
    <3> QED
      BY <1>0, <1>k, <2>1, <2>6, <3>2 DEF ChangeFile, Holdings
  <2>7. ASSUME NEW i \in Ids, NEW r, r = NoRow \/ r \in Rows, Create(i, r) \/ (r = NoRow /\ Remove(i)) PROVE Holdings'
    <3>1. r = NoRow \/ IsRow(r)
      BY <2>7, TransferAssumption DEF Rows, IsRow
    <3>2. rows' = [rows EXCEPT ![i] = r] /\ UNCHANGED <<device, file>>
      BY <2>7 DEF Create, Remove
    <3>3. RowsTyped'
      BY <1>0, <3>1, <3>2, PutRow DEF Holdings
    <3> QED
      BY <1>0, <2>1, <3>2, <3>3 DEF Holdings
  <2> QED
    BY <1>20, <2>1, <2>2, <2>3, <2>4, <2>5, <2>6, <2>7 DEF Others
<1> QED
  BY <1>1, <1>2, <1>3, <1>4, <1>6, <1>7, <1>8, <1>9, <1>10, <1>11, <1>12, <1>13, <1>14,
     <1>16, <1>17, <1>18, <1>19, <1>20, <1>p DEF Next

\* The variables keep their types, whatever others write to the file, the device and the cloud.
THEOREM TransferTypeCorrect == Spec => []TypeOK
<1>1. TypeInv => TypeOK
  BY DEF TypeInv
<1> QED
  BY InitFlow, NextFlow, InitType, NextType, <1>1, PTL DEF Spec
------------------------------------------------------------------------------
(* edit *)

Editing == cmd.verb = "edit" /\ pc \in {"editor", "write"}

\* Unless somebody else wrote to it, the device still is as it was read.
FreshInv == Editing /\ cmd.from.kind = "device" /\ "contents" \notin outside => origin = device

LEMMA InitFresh == Init => FreshInv
  BY DEF Init, FreshInv, Editing

LEMMA NextFresh == FlowInv /\ FreshInv /\ [Next]_vars => FreshInv'
<1> SUFFICES ASSUME FlowInv, FreshInv, [Next]_vars PROVE FreshInv'
  OBVIOUS
<1> USE DEF FreshInv, Editing
<1>1. CASE UNCHANGED vars
  BY <1>1 DEF vars
<1>2. ASSUME NEW c \in Commands, Start(c) PROVE FreshInv'
  BY <1>2 DEF Start
<1>3. CASE Resolve
  BY <1>3 DEF Resolve
<1>4. CASE Confirm
  BY <1>4 DEF Confirm, FlowInv
<1>5. CASE ReadToCopy \/ ReadToShow \/ ReadToPromote
  BY <1>5 DEF ReadToCopy, ReadToShow, ReadToPromote, Receive
<1>6. CASE ReadToEdit
  <2>1. PICK r \in Reads : Receive(r)
    BY <1>6 DEF ReadToEdit
  <2>2. ASSUME cmd.from.kind = "device" PROVE r.really = device
    <3>1. r \in DeviceReads
      BY <2>2 DEF Reads
    <3>2. PICK view \in Views(device) : r = Got(view, {}, device)
      BY <3>1 DEF DeviceReads
    <3> QED
      BY <3>2 DEF Got
  <2> QED
    BY <2>1, <2>2 DEF Receive, world
<1>7. CASE SaveEdit \/ SavePreview \/ Preview
  BY <1>7 DEF SaveEdit, SavePreview, Preview, End, history, world
<1>8. CASE TruncateFile \/ GiveUp \/ FillFile \/ FillPart \/ ApplyToDevice
  BY <1>8 DEF TruncateFile, GiveUp, FillFile, FillPart, ApplyToDevice, End
<1>9. CASE Upload \/ Patch \/ Delete \/ Promote
  BY <1>9 DEF Upload, Patch, Delete, Promote, Answered, End
<1>10. CASE Others
  BY <1>10 DEF Others, Relabel, Rewrite, Create, Remove, ChangeFile, ChangeDevice, Meddle
<1> QED
  BY <1>1, <1>2, <1>3, <1>4, <1>5, <1>6, <1>7, <1>8, <1>9, <1>10 DEF Next

\* What the device takes comes from the payload, a row from one of the rows.
LEMMA SentIsOfThePayload ==
  ASSUME NEW p, NEW s \in DOMAIN Sent(p)
  PROVE  /\ s \in Sections
         /\ \E t \in DOMAIN p :
                /\ t \notin Personal
                /\ p[t] # Null
                /\ t = s \/ (t \in Channels /\ Key(s) = "channels")
<1>1. s \in Sections /\ \E t \in DOMAIN Sendable(p) : s = Lands(Sendable(p), t)
  BY DEF Sent
<1>2. PICK t \in DOMAIN Sendable(p) : s = Lands(Sendable(p), t)
  BY <1>1
<1>3. t \in DOMAIN p /\ t \notin Personal /\ p[t] # Null
  BY DEF Sendable, Restrict
<1>4. CASE t \in Channels
  <2>1. s[1] = "channels" /\ s \in {"channels"} \X {Slot(Numbered(t, Sendable(p)[t]))}
    BY <1>2, <1>4 DEF Lands
  <2>2. s \in Channels
    BY <1>1, <2>1 DEF Sections, Personal, Channels
  <2> QED
    BY <1>1, <1>3, <1>4, <2>1, <2>2 DEF Key
<1>5. CASE t \notin Channels
  BY <1>1, <1>2, <1>3, <1>5 DEF Lands
<1> QED
  BY <1>4, <1>5

\* The lora section goes as it is.
LEMMA LoraIsSent ==
  ASSUME NEW p, DOMAIN p \subseteq Sections, Lora \in DOMAIN p, p[Lora] # Null
  PROVE  Lora \in DOMAIN Sent(p) /\ Sent(p)[Lora] = p[Lora]
<1> DEFINE q == Sendable(p)
<1>1. Lora \notin Channels /\ Lora \notin Personal
  BY DEF Lora, Channels, Personal
<1>2. Lora \in DOMAIN q /\ q[Lora] = p[Lora]
  BY <1>1 DEF Sendable, Restrict
<1>3. Lands(q, Lora) = Lora
  BY <1>1 DEF Lands
<1>4. ASSUME NEW t \in DOMAIN q, Lands(q, t) = Lora PROVE t = Lora
  <2>1. CASE t \in Channels
    BY <1>4, <2>1 DEF Lands, Lora
  <2> QED
    BY <1>4, <2>1 DEF Lands
<1>5. (CHOOSE t \in DOMAIN q : Lands(q, t) = Lora) = Lora
  BY <1>2, <1>3, <1>4
<1>6. Numbered(Lora, q[Lora]) = q[Lora]
  BY <1>1 DEF Numbered
<1>7. Sent(p) = [t \in {Lands(q, s) : s \in DOMAIN q} \cap Sections |->
                    Numbered(CHOOSE s \in DOMAIN q : Lands(q, s) = t, q[CHOOSE s \in DOMAIN q : Lands(q, s) = t])]
  BY DEF Sent
<1>8. Lora \in {Lands(q, s) : s \in DOMAIN q} \cap Sections
  BY <1>2, <1>3
<1> HIDE DEF q
<1> QED
  BY <1>2, <1>5, <1>6, <1>7, <1>8

\* Priming touches only the lora section, and only its region and preset.
LEMMA PrimingIsForTheRegion ==
  ASSUME NEW base \in Bases(device, buffer), DOMAIN buffer \subseteq Sections
  PROVE  /\ DOMAIN base = DOMAIN device
         /\ \A s \in DOMAIN device : base[s] # device[s] =>
                s \in DOMAIN Sent(buffer) /\ s \in Diff(device, Sent(buffer))
<1>1. CASE base = device
  BY <1>1
<1>2. CASE base # device
  <2>1. /\ RegionCrossing(device, buffer)
        /\ DOMAIN base = DOMAIN device
        /\ \A s \in DOMAIN device : s # Lora => base[s] = device[s]
    BY <1>2 DEF Bases
  <2>2. Lora \in DOMAIN Sent(buffer) /\ Sent(buffer)[Lora] = buffer[Lora]
    BY <2>1, LoraIsSent DEF RegionCrossing, HasRegion
  <2>3. Json(device, Lora) = device[Lora] /\ Json(Sent(buffer), Lora) = buffer[Lora] /\ device[Lora] # buffer[Lora]
    BY <2>1, <2>2 DEF RegionCrossing, HasRegion, Json
  <2>4. Lora \in Diff(device, Sent(buffer))
    BY <2>2, <2>3 DEF Diff
  <2> QED
    BY <2>1, <2>2, <2>4
<1> QED
  BY <1>1, <1>2

\* What changes is what was sent, and it was not so before.
LEMMA OnlyWhatIsSentChanges ==
  ASSUME NEW base, DOMAIN base = DOMAIN device,
         \A t \in DOMAIN device : base[t] # device[t] =>
             t \in DOMAIN Sent(buffer) /\ t \in Diff(device, Sent(buffer)),
         NEW part \in SUBSET DOMAIN Sent(buffer),
         NEW s \in Diff(device, Overlay(base, Restrict(Sent(buffer), part)))
  PROVE  s \in DOMAIN Sent(buffer) /\ s \in Diff(device, Sent(buffer))
<1> DEFINE after == Overlay(base, Restrict(Sent(buffer), part))
<1>1. /\ DOMAIN after = DOMAIN device \cup part
      /\ \A t \in part : after[t] = Sent(buffer)[t]
      /\ \A t \in DOMAIN device \ part : after[t] = base[t]
  BY DEF Overlay, Restrict
<1>2. s \in DOMAIN device \cup DOMAIN after /\ Json(device, s) # Json(after, s)
  BY DEF Diff
<1> HIDE DEF after
<1>3. CASE s \in part
  BY <1>1, <1>2, <1>3 DEF Diff, Json
<1>4. CASE s \notin part
  <2>1. s \in DOMAIN device /\ s \in DOMAIN after /\ after[s] = base[s]
    BY <1>1, <1>2, <1>4
  <2>2. Json(device, s) = device[s] /\ Json(after, s) = base[s]
    BY <2>1 DEF Json
  <2> QED
    BY <1>2, <2>1, <2>2
<1> QED
  BY <1>3, <1>4

(* What the device changes by is in the source, was chosen, and in an edit is   *)
(* what the operator changed (device_config_apply.go:110, admin.go:263-348).    *)
THEOREM DeviceOnlyChangesAsAsked == Spec => DeviceChangesWereAsked
<1> DEFINE Asked ==
        wrote' # wrote /\ wrote' # NoWrite =>
            \A s \in Diff(device, device') :
                /\ s \in DOMAIN Sent(wrote'.payload)
                /\ cmd.verb \in {"copy", "set"} => Chosen(s)
                /\ cmd.verb = "edit" /\ "contents" \notin outside => s \in Diff(origin, Sent(wrote'.payload))
<1>1. ASSUME TypeInv, FlowInv, FilterInv, FreshInv, Next PROVE Asked
  <2>1. CASE ApplyToDevice
    <3>1. PICK base \in Bases(device, buffer), part \in SUBSET DOMAIN Sent(buffer) :
              device' = Overlay(base, Restrict(Sent(buffer), part))
      BY <2>1 DEF ApplyToDevice
    <3>2. wrote'.payload = buffer /\ Target.kind = "device" /\ pc = "write"
      BY <2>1 DEF ApplyToDevice, Put, Writing
    <3>3. DOMAIN buffer \subseteq Sections
      BY <1>1 DEF TypeInv, TypeOK
    <3>4. ASSUME NEW s \in Diff(device, device')
          PROVE  s \in DOMAIN Sent(buffer) /\ s \in Diff(device, Sent(buffer))
      <4>1. DOMAIN base = DOMAIN device
            /\ \A t \in DOMAIN device : base[t] # device[t] =>
                   t \in DOMAIN Sent(buffer) /\ t \in Diff(device, Sent(buffer))
        BY <3>3, PrimingIsForTheRegion
      <4> QED
        BY <3>1, <3>4, <4>1, OnlyWhatIsSentChanges
    <3>5. cmd.verb = "edit" /\ "contents" \notin outside => origin = device
      BY <1>1, <3>2 DEF FreshInv, Editing, Target
    <3>6. ASSUME cmd.verb \in {"copy", "set"}, NEW s \in DOMAIN Sent(buffer) PROVE Chosen(s)
      <4>1. PICK t \in DOMAIN buffer : t \notin Personal /\ (t = s \/ (t \in Channels /\ Key(s) = "channels"))
        BY SentIsOfThePayload
      <4>2. Chosen(t)
        BY <1>1, <3>2, <3>6 DEF FilterInv, Copying, Filtered
      <4>3. Key(t) = Key(s)
        BY <4>1 DEF Key, Channels
      <4> QED
        BY <4>1, <4>2, <4>3 DEF Chosen
    <3> QED
      BY <3>2, <3>4, <3>5, <3>6
  <2>2. CASE FillFile \/ Upload \/ Patch \/ Delete \/ Promote
    <3>1. device' = device
      BY <2>2 DEF FillFile, Upload, Patch, Delete, Promote
    <3> QED
      BY <3>1 DEF Diff
  <2>3. ASSUME NEW c \in Commands, Start(c) PROVE Asked
    BY <2>3 DEF Start
  <2>4. CASE Resolve \/ Confirm \/ SaveEdit \/ SavePreview \/ Preview \/ TruncateFile \/ GiveUp \/ FillPart
    BY <2>4 DEF Resolve, Confirm, SaveEdit, SavePreview, Preview, TruncateFile, GiveUp, FillPart, history
  <2>5. CASE ReadToCopy \/ ReadToShow \/ ReadToEdit \/ ReadToPromote
    BY <2>5 DEF ReadToCopy, ReadToShow, ReadToEdit, ReadToPromote, Receive
  <2>6. CASE Others
    BY <2>6 DEF Others, Relabel, Rewrite, Create, Remove, ChangeFile, ChangeDevice, Meddle
  <2> QED
    BY <1>1, <2>1, <2>2, <2>3, <2>4, <2>5, <2>6 DEF Next
<1>2. TypeInv /\ FlowInv /\ FilterInv /\ FreshInv /\ [Next]_vars => [Asked]_vars
  BY <1>1
<1> QED
  BY InitType, NextType, InitFlow, NextFlow, InitFilter, NextFilter, InitFresh, NextFresh, <1>2, PTL
     DEF Spec, DeviceChangesWereAsked

\* What a device can report is taken as it is.
LEMMA ReportsAreTaken ==
  ASSUME NEW goal, DOMAIN goal \subseteq Sections, OfDevice(goal)
  PROVE  /\ DOMAIN Sent(goal) = DOMAIN goal
         /\ \A s \in DOMAIN goal : Sent(goal)[s] = goal[s]
<1> DEFINE q == Sendable(goal)
<1>1. DOMAIN q = DOMAIN goal /\ \A s \in DOMAIN goal : q[s] = goal[s]
  BY DEF OfDevice, Sendable, Restrict
<1>2. ASSUME NEW s \in DOMAIN goal PROVE Numbered(s, q[s]) = goal[s] /\ Lands(q, s) = s
  <2>1. CASE s \notin Channels
    BY <1>1, <2>1 DEF Numbered, Lands
  <2>2. CASE s \in Channels
    <3>1. Slot(goal[s]) = s[2] /\ s = <<"channels", s[2]>>
      BY <2>2 DEF OfDevice, Channels
    <3>2. Numbered(s, goal[s]) = goal[s]
      BY <3>1 DEF Numbered, Slot
    <3> QED
      BY <1>1, <2>2, <3>1, <3>2 DEF Lands
  <2> QED
    BY <2>1, <2>2
<1>3. Sent(goal) = [t \in {Lands(q, s) : s \in DOMAIN q} \cap Sections |->
                       Numbered(CHOOSE s \in DOMAIN q : Lands(q, s) = t, q[CHOOSE s \in DOMAIN q : Lands(q, s) = t])]
  BY DEF Sent
<1>4. {Lands(q, s) : s \in DOMAIN q} \cap Sections = DOMAIN goal
  BY <1>1, <1>2
<1>5. ASSUME NEW t \in DOMAIN goal PROVE (CHOOSE s \in DOMAIN q : Lands(q, s) = t) = t
  BY <1>1, <1>2
<1> HIDE DEF q
<1> QED
  BY <1>2, <1>3, <1>4, <1>5

(* A payload that a device can report is confirmed by the read after one         *)
(* complete pass, whatever was there: the loop of applyPayloadToDevice converges *)
(* on a silent device (diff.go:195-283, device_config_apply.go:164).            *)
THEOREM ACompletePassConverges ==
  ASSUME NEW base, NEW goal, DOMAIN goal \subseteq Sections, OfDevice(goal)
  PROVE  Diff(ProjectOnto(Overlay(base, Sent(goal)), goal), goal) = {}
<1> DEFINE after == Overlay(base, Sent(goal))
<1>1. DOMAIN goal \subseteq DOMAIN after /\ \A s \in DOMAIN goal : after[s] = goal[s]
  BY ReportsAreTaken DEF Overlay
<1>2. DOMAIN ProjectOnto(after, goal) = DOMAIN goal /\ \A s \in DOMAIN goal : ProjectOnto(after, goal)[s] = goal[s]
  BY <1>1 DEF ProjectOnto, Restrict
<1> HIDE DEF after
<1>3. \A s \in DOMAIN goal : Json(ProjectOnto(after, goal), s) = Json(goal, s)
  BY <1>2 DEF Json
<1>4. Diff(ProjectOnto(after, goal), goal) = {}
  BY <1>2, <1>3 DEF Diff
<1> QED
  BY <1>4 DEF after

------------------------------------------------------------------------------
(* Secrets in an edit *)

\* No secret of p is a placeholder that its source did not have.
Clean(p, source) ==
    \A s \in DOMAIN p : \A f \in SecretFields(s) :
        Hidden(p, s, f) => \E t \in DOMAIN source : Listed(t) = Listed(s) /\ Hidden(source, t, f)

\* A buffer that will be written is clean. One made from a template by a caller
\* who is not elevated is not, and cannot be written.
SecretInv ==
    /\ cmd.verb = "edit" /\ pc \in {"editor", "write", "filling"}
            /\ (cmd.from.kind \in {"device", "file", "mine"} \/ elevated)
        => Clean(buffer, origin)
    /\ cmd.verb = "edit" /\ wrote # NoWrite => Clean(wrote.payload, origin)

\* What is taken out of a clean payload leaves it clean.
LEMMA PartsAreClean ==
  ASSUME NEW p, DOMAIN p \subseteq Sections, NEW source, Clean(p, source), NEW d
  PROVE  Clean(Without(p, d), source)
<1> SUFFICES ASSUME NEW s \in DOMAIN Without(p, d), NEW f \in SecretFields(s), Hidden(Without(p, d), s, f)
             PROVE  \E t \in DOMAIN source : Listed(t) = Listed(s) /\ Hidden(source, t, f)
  BY DEF Clean
<1>1. PICK u \in DOMAIN p : /\ Without(p, d)[s] = p[u] /\ Listed(u) = Listed(s)
                             /\ SecretFields(u) = SecretFields(s)
  BY WithoutHolds
<1>2. Hidden(p, u, f)
  BY <1>1 DEF Hidden
<1> QED
  BY <1>1, <1>2 DEF Clean

LEMMA SourcesAreClean == ASSUME NEW p PROVE Clean(p, p)
  BY DEF Clean, Hidden

LEMMA RevealedIsClean ==
  ASSUME TypeInv, cmd.verb = "edit", NEW r \in Reads,
         cmd.from.kind \in {"device", "file", "mine"} \/ elevated
  PROVE  Clean(r.payload, r.really)
<1>1. CASE cmd.from.kind = "device"
  <2>1. r \in DeviceReads
    BY <1>1 DEF Reads
  <2>2. PICK view \in Views(device) : r = Got(view, {}, device)
    BY <2>1 DEF DeviceReads
  <2>3. r.payload = view /\ r.really = device
    BY <2>2 DEF Got
  <2>4. DOMAIN device \subseteq Sections
    BY DEF TypeInv, TypeOK
  <2> QED
    BY <2>2, <2>3, <2>4, PartsAreClean, SourcesAreClean DEF Views
<1>2. CASE cmd.from.kind # "device" /\ cmd.from.kind = "file"
  <2>1. r.payload = file.payload /\ r.really = file.payload
    BY <1>2 DEF Reads, FileReads, Got
  <2> QED
    BY <2>1, SourcesAreClean
<1>3. CASE cmd.from.kind # "device" /\ cmd.from.kind # "file"
  <2>1. r \in CloudReads(cmd.from, Reveals)
    BY <1>3 DEF Reads
  <2>2. PICK i : r = Got(Shown(i, cmd.from, Reveals), {i}, rows[i].payload)
    BY <2>1 DEF CloudReads
  <2>3. Shown(i, cmd.from, Reveals) = rows[i].payload
    BY <1>3 DEF Shown, Reveals
  <2> QED
    BY <2>2, <2>3, SourcesAreClean DEF Got
<1> QED
  BY <1>1, <1>2, <1>3

LEMMA EditsStayClean ==
  ASSUME \A t \in Typed : \A s \in DOMAIN t : \A f \in SecretFields(s) : ~Hidden(t, s, f),
         DOMAIN buffer \subseteq Sections, Clean(buffer, origin), NEW e \in Edits
  PROVE  Clean(e, origin)
<1>1. CASE e = buffer
  BY <1>1
<1>2. ASSUME NEW d \in DOMAIN buffer, e = Without(buffer, d) PROVE Clean(e, origin)
  BY <1>2, PartsAreClean
<1>3. ASSUME NEW t \in Typed, e = Overlay(buffer, t) PROVE Clean(e, origin)
  <2> SUFFICES ASSUME NEW s \in DOMAIN e, NEW f \in SecretFields(s), Hidden(e, s, f)
               PROVE  \E u \in DOMAIN origin : Listed(u) = Listed(s) /\ Hidden(origin, u, f)
    BY DEF Clean
  <2>1. CASE s \in DOMAIN t
    <3>1. e[s] = t[s]
      BY <1>3, <2>1 DEF Overlay
    <3> QED
      BY <2>1, <3>1 DEF Hidden
  <2>2. CASE s \notin DOMAIN t
    <3>1. s \in DOMAIN buffer /\ e[s] = buffer[s]
      BY <1>3, <2>2 DEF Overlay
    <3> QED
      BY <3>1 DEF Hidden, Clean
  <2> QED
    BY <2>1, <2>2
<1> QED
  BY <1>1, <1>2, <1>3 DEF Edits

LEMMA InitSecret == Init => SecretInv
  BY DEF Init, SecretInv

LEMMA NextSecret ==
  ASSUME \A t \in Typed : \A s \in DOMAIN t : \A f \in SecretFields(s) : ~Hidden(t, s, f),
         TypeInv, FlowInv, SecretInv, [Next]_vars
  PROVE  SecretInv'
<1> USE DEF SecretInv
<1>1. ASSUME UNCHANGED <<cmd, elevated, buffer, origin, wrote>>,
             pc' \in {"editor", "write", "filling"} => pc \in {"editor", "write", "filling"}
      PROVE  SecretInv'
  BY <1>1 DEF Clean, Hidden
<1>2. CASE UNCHANGED vars
  BY <1>1, <1>2 DEF vars
<1>3. ASSUME NEW c \in Commands, Start(c) PROVE SecretInv'
  BY <1>3 DEF Start
<1>4. CASE Resolve
  <2>1. cmd' = cmd /\ wrote' = NoWrite /\ (cmd.verb = "edit" => pc' = "read")
    BY <1>4 DEF Resolve, history, FlowInv
  <2> QED
    BY <2>1
<1>5. CASE Confirm
  BY <1>5 DEF Confirm, history, FlowInv
<1>6. CASE ReadToCopy \/ ReadToShow \/ ReadToPromote
  BY <1>6 DEF ReadToCopy, ReadToShow, ReadToPromote, Receive, FlowInv
<1>7. CASE ReadToEdit
  <2>1. PICK r \in Reads : Receive(r) /\ buffer' = r.payload
    BY <1>7 DEF ReadToEdit
  <2>2. cmd.verb = "edit" /\ wrote' = NoWrite
    BY <1>7, <2>1 DEF ReadToEdit, Receive, FlowInv
  <2>3. ASSUME cmd.from.kind \in {"device", "file", "mine"} \/ elevated
        PROVE  Clean(r.payload, r.really)
    BY <2>2, <2>3, RevealedIsClean
  <2> QED
    BY <2>1, <2>2, <2>3 DEF Receive, Clean, Hidden
<1>8. CASE SaveEdit
  <2>1. PICK e \in Edits : buffer' = buffer \/ buffer' = e
    BY <1>8 DEF SaveEdit
  <2>2. UNCHANGED <<cmd, elevated, origin>> /\ wrote' = NoWrite /\ pc = "editor"
    BY <1>8 DEF SaveEdit, history, FlowInv
  <2>3. ASSUME Clean(buffer, origin) PROVE Clean(buffer, origin)'
    <3>1. Clean(e, origin)
      BY <2>3, EditsStayClean DEF TypeInv, TypeOK
    <3> QED
      BY <2>1, <2>2, <2>3, <3>1 DEF Clean, Hidden
  <2> QED
    BY <2>2, <2>3
<1>9. CASE SavePreview
  BY <1>9 DEF SavePreview, history, FlowInv
<1>10. CASE Preview \/ TruncateFile \/ GiveUp \/ FillPart
  BY <1>1, <1>10 DEF Preview, TruncateFile, Writing, GiveUp, FillPart, End, history
<1>11. CASE FillFile \/ ApplyToDevice \/ Patch
  <2>1. /\ UNCHANGED <<cmd, elevated, buffer, origin>> /\ wrote'.payload = buffer
        /\ pc \in {"write", "filling"} /\ pc' = "idle"
    BY <1>11 DEF FillFile, ApplyToDevice, Patch, Writing, Answered, End, Put
  <2>2. cmd.verb = "edit" => cmd.from.kind \in {"device", "file", "mine"} \/ elevated
    BY <1>11 DEF FillFile, ApplyToDevice, Patch, Writing, Target, InCloud, MayChange, FlowInv
  <2> QED
    BY <2>1, <2>2 DEF Clean, Hidden
<1>12. CASE Upload \/ Delete \/ Promote
  BY <1>12 DEF Upload, Delete, Promote, Writing, Answered, End, Put
<1>13. CASE Others
  BY <1>1, <1>13 DEF Others, Relabel, Rewrite, Create, Remove, ChangeFile, ChangeDevice, Meddle
<1> QED
  BY <1>2, <1>3, <1>4, <1>5, <1>6, <1>7, <1>8, <1>9, <1>10, <1>11, <1>12, <1>13 DEF Next

(* If the operator types no placeholder, an edit writes none that its source     *)
(* did not hold, whatever the role of the caller and wherever the payload came   *)
(* from (device_config_edit.go:124-137, apiclient/device_configs.go:134-191).    *)
THEOREM EditsKeepSecrets ==
  ASSUME \A t \in Typed : \A s \in DOMAIN t : \A f \in SecretFields(s) : ~Hidden(t, s, f)
  PROVE  Spec => []SecretsSurviveEdits
<1>1. SecretInv => SecretsSurviveEdits
  BY DEF SecretInv, SecretsSurviveEdits, Wrote, Clean
<1>2. TypeInv /\ FlowInv /\ SecretInv /\ [Next]_vars => SecretInv'
  BY NextSecret
<1> QED
  BY InitType, NextType, InitFlow, NextFlow, InitSecret, <1>1, <1>2, PTL DEF Spec
-----------------------------------------------------------------------------
(* The row that is changed                                                 *)

\* The row that will be written bore the label, and an edit read it: it resolves the
\* label a second time to the same row unless somebody moved a label in between.
RowInv ==
    /\ pc # "idle" => cfgID \subseteq bearers
    /\ pc # "idle" /\ InCloud(cmd.from) => Matches(cmd.from) \subseteq bearers
    /\ pc # "idle" /\ cmd.verb = "edit" /\ InCloud(cmd.from) /\ "names" \notin outside =>
        /\ pc = "read" => cfgID = {First(Matches(cmd.from))}
        /\ pc \in {"editor", "write"} => cfgID = readFrom
    /\ RightRow

LEMMA InitRow == Init => RowInv
  BY DEF Init, RowInv, RightRow, Wrote

LEMMA NextRow == TypeInv /\ FlowInv /\ RowInv /\ [Next]_vars => RowInv'
<1> SUFFICES ASSUME TypeInv, FlowInv, RowInv, [Next]_vars PROVE RowInv'
  OBVIOUS
<1> USE DEF RowInv
\* What leaves the labels, or only widens what bore the label, keeps the claims.
<1>m. rows' = rows => \A src : Matches(src)' = Matches(src)
  BY DEF Matches, Bears
<1>r. UNCHANGED <<cmd, readFrom, wrote>> /\ bearers \subseteq bearers' /\ outside \subseteq outside'
        => RightRow'
  BY DEF RightRow, Wrote
<1>n. wrote' = NoWrite => RightRow'
  BY DEF RightRow, Wrote
<1>1. CASE UNCHANGED vars
  BY <1>1, <1>m, <1>r DEF vars
<1>2. ASSUME NEW c \in Commands, Start(c) PROVE RowInv'
  <2>1. rows' = rows /\ cmd' = c /\ cfgID' = {} /\ wrote' = NoWrite
        /\ (InCloud(c.from) => bearers' = Matches(c.from))
        /\ (c.verb = "edit" /\ InCloud(c.from) => pc' = "resolve")
    BY <1>2 DEF Start, NeedsID, world
  <2> QED
    BY <1>m, <1>n, <2>1
<1>3. CASE Resolve
  <2>1. First(Matches(cmd.from)) \in Matches(cmd.from)
    BY <1>3, FirstIsListed DEF Resolve, Matches
  <2>2. InCloud(cmd.from)
    BY <1>3, TransferAssumption DEF Resolve, Matches, Bears, TypeInv, RowsTyped, IsRow, InCloud
  <2>3. /\ UNCHANGED <<rows, cmd, readFrom, bearers, outside, wrote>> /\ pc = "resolve"
        /\ cfgID' = {First(Matches(cmd.from))} /\ (cmd.verb = "edit" => pc' = "read")
    BY <1>3 DEF Resolve, world, history, FlowInv
  <2> QED
    BY <1>m, <1>r, <2>1, <2>2, <2>3
<1>4. CASE Confirm
  BY <1>4, <1>m, <1>r DEF Confirm, world, history, FlowInv
<1>5. CASE ReadToCopy \/ ReadToShow \/ ReadToPromote
  <2>1. /\ UNCHANGED <<rows, cmd, cfgID, bearers, outside, wrote>> /\ cmd.verb # "edit" /\ pc = "read"
    BY <1>5 DEF ReadToCopy, ReadToShow, ReadToPromote, Receive, world
  <2>2. wrote' = NoWrite
    BY <2>1 DEF FlowInv
  <2> QED
    BY <1>m, <1>n, <2>1, <2>2
<1>6. CASE ReadToEdit
  <2>1. PICK r \in Reads : Receive(r)
    BY <1>6 DEF ReadToEdit
  <2>2. InCloud(cmd.from) => r.row = {First(Matches(cmd.from))}
    BY ReadsAreTyped
  <2>3. /\ UNCHANGED <<rows, cmd, cfgID, bearers, outside, wrote>> /\ pc = "read" /\ pc' = "editor"
        /\ readFrom' = r.row
    BY <1>6, <2>1 DEF ReadToEdit, Receive, world
  <2>4. wrote' = NoWrite
    BY <2>3 DEF FlowInv
  <2> QED
    BY <1>m, <1>n, <2>2, <2>3, <2>4
<1>7. CASE SaveEdit \/ SavePreview \/ Preview \/ GiveUp \/ FillPart
  <2>1. /\ UNCHANGED <<rows, cmd, cfgID, bearers, outside, wrote, readFrom>>
        /\ pc' = "idle" \/ (pc = "editor" /\ pc' = "write")
    BY <1>7 DEF SaveEdit, SavePreview, Preview, GiveUp, FillPart, End, world, history
  <2> QED
    BY <1>7, <1>m, <1>r, <2>1
<1>8. CASE TruncateFile
  <2>1. /\ UNCHANGED <<rows, cmd, cfgID, bearers, outside, wrote, readFrom>>
        /\ pc = "write" /\ pc' = "filling"
    BY <1>8 DEF TruncateFile, Writing, history
  <2> QED
    BY <1>m, <1>r, <2>1
<1>9. CASE FillFile \/ ApplyToDevice \/ Upload \/ Promote
  <2>1. pc' = "idle" /\ cmd' = cmd
    BY <1>9 DEF FillFile, ApplyToDevice, Upload, Promote, End, Answered, Put
  <2>2. wrote'.place \in {"file", "device", "new"}
    BY <1>9 DEF FillFile, ApplyToDevice, Upload, Promote, Put
  <2> QED
    BY <2>1, <2>2 DEF RightRow, Wrote
<1>10. CASE Patch
  <2>1. PICK i \in cfgID : Put("row", {i}, buffer)
    BY <1>10 DEF Patch
  <2>2. /\ UNCHANGED <<cmd, cfgID, bearers, outside, readFrom>> /\ wrote'.id = {i} /\ pc' = "idle"
    BY <1>10, <2>1 DEF Patch, Put, Answered, End
  <2>3. pc = "write" /\ cmd.verb = "edit" /\ InCloud(cmd.from)
    BY <1>10 DEF Patch, Writing, Target
  <2>4. cfgID = {i}
    BY <2>1 DEF TypeInv
  <2> QED
    BY <2>2, <2>3, <2>4 DEF RightRow, Wrote
<1>11. CASE Delete
  <2>1. PICK i \in cfgID : Put("gone", {i}, NoSections)
    BY <1>11 DEF Delete
  <2>2. /\ UNCHANGED <<cmd, bearers>> /\ wrote'.id = {i} /\ pc' = "idle"
    BY <1>11, <2>1 DEF Delete, Put, Answered, End
  <2>3. pc = "write" /\ cmd.verb = "delete"
    BY <1>11 DEF Delete, Writing
  <2> QED
    BY <2>1, <2>2, <2>3 DEF RightRow, Wrote
<1>12. CASE Others
  <2>1. UNCHANGED <<cmd, pc, cfgID, readFrom, wrote>> /\ outside \subseteq outside' /\ bearers \subseteq bearers'
    BY <1>12 DEF Others, Relabel, Rewrite, Create, Remove, ChangeFile, ChangeDevice, Meddle
  <2>2. RightRow'
    BY <1>r, <2>1
  <2>3. ASSUME NEW i \in Ids, NEW l \in Labels, Relabel(i, l) PROVE RowInv'
    <3>1. /\ \A j \in Ids : j # i => rows'[j] = rows[j]
          /\ rows'[i] = [owner |-> rows[i].owner, label |-> l, payload |-> rows[i].payload]
      BY <2>3, PutLabelTyped DEF Relabel, TypeInv
    <3>2. "names" \in outside'
      BY <2>3 DEF Relabel, Meddle
    <3>3. pc # "idle" => cmd # NoCommand
      BY TransferAssumption DEF TypeInv
    <3>4. ASSUME pc # "idle", NEW j \in Matches(cmd.from)', j \notin bearers PROVE j \in Matches(cmd.from) \/ j \in bearers'
      <4>1. CASE j = i
        BY <2>1, <2>3, <3>1, <3>3, <3>4, <4>1 DEF Matches, Bears, Relabel
      <4>2. CASE j # i
        BY <2>1, <3>1, <3>4, <4>2 DEF Matches, Bears
      <4> QED
        BY <4>1, <4>2
    <3> QED
      BY <2>1, <2>2, <3>2, <3>4
  <2>4. ASSUME NEW i \in Ids, NEW p \in Contents, Rewrite(i, p) PROVE RowInv'
    <3>1. /\ \A j \in Ids : j # i => rows'[j] = rows[j]
          /\ rows'[i] = [owner |-> rows[i].owner, label |-> rows[i].label, payload |-> p]
          /\ rows[i].owner \in {"mine", "template"} /\ rows[i] # NoRow
      <4>1. DOMAIN p \subseteq Sections
        BY TransferAssumption
      <4>2. RowsTyped /\ rows[i] # NoRow /\ rows' = [rows EXCEPT ![i].payload = p]
        BY <2>4 DEF Rewrite, TypeInv
      <4> QED
        BY <4>1, <4>2, PutPayloadTyped
    <3>2. rows'[i] # NoRow
      BY <3>1, NoRowIsNobodys
    <3>3. Matches(cmd.from)' = Matches(cmd.from)
      BY <2>1, <3>1, <3>2 DEF Matches, Bears
    <3> QED
      BY <2>1, <2>2, <3>3
  <2>5. ASSUME NEW p, ChangeFile(p) \/ ChangeDevice(p) PROVE RowInv'
    <3>1. rows' = rows
      BY <2>5 DEF ChangeFile, ChangeDevice
    <3> QED
      BY <1>m, <2>1, <2>2, <3>1
  <2>6. ASSUME NEW i \in Ids, NEW r, r = NoRow \/ r \in Rows, Create(i, r) \/ (r = NoRow /\ Remove(i)) PROVE RowInv'
    <3>1. r = NoRow \/ IsRow(r)
      BY <2>6, TransferAssumption DEF Rows, IsRow
    <3>2. rows'[i] = r /\ \A j \in Ids : j # i => rows'[j] = rows[j]
      BY <2>6, <3>1, PutRow DEF Create, Remove, TypeInv
    <3>3. "names" \in outside'
      BY <2>6 DEF Create, Remove, Meddle
    <3>4. pc # "idle" => cmd # NoCommand
      BY TransferAssumption DEF TypeInv
    <3>5. ASSUME pc # "idle", NEW j \in Matches(cmd.from)', j \notin bearers PROVE j \in Matches(cmd.from) \/ j \in bearers'
      <4>1. CASE j = i
        BY <2>1, <2>6, <3>2, <3>4, <3>5, <4>1 DEF Matches, Bears, Create
      <4>2. CASE j # i
        BY <2>1, <3>2, <3>5, <4>2 DEF Matches, Bears
      <4> QED
        BY <4>1, <4>2
    <3> QED
      BY <2>1, <2>2, <3>3, <3>5
  <2> QED
    BY <1>12, <2>3, <2>4, <2>5, <2>6 DEF Others
<1> QED
  BY <1>1, <1>2, <1>3, <1>4, <1>5, <1>6, <1>7, <1>8, <1>9, <1>10, <1>11, <1>12 DEF Next

(* edit and delete never touch a row that did not bear the label they were given, and    *)
(* an edit sends back the row it read unless a label moved while the editor was open,    *)
(* although it resolves the label twice (device_config_edit.go:108, device_config.go:154). *)
THEOREM TheRightRowIsChanged == Spec => []RightRow
<1>1. RowInv => RightRow
  BY DEF RowInv
<1> QED
  BY InitFlow, NextFlow, InitType, NextType, InitRow, NextRow, <1>1, PTL DEF Spec

------------------------------------------------------------------------------
(* Success *)

\* A verdict is the last word of a command, and a success is a write that holds.
VerdictInv ==
    /\ verdict \in {"done", "unchanged", "preview"} => pc = "idle"
    /\ verdict = "done" => wrote.place \in Places /\ (outside = {} => Held(wrote))
    /\ verdict \in {"unchanged", "preview"} => wrote = NoWrite

LEMMA InitVerdict == Init => VerdictInv
  BY DEF Init, VerdictInv

LEMMA NextVerdict == TypeInv /\ FlowInv /\ VerdictInv /\ [Next]_vars => VerdictInv'
<1> SUFFICES ASSUME TypeInv, FlowInv, VerdictInv, [Next]_vars PROVE VerdictInv'
  OBVIOUS
<1> USE DEF VerdictInv
<1>1. CASE UNCHANGED vars
  BY <1>1 DEF vars, Held, Parses, Parser, Mismatched
<1>2. ASSUME verdict' \in {"none", "failed"} PROVE VerdictInv'
  BY <1>2
<1>3. ASSUME pc # "idle", verdict' = verdict PROVE VerdictInv'
  BY <1>2, <1>3 DEF TypeInv, TypeOK
<1>4. ASSUME NEW c \in Commands, Start(c) PROVE VerdictInv'
  BY <1>2, <1>4 DEF Start
<1>5. CASE Resolve \/ Confirm \/ TruncateFile
  BY <1>3, <1>5 DEF Resolve, Confirm, TruncateFile, Writing
<1>6. CASE ReadToCopy \/ ReadToShow \/ ReadToEdit \/ ReadToPromote
  BY <1>2, <1>3, <1>6 DEF ReadToCopy, ReadToShow, ReadToEdit, ReadToPromote, End
<1>7. CASE SaveEdit \/ SavePreview
  BY <1>2, <1>3, <1>7 DEF SaveEdit, SavePreview, End, history, FlowInv
<1>8. CASE Preview \/ GiveUp \/ FillPart
  BY <1>2, <1>8 DEF Preview, GiveUp, FillPart, Writing, End, history, FlowInv
\* A file that an edit fills is read as what was written; the others' format may not fit.
<1>9. CASE FillFile
  <2>1. /\ wrote' = [place |-> "file", id |-> {}, payload |-> buffer] /\ pc' = "idle" /\ verdict' = "done"
        /\ cmd' = cmd /\ pc = "filling"
    BY <1>9 DEF FillFile, Put, End
  <2>2. file' = [ext |-> file.ext, form |-> Form, payload |-> buffer]
        /\ file.ext \in {"yaml", "json", "none"}
    BY <1>9 DEF FillFile, TypeInv, TypeOK, IsFile
  <2>3. cmd.output \in {"yaml", "json", "tree"}
    BY <2>1, TransferAssumption DEF TypeInv
  <2>4. Parses(file)' \/ (cmd.verb # "edit" /\ Mismatched)'
    BY <2>1, <2>2, <2>3 DEF Parses, Parser, Mismatched, Form
  <2> QED
    BY <2>1, <2>2, <2>4 DEF Held, Places
\* What some read of the device showed left nothing unsent.
<1>10. CASE ApplyToDevice
  <2>1. wrote' = [place |-> "device", id |-> {}, payload |-> buffer] /\ pc' = "idle"
    BY <1>10 DEF ApplyToDevice, Put, End
  <2>2. CASE verdict' = "done"
    <3>1. PICK view \in Views(Overlay(device, Sent(buffer))) : Diff(ProjectOnto(view, buffer), buffer) = {}
      BY <1>10, <2>2 DEF ApplyToDevice, End
    <3>2. DOMAIN view \subseteq Sections \ Personal
      <4>1. DOMAIN Overlay(device, Sent(buffer)) \subseteq Sections \ Personal
        BY SentIsTyped DEF Overlay, TypeInv, TypeOK
      <4> QED
        BY <4>1, WithoutIsPart DEF Views
    <3>3. ASSUME NEW s \in DOMAIN buffer \cap Personal PROVE buffer[s] = Null
      <4>1. s \notin DOMAIN ProjectOnto(view, buffer)
        BY <3>2 DEF ProjectOnto, Restrict
      <4>2. Json(ProjectOnto(view, buffer), s) = Json(buffer, s)
        BY <3>1 DEF Diff
      <4> QED
        BY <4>1, <4>2 DEF Json
    <3> QED
      BY <2>1, <2>2, <3>3 DEF Held, Places
  <2>3. CASE verdict' = "failed"
    BY <1>2, <2>3
  <2> QED
    BY <1>10, <2>2, <2>3 DEF ApplyToDevice, End
\* A request to the cloud is answered or not, and its row is what was sent.
<1>11. ASSUME NEW i \in Ids, NEW r, IsRow(r), rows'[i] = r,
              NEW place \in {"row", "new"}, Put(place, {i}, r.payload), Answered
       PROVE  VerdictInv'
  <2>1. rows'[i] # NoRow
    BY <1>11, NoRowIsNobodys DEF IsRow
  <2>2. wrote' = [place |-> place, id |-> {i}, payload |-> r.payload] /\ pc' = "idle"
        /\ verdict' \in {"done", "failed"}
    BY <1>11 DEF Put, Answered, End
  <2> QED
    BY <1>11, <2>1, <2>2 DEF Held, Places
<1>12. CASE Upload
  <2>1. PICK i \in Ids :
            /\ rows' = [rows EXCEPT ![i] = [owner |-> "mine", label |-> Target.label, payload |-> buffer]]
            /\ Put("new", {i}, buffer)
    BY <1>12 DEF Upload
  <2> DEFINE r == [owner |-> "mine", label |-> Target.label, payload |-> buffer]
  <2>2. IsRow(r) /\ r.payload = buffer
    BY DEF IsRow, TypeInv, TypeOK
  <2>3. rows' = [rows EXCEPT ![i] = r]
    BY <2>1
  <2> HIDE DEF r
  <2>4. rows'[i] = r
    BY <2>2, <2>3, PutRow DEF TypeInv
  <2> QED
    BY <1>11, <1>12, <2>1, <2>2, <2>4 DEF Upload
<1>13. CASE Patch
  <2>1. PICK i \in cfgID :
            MayChange(i, cmd.from) /\ rows' = [rows EXCEPT ![i].payload = buffer] /\ Put("row", {i}, buffer)
    BY <1>13 DEF Patch
  <2> DEFINE r == [owner |-> rows[i].owner, label |-> rows[i].label, payload |-> buffer]
  <2>2. i \in Ids /\ rows[i] # NoRow /\ DOMAIN buffer \subseteq Sections
    BY <2>1 DEF MayChange, TypeInv, TypeOK
  <2>3. rows'[i] = r /\ rows[i].owner \in {"mine", "template"}
    BY <2>1, <2>2, PutPayloadTyped DEF TypeInv
  <2>4. IsRow(r) /\ r.payload = buffer
    BY <2>2, <2>3 DEF IsRow
  <2> HIDE DEF r
  <2> QED
    BY <1>11, <1>13, <2>1, <2>2, <2>3, <2>4 DEF Patch
<1>14. CASE Delete
  <2>1. PICK i \in cfgID : rows' = [rows EXCEPT ![i] = NoRow] /\ Put("gone", {i}, NoSections)
    BY <1>14 DEF Delete
  <2>2. i \in Ids
    BY <2>1 DEF TypeInv
  <2>3. rows'[i] = NoRow
    BY <2>1, <2>2, PutRow DEF TypeInv
  <2>4. wrote' = [place |-> "gone", id |-> {i}, payload |-> NoSections] /\ pc' = "idle"
        /\ verdict' \in {"done", "failed"}
    BY <1>14, <2>1 DEF Delete, Put, Answered, End
  <2> QED
    BY <2>3, <2>4 DEF Held, Places
<1>15. CASE Promote
  <2>1. PICK i \in cfgID, n \in Ids :
            LET staged == FilterPromoteSections(rows[i].payload, IF include = {} THEN SafeSections ELSE include)
            IN  /\ MayChange(i, cmd.from)
                /\ rows' = [rows EXCEPT ![n] = [owner |-> "template", label |-> cmd.to.label, payload |-> staged]]
                /\ Put("new", {n}, staged)
    BY <1>15 DEF Promote
  <2> DEFINE staged == FilterPromoteSections(rows[i].payload, IF include = {} THEN SafeSections ELSE include)
             r == [owner |-> "template", label |-> cmd.to.label, payload |-> staged]
  <2>2. i \in Ids /\ rows[i] # NoRow
    BY <2>1 DEF MayChange, TypeInv
  <2>3. DOMAIN staged \subseteq Sections
    BY <2>2, Domains DEF TypeInv, RowsTyped, IsRow
  <2>4. rows' = [rows EXCEPT ![n] = r] /\ Put("new", {n}, staged)
    BY <2>1
  <2>5. IsRow(r) /\ r.payload = staged
    BY <2>3 DEF IsRow
  <2> HIDE DEF r, staged
  <2>6. rows'[n] = r
    BY <2>4, <2>5, PutRow DEF TypeInv
  <2> QED
    BY <1>11, <1>15, <2>4, <2>5, <2>6 DEF Promote
\* Whatever others do, they leave a mark, and the verdict.
<1>16. CASE Others
  <2>1. UNCHANGED <<pc, verdict, wrote>> /\ outside' # {}
    BY <1>16 DEF Others, Relabel, Rewrite, Create, Remove, ChangeFile, ChangeDevice, Meddle
  <2> QED
    BY <2>1
<1> QED
  BY <1>1, <1>4, <1>5, <1>6, <1>7, <1>8, <1>9, <1>10, <1>12, <1>13, <1>14, <1>15, <1>16 DEF Next

(* What a command that reports success has written to the cloud holds, and a file gives  *)
(* it back, for an edit always and for get and copy if --output goes with the extension, *)
(* until somebody else writes; a device is only claimed for a payload without anything   *)
(* that is never sent; a preview and an unchanged edit have written nothing              *)
(* (device_config_apply.go:164, device_config_copy.go:134-169, file.go:55-84).           *)
THEOREM SuccessHolds == Spec => []DoneMeansHeld
<1>1. VerdictInv => DoneMeansHeld
  BY DEF VerdictInv, DoneMeansHeld, Places, NoWrite
<1> QED
  BY InitFlow, NextFlow, InitType, NextType, InitVerdict, NextVerdict, <1>1, PTL DEF Spec
=============================================================================
