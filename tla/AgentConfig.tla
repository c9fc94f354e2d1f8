---------------------------- MODULE AgentConfig ----------------------------
(***************************************************************************)
(* How a verb of `rmesh agent` arrives at its configuration: config.yaml,  *)
(* then the --set pairs in the order given, then the typed flags of the    *)
(* verb's sections, then validation and defaults.                          *)
(*                                                                         *)
(* A configuration maps every leaf path of the yaml tree to a value.  The  *)
(* text of a value is kept only as far as the code tells values apart;     *)
(* durations are literals that Seconds measures.                           *)
(***************************************************************************)
EXTENDS Integers, Sequences, FiniteSets

CONSTANTS
    LabelKeys,                       \* label keys, and which of them
    Dotted, Reserved, BadKeys,       \* have a dot, start with "relaymesh.", are ill-sized
    LongValues, MaxLabels,           \* label values over 256 characters; 32
    GoodPins,                        \* six to eight digits
    Seconds,                         \* duration literals -> seconds
    Strings,                         \* the string values in play
    Contents,                        \* what the editor may leave in the file
    Pairs,                           \* --set arguments, <<path, text>>
    FlagArgs,                        \* typed flags given: functions on sets of leaves
    MaxPairs, MaxEdits               \* bounds of the model

Cadences     == {"nodeinfo", "position", "mapreport"}
Synth(k, f)  == <<"synthesise", k, f>>
Poll         == <<"synthesise", "nodedb_poll">>
Refresh      == <<"metrics", "nodedb_refresh_interval">>
Respect      == <<"forward", "respect_ok_to_mqtt">>
MetricsOn    == <<"metrics", "enabled">>
AgentId      == <<"agent_id">>
Url          == <<"transport", "url">>
Pin          == <<"transport", "ble_pin">>
ClientId     == <<"mqtt", "client_id">>
ListenAddr   == <<"metrics", "listen_addr">>
Credentials  == {<<"mqtt", f>> : f \in {"broker_url", "topic_prefix", "username", "password"}}
LabelLeaves  == {<<"labels", k>> : k \in LabelKeys}
StringLeaves == {AgentId, Url, Pin, ClientId, ListenAddr} \cup Credentials
TimeLeaves   == {Poll, Refresh} \cup {Synth(k, f) : k \in Cadences, f \in {"interval", "jitter"}}
BoolLeaves   == {MetricsOn} \cup {Synth(k, f) : k \in Cadences,
                                    f \in {"enabled", "on_first_seen", "respect_position_precision"}}
Leaves       == StringLeaves \cup TimeLeaves \cup BoolLeaves \cup {Respect} \cup LabelLeaves

Durations == DOMAIN Seconds
Bools     == {"true", "false"}

Texts     == Strings \cup Durations \cup Bools \cup {"nil", "absent"}

\* What a leaf can hold, and what it holds when nobody set it.
Values == [p \in Leaves |-> {v \in Texts :
                            /\ p \in StringLeaves => v \in Strings
                            /\ p \in TimeLeaves => v \in Durations
                            /\ p \in BoolLeaves => v \in Bools
                            /\ p = Respect => v \in Bools \cup {"nil"}
                            /\ p \in LabelLeaves => v \in Strings \cup {"absent"}}]
Zero(p)   == IF p \in TimeLeaves THEN "0s" ELSE IF p \in BoolLeaves THEN "false"
             ELSE IF p = Respect THEN "nil" ELSE IF p \in LabelLeaves THEN "absent" ELSE ""
Configs   == {c \in [Leaves -> Texts] : \A p \in Leaves : c[p] \in Values[p]}

ASSUME AgentConfigAssumption ==
    /\ Reserved \subseteq Dotted /\ Dotted \subseteq LabelKeys /\ BadKeys \subseteq LabelKeys
    /\ LongValues \subseteq Strings /\ GoodPins \subseteq Strings
    /\ {"", "blank", "set", "local", "123456", "rmesh-", "127.0.0.1:9090"} \subseteq Strings
    /\ {"nil", "absent"} \cap (Strings \cup Durations \cup Bools) = {}
    /\ \A d \in Durations : Seconds[d] \in Int
    /\ {"0s", "10s", "5m", "30m", "6h"} \subseteq Durations
    /\ Seconds["0s"] = 0 /\ \A d \in {"10s", "5m", "30m", "6h"} : Seconds[d] > 0
    /\ Contents \subseteq Configs /\ Pairs \subseteq Seq(STRING) \X Texts
    /\ \A f \in FlagArgs : DOMAIN f \subseteq Leaves /\ \A p \in DOMAIN f : f[p] \in Texts
    /\ {MaxLabels, MaxPairs, MaxEdits} \subseteq Nat

VARIABLES
    disk,      \* config.yaml: "missing", "unparsable" or "ok"
    doc,       \* what it decodes to when "ok"
    edits,     \* `config edit` sessions so far (bounded)
    pc,        \* "idle", "stat", "read", "set", "flags", "finalize", "ready", "refused"; "started"
               \* when the verb has taken the configuration over (AgentProcess)
    verb,      \* "run", "observe" or "doctor"
    pairs,     \* --set, in the order given
    flags,     \* the typed flags that were given
    next,      \* index of the next --set pair
    cfg,       \* the configuration under construction
    read       \* history: what LoadRaw returned

file    == <<disk, doc, edits>>
command == <<verb, pairs, flags>>
cvars   == <<file, pc, command, next, cfg, read>>

Nothing == [p \in Leaves |-> Zero(p)]

\* c with the leaves that the pairs S name.
Filled(S, c) == [p \in Leaves |-> IF \E d \in S : d[1] = p
                                 THEN (CHOOSE d \in S : d[1] = p)[2] ELSE c[p]]

Init ==
    /\ disk \in {"missing", "unparsable", "ok"}
    /\ doc \in (IF disk = "ok" THEN Contents ELSE {Nothing})
    /\ edits = 0 /\ pc = "idle" /\ verb = "run" /\ pairs = <<>>
    /\ flags = [p \in {} |-> ""] /\ next = 1 /\ cfg = Nothing /\ read = Nothing

-----------------------------------------------------------------------------
(* `rmesh config edit`, perhaps in another terminal.  The file is read     *)
(* once, so an edit matters until then.                                    *)

Unread == pc \in {"idle", "stat", "read"} /\ edits < MaxEdits

\* The template has no credentials, so what it decodes to does not validate.
Written  == {<<AgentId, "local">>, <<Url, "set">>, <<<<"mqtt", "broker_url">>, "set">>, <<Poll, "5m">>,
             <<Synth("nodeinfo", "on_first_seen"), "true">>,
             <<Synth("position", "on_first_seen"), "true">>}
            \cup {<<Synth(k, "interval"), IF k = "position" THEN "30m" ELSE "6h">> : k \in Cadences}
            \cup {<<Synth(k, "enabled"), "true">> : k \in Cadences}
Template == Filled(Written, Nothing)

EnsureAgentConfigFile ==
    /\ disk = "missing" /\ Unread
    /\ edits' = edits + 1
    /\ \/ disk' = "ok" /\ doc' = Template
       \/ UNCHANGED <<disk, doc>>              \* no directory, or no permission
    /\ UNCHANGED <<pc, command, next, cfg, read>>

EditorSaves ==
    /\ disk # "missing" /\ Unread
    /\ edits' = edits + 1
    /\ \/ disk' = "ok" /\ doc' \in Contents
       \/ disk' = "unparsable" /\ doc' = Nothing
    /\ UNCHANGED <<pc, command, next, cfg, read>>

-----------------------------------------------------------------------------
(* loadAgentConfig.                                                        *)

\* The typed flags of each section, and the sections of each verb.
SectionFlags(s) ==
    CASE s = "identity"   -> {AgentId}
      [] s = "transport"  -> {Url, Pin}
      [] s = "mqtt"       -> Credentials \cup {ClientId}
      [] s = "forward"    -> {Respect}
      [] s = "synthesise" -> {Poll, Synth("position", "respect_position_precision")}
                             \cup {Synth(k, f) : k \in Cadences,
                                     f \in {"enabled", "interval", "on_first_seen", "jitter"}}
      [] s = "labels"     -> LabelLeaves
      [] s = "metrics"    -> {MetricsOn, ListenAddr, Refresh}
Sections(v) == {"identity", "transport", "synthesise", "labels", "metrics"}
               \cup (IF v = "observe" THEN {} ELSE {"mqtt"})
               \cup (IF v = "doctor" THEN {} ELSE {"forward"})
FlagsOf(v)  == UNION {SectionFlags(s) : s \in Sections(v)}

\* The command line a user types: a flag outside the verb's sections, or one
\* whose value does not parse, never gets this far.
Invoke ==
    /\ pc = "idle" /\ pc' = "stat"
    /\ verb' \in {"run", "observe", "doctor"}
    /\ \E n \in 0 .. MaxPairs : pairs' \in [1 .. n -> Pairs]
    /\ flags' \in {f \in FlagArgs : /\ DOMAIN f \subseteq FlagsOf(verb')
                                    /\ \A p \in DOMAIN f : f[p] \in Values[p] \ {"nil", "absent"}}
    /\ next' = 1
    /\ UNCHANGED <<file, cfg, read>>

Refuse == pc' = "refused" /\ UNCHANGED <<next, cfg>>

Stat ==
    /\ pc = "stat"
    /\ IF disk = "missing" THEN Refuse ELSE pc' = "read" /\ UNCHANGED <<next, cfg>>
    /\ UNCHANGED <<file, command, read>>

LoadRaw ==
    /\ pc = "read"
    /\ IF disk # "ok" THEN Refuse /\ UNCHANGED read
       ELSE pc' = "set" /\ cfg' = doc /\ read' = doc /\ UNCHANGED next
    /\ UNCHANGED <<file, command>>

\* setOnePath: a leaf takes a text of its kind, a key below labels any text;
\* every other path is an error.  The path is split at its dots, a label's too.
Path(i) == pairs[i][1]
Text(i) == pairs[i][2]
Bug_TextNotParsed(i) == Path(i) \in Leaves /\ Text(i) \in Texts
Settable(i) == /\ Path(i) \in Leaves \ {<<"labels", key>> : key \in Dotted}
               /\ Text(i) \in Values[Path(i)] \ {"nil", "absent"}

Bug_AssignOnce(i) == cfg' = IF cfg[Path(i)] = Zero(Path(i)) THEN [cfg EXCEPT ![Path(i)] = Text(i)] ELSE cfg
AssignScalar(i) == cfg' = [cfg EXCEPT ![Path(i)] = Text(i)]

ApplySetPaths ==
    /\ pc = "set"
    /\ \/ next > Len(pairs) /\ pc' = "flags" /\ UNCHANGED <<next, cfg>>
       \/ /\ next <= Len(pairs) /\ Settable(next)
          /\ AssignScalar(next) /\ next' = next + 1 /\ UNCHANGED pc
       \/ next <= Len(pairs) /\ ~Settable(next) /\ Refuse
    /\ UNCHANGED <<file, command, read>>

\* --ignore-ok-to-mqtt sets the opposite of what it is named for.
Negated(b)   == IF b = "true" THEN "false" ELSE "true"
FlagSays(p)  == IF p = Respect THEN Negated(flags[p]) ELSE flags[p]

Overridden == [p \in Leaves |-> IF p \in DOMAIN flags THEN FlagSays(p) ELSE cfg[p]]

\* overridesFromSections, then Overrides.Apply.
ApplyFlags ==
    /\ pc = "flags"
    /\ IF <<"labels", "">> \in DOMAIN flags THEN Refuse
       ELSE pc' = "finalize" /\ cfg' = Overridden /\ UNCHANGED next
    /\ UNCHANGED <<file, command, read>>

Blank(v)   == v \in {"", "blank"}
Labels(c)  == {k \in LabelKeys : c[<<"labels", k>>] # "absent"}
Validates(c) ==
    /\ ~Blank(c[Url]) /\ \A p \in Credentials : ~Blank(c[p])
    /\ Blank(c[Pin]) \/ c[Pin] \in GoodPins
    /\ Cardinality(Labels(c)) <= MaxLabels
    /\ Labels(c) \cap (Reserved \cup BadKeys) = {}
    /\ \A k \in Labels(c) : c[<<"labels", k>>] \notin LongValues
    /\ Seconds[c[Refresh]] > 0 => Seconds[c[Refresh]] >= Seconds["10s"]

\* What an empty value becomes; the agent_id follows "rmesh-".
Defaults == {<<AgentId, "local">>, <<Pin, "123456">>, <<ClientId, "rmesh-">>, <<Respect, "true">>,
             <<ListenAddr, "127.0.0.1:9090">>, <<Poll, "5m">>}
            \cup {<<Synth(k, "interval"), IF k = "position" THEN "30m" ELSE "6h">> : k \in Cadences}
Empty(v) == v \in {"", "nil"} \/ (v \in Durations /\ Seconds[v] = 0)

\* applyCadenceDefaults also switches a kind without an interval ON, and nodeinfo
\* is always emitted at first sight.
Forced(c) == {Synth(k, "enabled") : k \in {x \in Cadences : Empty(c[Synth(x, "interval")])}}
             \cup {Synth("nodeinfo", "on_first_seen")}

\* applyDefaults.
Defaulted(c) ==
    [p \in Leaves |->
        IF p \in Forced(c) THEN "true"
        ELSE IF Empty(c[p]) THEN Filled(Defaults, c)[p] ELSE c[p]]

Finalize ==
    /\ pc = "finalize"
    /\ IF Validates(cfg)
       THEN pc' = "ready" /\ cfg' = Defaulted(cfg) /\ UNCHANGED next
       ELSE Refuse
    /\ UNCHANGED <<file, command, read>>

\* What the metrics refresher uses.
EffectiveNodeDBRefreshInterval == IF Seconds[cfg[Refresh]] > 0 THEN cfg[Refresh] ELSE cfg[Poll]

Edit == EnsureAgentConfigFile \/ EditorSaves
Load == Stat \/ LoadRaw \/ ApplySetPaths \/ ApplyFlags \/ Finalize
Next == Edit \/ Invoke \/ Load
Spec == Init /\ [][Next]_cvars

-----------------------------------------------------------------------------
(* Properties.                                                             *)

TypeOK ==
    /\ disk \in {"missing", "unparsable", "ok"} /\ doc \in Configs /\ edits \in 0 .. MaxEdits
    /\ pc \in {"idle", "stat", "read", "set", "flags", "finalize", "ready", "refused", "started"}
    /\ verb \in {"run", "observe", "doctor"} /\ pairs \in Seq(Pairs) /\ next \in 1 .. Len(pairs) + 1
    /\ flags \in FlagArgs \cup {[p \in {} |-> ""]} /\ cfg \in Configs /\ read \in Configs

\* v is what the command line and the file say of p: the typed flag, else the
\* last --set of the first n that names it, else the file.
SetSays(p, n, v) ==
    \/ \E j \in 1 .. n : Path(j) = p /\ Text(j) = v /\ \A k \in j + 1 .. n : Path(k) # p
    \/ (\A j \in 1 .. n : Path(j) # p) /\ v = read[p]
Says(p, v) == IF p \in DOMAIN flags THEN v = FlagSays(p) ELSE SetSays(p, Len(pairs), v)

\* A verb runs with what its user said, and the words rank flag, --set, file
\* (agent_config.go:13, docs/configure.md:154).  Only an empty value is replaced, by
\* a default; except that a kind whose interval was left out is enabled whatever
\* `enabled` says, and nodeinfo's on_first_seen is never off.
Replaceable(p, v) ==
    \/ Empty(v) \/ p = Synth("nodeinfo", "on_first_seen")
    \/ \E k \in Cadences : p = Synth(k, "enabled") /\ \E w \in Durations :
                              Says(Synth(k, "interval"), w) /\ Empty(w)
LastWordCounts ==
    pc = "ready" => /\ \A i \in DOMAIN pairs : Path(i) \in Leaves
                    /\ \A p \in Leaves : \E v \in Values[p] :
                           Says(p, v) /\ (cfg[p] = v \/ Replaceable(p, v))
=============================================================================
