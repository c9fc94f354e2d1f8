------------------------- MODULE AgentProcess_proofs -------------------------
(***************************************************************************)
(* What holds of every agent process, whatever the file, the command line  *)
(* and the number of signals: its configuration is well-typed and is the   *)
(* last word of its user, and its exit code is honest.  And what holds of  *)
(* the gauges of every agent, whatever its mesh sends: a scrape is true.   *)
(***************************************************************************)
EXTENDS NodeMetrics, TLAPS

-----------------------------------------------------------------------------
(* The kinds of leaves do not overlap, and defaults keep to them.          *)

LEMMA LeafKinds ==
    /\ Leaves = StringLeaves \cup TimeLeaves \cup BoolLeaves \cup {Respect} \cup LabelLeaves
    /\ \A p \in StringLeaves : p \notin TimeLeaves \cup BoolLeaves \cup LabelLeaves /\ p # Respect
    /\ \A p \in BoolLeaves : p \notin TimeLeaves \cup LabelLeaves /\ p # Respect
    /\ \A p \in TimeLeaves : p \notin LabelLeaves /\ p # Respect
    /\ Respect \notin LabelLeaves
BY DEF Leaves, StringLeaves, TimeLeaves, BoolLeaves, LabelLeaves, Respect, AgentId, Url, Pin,
       ClientId, ListenAddr, Credentials, Poll, Refresh, MetricsOn, Synth, Cadences

LEMMA GivenTexts ==
    /\ {"", "set", "local", "123456", "rmesh-", "127.0.0.1:9090"} \subseteq Strings
    /\ {"0s", "5m", "30m", "6h"} \subseteq Durations
BY AgentConfigAssumption DEF AgentConfigAssumption

LEMMA GivenBounds == MaxEdits \in Nat /\ MaxPairs \in Nat /\ Contents \subseteq Configs
BY AgentConfigAssumption DEF AgentConfigAssumption

LEMMA TextsOf ==
    /\ Strings \subseteq Texts /\ Durations \subseteq Texts /\ Bools \subseteq Texts
    /\ {"nil", "absent"} \subseteq Texts
BY DEF Texts

\* What a leaf of each kind holds.
LEMMA ValuesOf ==
    /\ \A p \in StringLeaves : Values[p] = Strings
    /\ \A p \in TimeLeaves : Values[p] = Durations
    /\ \A p \in BoolLeaves : Values[p] = Bools
    /\ Values[Respect] = Bools \cup {"nil"}
    /\ \A p \in LabelLeaves : Values[p] = Strings \cup {"absent"}
<1>1. ASSUME NEW p \in StringLeaves PROVE Values[p] = Strings
  <2>1. p \in Leaves /\ p \notin TimeLeaves /\ p \notin BoolLeaves /\ p \notin LabelLeaves /\ p # Respect
    BY LeafKinds
  <2> QED
    BY <2>1, TextsOf DEF Values
<1>2. ASSUME NEW p \in TimeLeaves PROVE Values[p] = Durations
  <2>1. p \in Leaves /\ p \notin StringLeaves /\ p \notin BoolLeaves /\ p \notin LabelLeaves /\ p # Respect
    BY LeafKinds
  <2> QED
    BY <2>1, TextsOf DEF Values
<1>3. ASSUME NEW p \in BoolLeaves PROVE Values[p] = Bools
  <2>1. p \in Leaves /\ p \notin StringLeaves /\ p \notin TimeLeaves /\ p \notin LabelLeaves /\ p # Respect
    BY LeafKinds
  <2> QED
    BY <2>1, TextsOf DEF Values
<1>4. Values[Respect] = Bools \cup {"nil"}
  <2>1. /\ Respect \in Leaves /\ Respect \notin StringLeaves /\ Respect \notin TimeLeaves
        /\ Respect \notin BoolLeaves /\ Respect \notin LabelLeaves
    BY LeafKinds
  <2> QED
    BY <2>1, TextsOf DEF Values
<1>5. ASSUME NEW p \in LabelLeaves PROVE Values[p] = Strings \cup {"absent"}
  <2>1. p \in Leaves /\ p \notin StringLeaves /\ p \notin TimeLeaves /\ p \notin BoolLeaves /\ p # Respect
    BY LeafKinds
  <2> QED
    BY <2>1, TextsOf DEF Values
<1> QED
  BY <1>1, <1>2, <1>3, <1>4, <1>5

LEMMA ZeroFits == ASSUME NEW p \in Leaves PROVE Zero(p) \in Values[p]
<1>1. "" \in Strings /\ "0s" \in Durations
  BY GivenTexts
<1>2. CASE p \in StringLeaves
  <2>1. p \notin TimeLeaves /\ p \notin BoolLeaves /\ p \notin LabelLeaves /\ p # Respect
    BY <1>2, LeafKinds
  <2> QED
    BY <1>1, <1>2, <2>1, ValuesOf DEF Zero
<1>3. CASE p \in TimeLeaves
  BY <1>1, <1>3, ValuesOf DEF Zero
<1>4. CASE p \in BoolLeaves
  BY <1>4, LeafKinds, ValuesOf DEF Zero, Bools
<1>5. CASE p = Respect
  BY <1>5, LeafKinds, ValuesOf DEF Zero
<1>6. CASE p \in LabelLeaves
  BY <1>6, LeafKinds, ValuesOf DEF Zero
<1> QED
  BY <1>2, <1>3, <1>4, <1>5, <1>6, LeafKinds

LEMMA NothingIsConfig == Nothing \in Configs
BY ZeroFits DEF Nothing, Configs, Values

\* A default is of the kind of its leaf.
LEMMA DefaultFits == ASSUME NEW d \in Defaults PROVE d[1] \in Leaves /\ d[2] \in Values[d[1]]
<1>1. CASE d \in {<<AgentId, "local">>, <<Pin, "123456">>, <<ClientId, "rmesh-">>,
                  <<ListenAddr, "127.0.0.1:9090">>}
  <2>1. d[1] \in {AgentId, Pin, ClientId, ListenAddr}
    BY <1>1
  <2>2. d[2] \in {"local", "123456", "rmesh-", "127.0.0.1:9090"}
    BY <1>1
  <2>3. d[1] \in StringLeaves /\ d[2] \in Strings
    BY <2>1, <2>2, GivenTexts DEF StringLeaves
  <2> QED
    BY <2>3, LeafKinds, ValuesOf
<1>2. CASE d = <<Respect, "true">>
  BY <1>2, LeafKinds, ValuesOf DEF Bools
<1>3. CASE d \in {<<Poll, "5m">>} \cup {<<Synth(k, "interval"), IF k = "position" THEN "30m" ELSE "6h">>
                                       : k \in Cadences}
  <2>1. d[1] \in {Poll} \cup {Synth(k, "interval") : k \in Cadences}
    BY <1>3
  <2>2. d[2] \in {"5m", "30m", "6h"}
    BY <1>3
  <2>3. d[1] \in TimeLeaves
    BY <2>1 DEF TimeLeaves
  <2>4. d[2] \in Durations
    BY <2>2, GivenTexts
  <2> QED
    BY <2>3, <2>4, LeafKinds, ValuesOf
<1> QED
  BY <1>1, <1>2, <1>3 DEF Defaults

LEMMA ForcedAreBools == ASSUME NEW c, NEW p \in Forced(c) PROVE p \in BoolLeaves
BY DEF Forced, BoolLeaves, Cadences

LEMMA FilledFits ==
    ASSUME NEW S, NEW c \in Configs, \A d \in S : d[1] \in Leaves => d[2] \in Values[d[1]]
    PROVE  Filled(S, c) \in Configs
<1>1. ASSUME NEW p \in Leaves PROVE Filled(S, c)[p] \in Values[p]
  <2>1. CASE \E d \in S : d[1] = p
    <3>1. PICK d \in S : d[1] = p /\ Filled(S, c)[p] = d[2]
      BY <2>1 DEF Filled
    <3> QED
      BY <3>1
  <2>2. CASE ~ \E d \in S : d[1] = p
    BY <2>2 DEF Filled, Configs
  <2> QED
    BY <2>1, <2>2
<1>2. \A p \in Leaves : Values[p] \subseteq Texts
  BY DEF Values
<1>3. Filled(S, c) = [p \in Leaves |-> Filled(S, c)[p]]
  BY DEF Filled
<1> QED
  BY <1>1, <1>2, <1>3 DEF Configs

LEMMA DefaultedFits == ASSUME NEW c \in Configs PROVE Defaulted(c) \in Configs
<1>1. Filled(Defaults, c) \in Configs
  BY FilledFits, DefaultFits
<1>2. ASSUME NEW p \in Leaves PROVE Defaulted(c)[p] \in Values[p]
  <2>1. c[p] \in Values[p] /\ Filled(Defaults, c)[p] \in Values[p]
    BY <1>1 DEF Configs
  <2>2. CASE p \in Forced(c)
    BY <2>2, ForcedAreBools, ValuesOf DEF Defaulted, Bools
  <2> QED
    BY <2>1, <2>2 DEF Defaulted
<1>3. \A p \in Leaves : Values[p] \subseteq Texts
  BY DEF Values
<1>4. Defaulted(c) = [p \in Leaves |-> Defaulted(c)[p]]
  BY DEF Defaulted
<1> QED
  BY <1>2, <1>3, <1>4 DEF Configs

LEMMA TemplateFits == Template \in Configs
<1>1. ASSUME NEW d \in Written PROVE d[1] \in Leaves /\ d[2] \in Values[d[1]]
  <2>1. CASE d \in {<<AgentId, "local">>, <<Url, "set">>, <<<<"mqtt", "broker_url">>, "set">>}
    <3>1. d[1] \in {AgentId, Url, <<"mqtt", "broker_url">>}
      BY <2>1
    <3>2. d[2] \in {"local", "set"}
      BY <2>1
    <3>3. d[1] \in StringLeaves /\ d[2] \in Strings
      BY <3>1, <3>2, GivenTexts DEF StringLeaves, Credentials
    <3> QED
      BY <3>3, LeafKinds, ValuesOf
  <2>2. CASE d \in {<<Poll, "5m">>} \cup {<<Synth(k, "interval"), IF k = "position" THEN "30m" ELSE "6h">>
                                         : k \in Cadences}
    BY <2>2, DefaultFits DEF Defaults
  <2>3. CASE d \in {<<Synth("nodeinfo", "on_first_seen"), "true">>,
                    <<Synth("position", "on_first_seen"), "true">>}
                   \cup {<<Synth(k, "enabled"), "true">> : k \in Cadences}
    <3>1. d[1] \in {Synth("nodeinfo", "on_first_seen"), Synth("position", "on_first_seen")}
                   \cup {Synth(k, "enabled") : k \in Cadences}
      BY <2>3
    <3>2. d[2] = "true"
      BY <2>3
    <3>3. d[1] \in BoolLeaves
      BY <3>1 DEF BoolLeaves, Cadences
    <3> QED
      BY <3>2, <3>3, LeafKinds, ValuesOf DEF Bools
  <2> QED
    BY <2>1, <2>2, <2>3 DEF Written
<1> QED
  BY <1>1, FilledFits, NothingIsConfig DEF Template

-----------------------------------------------------------------------------
(* The configuration: what each stage of loading has established.          *)

FlagsFit == /\ DOMAIN flags \subseteq Leaves
            /\ \A p \in DOMAIN flags : flags[p] \in Values[p] \ {"nil", "absent"}

SetSoFar(n) == /\ \A i \in 1 .. n : Path(i) \in Leaves
               /\ \A p \in Leaves : SetSays(p, n, cfg[p])

Kept == /\ \A i \in DOMAIN pairs : Path(i) \in Leaves
        /\ \A p \in Leaves : \E v \in Values[p] :
               Says(p, v) /\ (cfg[p] = v \/ Replaceable(p, v))

\* The poll is what the user said, or a positive default.
PollKept == \E v \in Durations :
                Says(Poll, v) /\ ((cfg[Poll] = v /\ Seconds[v] # 0) \/ Seconds[cfg[Poll]] > 0)

Stage == /\ pc \in {"stat", "read"} => next = 1
         /\ pc = "set" => SetSoFar(next - 1)
         /\ pc = "flags" => SetSoFar(Len(pairs))
         /\ pc = "finalize" => /\ \A i \in DOMAIN pairs : Path(i) \in Leaves
                               /\ \A p \in Leaves : Says(p, cfg[p])
         /\ pc \in {"ready", "started"} => Kept /\ PollKept

ConfigInv == TypeOK /\ FlagsFit /\ Stage

\* The said and kept words depend on the command line and the configuration only.
LEMMA StageFrame ==
    ASSUME Stage, FlagsFit, UNCHANGED <<command, next, cfg, read>>,
           pc' = pc \/ (pc = "ready" /\ pc' = "started")
                    \/ (pc = "stat" /\ pc' = "read") \/ pc' = "refused"
    PROVE  Stage' /\ FlagsFit'
<1>1. /\ \A i : Path(i)' = Path(i) /\ Text(i)' = Text(i)
      /\ \A p : FlagSays(p)' = FlagSays(p)
  BY DEF Path, Text, FlagSays, command
<1>2. /\ \A p, n, v : SetSays(p, n, v)' <=> SetSays(p, n, v)
  BY <1>1 DEF SetSays
<1>3. \A p, v : Says(p, v)' <=> Says(p, v)
  BY <1>1, <1>2 DEF Says, command
<1>4. \A p, v : Replaceable(p, v)' <=> Replaceable(p, v)
  BY <1>3 DEF Replaceable
<1>5. \A n : SetSoFar(n)' <=> SetSoFar(n)
  BY <1>1, <1>2 DEF SetSoFar
<1>6. Kept' <=> Kept
  BY <1>1, <1>3, <1>4 DEF Kept, command
<1>7. PollKept' <=> PollKept
  BY <1>3 DEF PollKept
<1>8. FlagsFit'
  BY DEF FlagsFit, command
<1> QED
  BY <1>1, <1>3, <1>5, <1>6, <1>7, <1>8 DEF Stage, command

LEMMA ConfigInit == Init => ConfigInv
<1> SUFFICES ASSUME Init PROVE ConfigInv
  OBVIOUS
<1>1. doc \in Configs
  BY NothingIsConfig, GivenBounds DEF Init
<1>2. pairs \in Seq(Pairs) /\ next \in 1 .. Len(pairs) + 1
  BY DEF Init
<1>3. edits \in 0 .. MaxEdits
  BY GivenBounds DEF Init
<1>4. TypeOK
  BY <1>1, <1>2, <1>3, NothingIsConfig DEF Init, TypeOK
<1> QED
  BY <1>4 DEF Init, ConfigInv, FlagsFit, Stage

\* One more --set pair.
LEMMA AssignStep ==
    ASSUME ConfigInv, pc = "set", next <= Len(pairs), Settable(next), AssignScalar(next),
           next' = next + 1, UNCHANGED <<command, read, pc>>
    PROVE  cfg' \in Configs /\ SetSoFar(next - 1)'
<1>1. /\ cfg \in Configs /\ next \in Nat \ {0}
      /\ SetSoFar(next - 1) /\ Path(next) \in Leaves /\ Text(next) \in Values[Path(next)]
  BY DEF ConfigInv, TypeOK, Stage, Settable
<1>2. /\ cfg' = [cfg EXCEPT ![Path(next)] = Text(next)]
      /\ \A i : Path(i)' = Path(i) /\ Text(i)' = Text(i)
  BY DEF AssignScalar, command, Path, Text
<1>3. cfg' \in Configs
  BY <1>1, <1>2 DEF Configs, Values
<1>4. ASSUME NEW p \in Leaves PROVE SetSays(p, next, cfg'[p])
  <2>1. CASE p = Path(next)
    BY <1>1, <1>2, <2>1 DEF SetSays, Configs
  <2>2. CASE p # Path(next)
    <3>1. cfg'[p] = cfg[p] /\ SetSays(p, next - 1, cfg[p])
      BY <1>1, <1>2, <2>2 DEF SetSoFar, Configs
    <3>2. ASSUME NEW j \in 1 .. next - 1, \A k \in j + 1 .. next - 1 : Path(k) # p
          PROVE  j \in 1 .. next /\ \A k \in j + 1 .. next : Path(k) # p
      BY <1>1, <2>2, <3>2
    <3>3. (\A j \in 1 .. next - 1 : Path(j) # p) => (\A j \in 1 .. next : Path(j) # p)
      BY <1>1, <2>2
    <3> QED
      BY <3>1, <3>2, <3>3 DEF SetSays
  <2> QED
    BY <2>1, <2>2
<1>5. \A i \in 1 .. next : Path(i) \in Leaves
  BY <1>1 DEF SetSoFar
<1>6. next' - 1 = next
  BY <1>1
<1>7. \A p : SetSays(p, next - 1, cfg[p])' <=> SetSays(p, next, cfg'[p])
  BY <1>2, <1>6 DEF SetSays
<1> QED
  BY <1>2, <1>3, <1>4, <1>5, <1>6, <1>7 DEF SetSoFar

\* The typed flags replace what the file and --set said.
LEMMA FlagsStep ==
    ASSUME ConfigInv, pc = "flags", cfg' = Overridden, UNCHANGED <<command, read>>
    PROVE  /\ cfg' \in Configs
           /\ \A i \in DOMAIN pairs' : Path(i)' \in Leaves
           /\ \A p \in Leaves : Says(p, cfg[p])'
<1>1. /\ cfg \in Configs /\ SetSoFar(Len(pairs)) /\ FlagsFit /\ pairs \in Seq(Pairs)
  BY DEF ConfigInv, TypeOK, Stage
<1>2. ASSUME NEW p \in Leaves PROVE cfg'[p] \in Values[p]
  <2>1. CASE p \in DOMAIN flags /\ p = Respect
    <3>1. flags[p] \in Bools
      BY <1>1, <2>1, ValuesOf DEF FlagsFit
    <3> QED
      BY <2>1, <3>1, ValuesOf DEF Overridden, FlagSays, Negated, Bools
  <2>2. CASE p \in DOMAIN flags /\ p # Respect
    BY <1>1, <2>2 DEF Overridden, FlagSays, FlagsFit
  <2>3. CASE p \notin DOMAIN flags
    BY <1>1, <2>3 DEF Overridden, Configs
  <2> QED
    BY <2>1, <2>2, <2>3
<1>3. cfg' \in Configs
  BY <1>2 DEF Configs, Overridden, Values
<1>4. /\ \A i : Path(i)' = Path(i) /\ Text(i)' = Text(i)
      /\ \A p : FlagSays(p)' = FlagSays(p)
  BY DEF Path, Text, FlagSays, command
<1>5. ASSUME NEW p \in Leaves PROVE Says(p, cfg[p])'
  <2>1. CASE p \in DOMAIN flags
    BY <1>4, <2>1 DEF Says, Overridden, command
  <2>2. CASE p \notin DOMAIN flags
    <3>1. cfg'[p] = cfg[p] /\ SetSays(p, Len(pairs), cfg[p])
      BY <1>1, <2>2 DEF Overridden, SetSoFar
    <3> QED
      BY <1>4, <2>2, <3>1 DEF Says, SetSays, command
  <2> QED
    BY <2>1, <2>2
<1>6. \A i \in DOMAIN pairs' : Path(i)' \in Leaves
  BY <1>1, <1>4 DEF SetSoFar, command
<1> QED
  BY <1>3, <1>5, <1>6

\* What Finalize makes of the configuration.
LEMMA FinalizeStep ==
    ASSUME ConfigInv, pc = "finalize", cfg' = Defaulted(cfg), UNCHANGED <<command, read>>
    PROVE  cfg' \in Configs /\ Kept' /\ PollKept'
<1>1. /\ cfg \in Configs /\ \A i \in DOMAIN pairs : Path(i) \in Leaves
      /\ \A p \in Leaves : Says(p, cfg[p])
  BY DEF ConfigInv, TypeOK, Stage
<1>2. cfg' \in Configs
  BY <1>1, DefaultedFits
<1>3. /\ \A i : Path(i)' = Path(i) /\ Text(i)' = Text(i)
      /\ \A p : FlagSays(p)' = FlagSays(p)
  BY DEF Path, Text, FlagSays, command
<1>4. \A p, n, v : SetSays(p, n, v)' <=> SetSays(p, n, v)
  BY <1>3 DEF SetSays
<1>5. \A p, v : Says(p, v)' <=> Says(p, v)
  BY <1>3, <1>4 DEF Says, command
<1>6. \A p, v : Replaceable(p, v)' <=> Replaceable(p, v)
  BY <1>5 DEF Replaceable
<1>7. ASSUME NEW p \in Leaves
      PROVE  cfg[p] \in Values[p] /\ Says(p, cfg[p]) /\ (cfg'[p] = cfg[p] \/ Replaceable(p, cfg[p]))
  <2>1. cfg[p] \in Values[p] /\ Says(p, cfg[p])
    BY <1>1 DEF Configs
  <2>2. CASE p \in Forced(cfg)
    <3>1. CASE p = Synth("nodeinfo", "on_first_seen")
      BY <2>1, <3>1 DEF Replaceable
    <3>2. ASSUME NEW k \in Cadences, p = Synth(k, "enabled"), Empty(cfg[Synth(k, "interval")])
          PROVE  Replaceable(p, cfg[p])
      <4>1. Synth(k, "interval") \in TimeLeaves
        BY DEF TimeLeaves
      <4>2. Says(Synth(k, "interval"), cfg[Synth(k, "interval")])
            /\ cfg[Synth(k, "interval")] \in Durations
        BY <1>1, <4>1, LeafKinds, ValuesOf DEF Configs
      <4> QED
        BY <3>2, <4>2 DEF Replaceable
    <3> QED
      BY <2>1, <2>2, <3>1, <3>2 DEF Forced
  <2>3. CASE p \notin Forced(cfg) /\ Empty(cfg[p])
    BY <2>1, <2>3 DEF Replaceable
  <2>4. CASE p \notin Forced(cfg) /\ ~Empty(cfg[p])
    BY <2>1, <2>4 DEF Defaulted
  <2> QED
    BY <2>2, <2>3, <2>4, <2>1
<1>8. Kept'
  BY <1>1, <1>3, <1>5, <1>6, <1>7 DEF Kept, command
<1>9. PollKept'
  <2>1. Poll \in TimeLeaves /\ Poll \in Leaves /\ Poll \notin Forced(cfg)
    BY LeafKinds, ForcedAreBools DEF TimeLeaves
  <2>2. cfg[Poll] \in Durations /\ Says(Poll, cfg[Poll])
    BY <1>1, <2>1, ValuesOf DEF Configs
  <2>3. CASE Empty(cfg[Poll])
    <3>1. <<Poll, "5m">> \in Defaults
      BY DEF Defaults
    <3>2. PICK d \in Defaults : d[1] = Poll /\ Filled(Defaults, cfg)[Poll] = d[2]
      BY <2>1, <3>1 DEF Filled
    <3>3. d[2] \in {"5m", "30m", "6h"}
      <4>1. d[1] \notin {AgentId, Pin, ClientId, ListenAddr, Respect}
        BY <2>1, <3>2, LeafKinds DEF StringLeaves
      <4>2. d \in {<<Poll, "5m">>} \cup {<<Synth(k, "interval"), IF k = "position" THEN "30m" ELSE "6h">>
                                       : k \in Cadences}
        BY <4>1 DEF Defaults
      <4> QED
        BY <4>2
    <3>4. cfg'[Poll] = d[2]
      BY <2>1, <2>3, <3>2 DEF Defaulted
    <3>5. Seconds[cfg'[Poll]] > 0
      BY <3>3, <3>4, AgentConfigAssumption DEF AgentConfigAssumption
    <3> QED
      BY <1>5, <2>2, <3>5 DEF PollKept
  <2>4. CASE ~Empty(cfg[Poll])
    BY <1>5, <2>1, <2>2, <2>4 DEF PollKept, Defaulted, Empty
  <2> QED
    BY <2>3, <2>4
<1> QED
  BY <1>2, <1>8, <1>9

LEMMA ConfigStep == ConfigInv /\ Next => ConfigInv'
<1> SUFFICES ASSUME ConfigInv, Next PROVE ConfigInv'
  OBVIOUS
<1> USE DEF file
<1>0. TypeOK /\ FlagsFit /\ Stage
  BY DEF ConfigInv
<1>1. CASE Edit
  <2>1. doc' \in Configs /\ disk' \in {"missing", "unparsable", "ok"}
    BY <1>0, <1>1, TemplateFits, NothingIsConfig, GivenBounds
    DEF Edit, EnsureAgentConfigFile, EditorSaves, TypeOK
  <2>2. edits' \in 0 .. MaxEdits
    BY <1>0, <1>1, GivenBounds DEF Edit, EnsureAgentConfigFile, EditorSaves, Unread, TypeOK
  <2>3. UNCHANGED <<pc, command, next, cfg, read>>
    BY <1>1 DEF Edit, EnsureAgentConfigFile, EditorSaves
  <2>4. TypeOK'
    BY <1>0, <2>1, <2>2, <2>3 DEF TypeOK, command
  <2> QED
    BY <1>0, <2>3, <2>4, StageFrame DEF ConfigInv
<1>2. CASE Invoke
  <2>1. pairs' \in Seq(Pairs)
    BY <1>2, GivenBounds DEF Invoke
  <2>2. flags' \in FlagArgs /\ verb' \in {"run", "observe", "doctor"} /\ pc' = "stat" /\ next' = 1
    BY <1>2 DEF Invoke
  <2>3. /\ \A p \in DOMAIN flags' : flags'[p] \in Values[p] \ {"nil", "absent"}
        /\ DOMAIN flags' \subseteq Leaves
    BY <1>2, <2>2, AgentConfigAssumption DEF Invoke, AgentConfigAssumption
  <2>4. TypeOK'
    BY <1>0, <1>2, <2>1, <2>2 DEF Invoke, TypeOK
  <2> QED
    BY <2>2, <2>3, <2>4 DEF ConfigInv, FlagsFit, Stage
<1>3. CASE Stat
  <2>1. UNCHANGED <<file, command, next, cfg, read>> /\ pc = "stat" /\ pc' \in {"read", "refused"}
    BY <1>3 DEF Stat, Refuse
  <2>2. TypeOK'
    BY <1>0, <2>1 DEF TypeOK, command
  <2> QED
    BY <1>0, <2>1, <2>2, StageFrame DEF ConfigInv
<1>4. CASE LoadRaw
  <2>1. CASE disk # "ok"
    <3>1. UNCHANGED <<file, command, next, cfg, read>> /\ pc' = "refused"
      BY <1>4, <2>1 DEF LoadRaw, Refuse
    <3>2. TypeOK'
      BY <1>0, <3>1 DEF TypeOK, command
    <3> QED
      BY <1>0, <3>1, <3>2, StageFrame DEF ConfigInv
  <2>2. CASE disk = "ok"
    <3>1. UNCHANGED <<file, command>> /\ pc' = "set" /\ cfg' = doc /\ read' = doc /\ next' = next
      BY <1>4, <2>2 DEF LoadRaw
    <3>2. TypeOK' /\ FlagsFit'
      BY <1>0, <3>1 DEF TypeOK, FlagsFit, command
    <3>3. next = 1
      BY <1>0, <1>4 DEF LoadRaw, Stage
    <3>4. SetSoFar(next - 1)'
      BY <3>1, <3>3 DEF SetSoFar, SetSays
    <3> QED
      BY <3>1, <3>2, <3>4 DEF ConfigInv, Stage
  <2> QED
    BY <2>1, <2>2
<1>5. CASE ApplySetPaths
  <2>1. CASE next > Len(pairs) /\ pc' = "flags" /\ UNCHANGED <<next, cfg>>
    <3>1. pc = "set" /\ UNCHANGED <<file, command, next, cfg, read>> /\ next - 1 = Len(pairs)
      BY <1>0, <1>5, <2>1 DEF ApplySetPaths, TypeOK
    <3>2. \A i : Path(i)' = Path(i) /\ Text(i)' = Text(i)
      BY <3>1 DEF Path, Text, command
    <3>3. \A p, n, v : SetSays(p, n, v)' <=> SetSays(p, n, v)
      BY <3>1, <3>2 DEF SetSays
    <3>4. SetSoFar(Len(pairs))'
      BY <1>0, <3>1, <3>2, <3>3 DEF SetSoFar, Stage, command
    <3>5. TypeOK' /\ FlagsFit'
      BY <1>0, <2>1, <3>1 DEF TypeOK, FlagsFit, command
    <3> QED
      BY <2>1, <3>4, <3>5 DEF ConfigInv, Stage
  <2>2. CASE next <= Len(pairs) /\ Settable(next) /\ AssignScalar(next) /\ next' = next + 1
             /\ UNCHANGED pc
    <3>1. pc = "set" /\ UNCHANGED <<file, command, read, pc>>
      BY <1>5, <2>2 DEF ApplySetPaths
    <3>2. cfg' \in Configs /\ SetSoFar(next - 1)'
      BY <2>2, <3>1, AssignStep
    <3>3. next' \in 1 .. Len(pairs) + 1
      BY <1>0, <2>2 DEF TypeOK
    <3>4. TypeOK' /\ FlagsFit'
      BY <1>0, <3>1, <3>2, <3>3 DEF TypeOK, FlagsFit, command
    <3> QED
      BY <3>1, <3>2, <3>4 DEF ConfigInv, Stage
  <2>3. CASE next <= Len(pairs) /\ ~Settable(next) /\ Refuse
    <3>1. UNCHANGED <<file, command, next, cfg, read>> /\ pc' = "refused"
      BY <1>5, <2>3 DEF ApplySetPaths, Refuse
    <3>2. TypeOK'
      BY <1>0, <3>1 DEF TypeOK, command
    <3> QED
      BY <1>0, <3>1, <3>2, StageFrame DEF ConfigInv
  <2> QED
    BY <1>5, <2>1, <2>2, <2>3 DEF ApplySetPaths
<1>6. CASE ApplyFlags
  <2>1. CASE <<"labels", "">> \in DOMAIN flags
    <3>1. UNCHANGED <<file, command, next, cfg, read>> /\ pc' = "refused"
      BY <1>6, <2>1 DEF ApplyFlags, Refuse
    <3>2. TypeOK'
      BY <1>0, <3>1 DEF TypeOK, command
    <3> QED
      BY <1>0, <3>1, <3>2, StageFrame DEF ConfigInv
  <2>2. CASE <<"labels", "">> \notin DOMAIN flags
    <3>1. pc = "flags" /\ pc' = "finalize" /\ cfg' = Overridden /\ UNCHANGED <<file, command, next, read>>
      BY <1>6, <2>2 DEF ApplyFlags
    <3>2. /\ cfg' \in Configs /\ \A i \in DOMAIN pairs' : Path(i)' \in Leaves
          /\ \A p \in Leaves : Says(p, cfg[p])'
      BY <3>1, FlagsStep
    <3>3. TypeOK' /\ FlagsFit'
      BY <1>0, <3>1, <3>2 DEF TypeOK, FlagsFit, command
    <3> QED
      BY <3>1, <3>2, <3>3 DEF ConfigInv, Stage
  <2> QED
    BY <2>1, <2>2
<1>7. CASE Finalize
  <2>1. CASE ~Validates(cfg)
    <3>1. UNCHANGED <<file, command, next, cfg, read>> /\ pc' = "refused"
      BY <1>7, <2>1 DEF Finalize, Refuse
    <3>2. TypeOK'
      BY <1>0, <3>1 DEF TypeOK, command
    <3> QED
      BY <1>0, <3>1, <3>2, StageFrame DEF ConfigInv
  <2>2. CASE Validates(cfg)
    <3>1. pc = "finalize" /\ pc' = "ready" /\ cfg' = Defaulted(cfg)
          /\ UNCHANGED <<file, command, next, read>>
      BY <1>7, <2>2 DEF Finalize
    <3>2. cfg' \in Configs /\ Kept' /\ PollKept'
      BY <3>1, FinalizeStep
    <3>3. TypeOK' /\ FlagsFit'
      BY <1>0, <3>1, <3>2 DEF TypeOK, FlagsFit, command
    <3> QED
      BY <3>1, <3>2, <3>3 DEF ConfigInv, Stage
  <2> QED
    BY <2>1, <2>2
<1> QED
  BY <1>1, <1>2, <1>3, <1>4, <1>5, <1>6, <1>7 DEF Next, Load

-----------------------------------------------------------------------------
(* The process: what a step, a result and a signal are evidence of.        *)

Evidence ==
    /\ step = "returned" => \/ /\ result \in {"nil", "canceled"} /\ broken # "step"
                               /\ verb # "doctor" => runDone
                               /\ broken = "link" => result = "canceled"
                            \/ result = "wrapped" /\ runDone
                            \/ result = "error" /\ broken # "none"
    /\ step \notin {"up", "stopping", "returned"} => broken = "none"
    /\ step \in {"up", "stopping"} => broken # "step"
    /\ step = "up" => /\ errCh # "error" => broken = "none"
                      /\ errCh = "error" => broken = "link"
                      /\ errCh \in {"none", "error"} \/ runDone
    /\ step \notin {"up", "stopping"} => errCh = "none"
    /\ step = "stopping" => runDone

Placed ==
    /\ step = "off" \/ pc = "started" \/ (pc = "refused" /\ step = "returned")
    /\ pc = "started" => step # "off"

Signalled == signals \in Nat /\ (rootDone => signals >= 1) /\ (hard => rootDone)

ProcessInv == ConfigInv /\ Evidence /\ Placed /\ Signalled /\ ExitCodeHonest

\* Says does not look at the process.
LEMMA HonestFrame ==
    ASSUME exit' = "running" PROVE ExitCodeHonest'
BY DEF ExitCodeHonest

\* An agent that is not loading keeps its configuration.
LEMMA ConfigFrame == ASSUME ConfigInv, UNCHANGED cvars PROVE ConfigInv'
<1>1. TypeOK'
  BY DEF ConfigInv, TypeOK, cvars, file, command
<1>2. Stage' /\ FlagsFit'
  BY StageFrame DEF ConfigInv, cvars
<1> QED
  BY <1>1, <1>2 DEF ConfigInv

LEMMA ProcessStart == ProcessInit => ProcessInv
<1> SUFFICES ASSUME ProcessInit PROVE ProcessInv
  OBVIOUS
<1> QED
  BY ConfigInit DEF Init, ProcessInit, ProcessInv, Evidence, Placed, Signalled, ExitCodeHonest

LEMMA ProcessStep == ProcessInv /\ [ProcessNext]_pvars => ProcessInv'
<1> SUFFICES ASSUME ProcessInv, [ProcessNext]_pvars PROVE ProcessInv'
  OBVIOUS
<1> USE DEF process, reading
<1>0. ConfigInv /\ Evidence /\ Placed /\ Signalled /\ ExitCodeHonest /\ TypeOK
  BY DEF ProcessInv, ConfigInv
<1>1. CASE Configure
  <2>1. ConfigInv'
    BY <1>0, <1>1, ConfigStep DEF Configure
  <2>2. exit' = "running" /\ UNCHANGED process /\ Next
    BY <1>1 DEF Configure
  <2>3. step # "off" => UNCHANGED <<pc, verb>>
    BY <1>0, <2>2 DEF Placed, Next, Edit, EnsureAgentConfigFile, EditorSaves, Invoke, Load, Stat,
       LoadRaw, ApplySetPaths, ApplyFlags, Finalize, command
  <2>4. Placed'
    <3>1. pc' # "started" \/ pc = "started"
      BY <2>2 DEF Next, Edit, EnsureAgentConfigFile, EditorSaves, Invoke, Load, Stat,
         LoadRaw, ApplySetPaths, ApplyFlags, Finalize, Refuse
    <3> QED
      BY <1>0, <2>2, <2>3, <3>1 DEF Placed
  <2>5. Evidence'
    BY <1>0, <2>2, <2>3 DEF Evidence
  <2> QED
    BY <1>0, <2>1, <2>2, <2>4, <2>5, HonestFrame DEF ProcessInv, Signalled
<1>2. CASE ConfigError
  <2>1. ConfigInv'
    BY <1>0, <1>2, ConfigFrame DEF ConfigError
  <2> QED
    BY <1>0, <1>2, <2>1, HonestFrame
    DEF ConfigError, ProcessInv, Evidence, Placed, Signalled, cvars
<1>3. CASE Listen
  <2>1. UNCHANGED <<file, command, next, cfg, read>> /\ pc = "ready" /\ pc' = "started"
    BY <1>3 DEF Listen
  <2>2. TypeOK'
    BY <1>0, <2>1 DEF TypeOK, file, command
  <2>3. ConfigInv'
    BY <1>0, <2>1, <2>2, StageFrame DEF ConfigInv
  <2>4. step = "off" /\ step' \in {"port", "transport"}
    BY <1>0, <1>3 DEF Listen, Placed
  <2> QED
    BY <1>0, <1>3, <2>3, <2>4, HonestFrame DEF Listen, ProcessInv, Evidence, Placed, Signalled
<1>4. CASE Signal
  <2>1. ConfigInv'
    BY <1>0, <1>4, ConfigFrame DEF Signal
  <2>2. Evidence' /\ Placed'
    BY <1>0, <1>4 DEF Signal, Evidence, Placed, cvars, command
  <2>3. Signalled' /\ (hard => signals' >= 2)
    BY <1>0, <1>4 DEF Signal, Signalled
  <2>4. ExitCodeHonest'
    BY <1>4, <2>3 DEF Signal, ExitCodeHonest
  <2> QED
    BY <2>1, <2>2, <2>3, <2>4 DEF ProcessInv
<1>5. CASE AwaitSecondSignal
  <2>1. ConfigInv'
    BY <1>0, <1>5, ConfigFrame DEF AwaitSecondSignal
  <2> QED
    BY <1>0, <1>5, <2>1, HonestFrame
    DEF AwaitSecondSignal, ProcessInv, Evidence, Placed, Signalled, cvars, command
<1>6. CASE StepSucceeds
  <2>1. ConfigInv' /\ UNCHANGED cvars /\ exit' = "running"
    BY <1>0, <1>6, ConfigFrame DEF StepSucceeds
  <2>2. /\ step \in {"port", "transport", "device", "state", "mqtt"}
        /\ step' \in {"transport", "device", "state", "mqtt", "up", "returned"}
        /\ step' = "returned" => verb = "doctor"
    BY <1>0, <1>6 DEF StepSucceeds, StepOrder, TypeOK
  <2>3. pc = "started"
    BY <1>0, <2>2 DEF Placed
  <2>4. step' = "returned" => result' = "nil"
    BY <1>6 DEF StepSucceeds
  <2> QED
    BY <1>0, <1>6, <2>1, <2>2, <2>3, <2>4, HonestFrame
    DEF StepSucceeds, ProcessInv, Evidence, Placed, Signalled, cvars, command
<1>7. CASE StepFails
  <2>1. ConfigInv'
    BY <1>0, <1>7, ConfigFrame DEF StepFails
  <2> QED
    BY <1>0, <1>7, <2>1, HonestFrame
    DEF StepFails, Starting, ProcessInv, Evidence, Placed, Signalled, cvars, command
<1>8. CASE StepCanceled
  <2>1. ConfigInv'
    BY <1>0, <1>8, ConfigFrame DEF StepCanceled
  <2> QED
    BY <1>0, <1>8, <2>1, HonestFrame
    DEF StepCanceled, ProcessInv, Evidence, Placed, Signalled, cvars, command
<1>9. CASE TickersPanic
  <2>1. ConfigInv' /\ UNCHANGED cvars
    BY <1>0, <1>9, ConfigFrame DEF TickersPanic
  <2>2. Evidence' /\ Placed' /\ Signalled'
    BY <1>0, <1>9 DEF TickersPanic, Evidence, Placed, Signalled, cvars, command
  <2>3. pc = "started" /\ Seconds[cfg[Poll]] <= 0
    <3>1. step \in {"mqtt", "up"}
      BY <1>9 DEF TickersPanic
    <3>2. pc = "started"
      BY <1>0, <3>1 DEF Placed
    <3>3. Refresh \in TimeLeaves /\ cfg[Refresh] \in Durations
      <4>1. Refresh \in TimeLeaves
        BY DEF TimeLeaves
      <4> QED
        BY <1>0, <4>1, LeafKinds, ValuesOf DEF TypeOK, Configs
    <3>4. Seconds[cfg[Refresh]] \in Int
      BY <3>3, AgentConfigAssumption DEF AgentConfigAssumption
    <3>5. Seconds[cfg[Poll]] <= 0
      BY <1>9, <3>4 DEF TickersPanic, EffectiveNodeDBRefreshInterval
    <3> QED
      BY <3>2, <3>5
  <2>4. PICK v \in Durations : Says(Poll, v) /\ ((cfg[Poll] = v /\ Seconds[v] # 0) \/ Seconds[cfg[Poll]] > 0)
    BY <1>0, <2>3 DEF ConfigInv, Stage, PollKept
  <2>5. Seconds[v] \in Int /\ Poll \in TimeLeaves /\ cfg[Poll] \in Durations
        /\ Seconds[cfg[Poll]] \in Int
    <3>1. Poll \in TimeLeaves
      BY DEF TimeLeaves
    <3>2. cfg[Poll] \in Durations
      BY <1>0, <3>1, LeafKinds, ValuesOf DEF TypeOK, Configs
    <3> QED
      BY <3>1, <3>2, AgentConfigAssumption DEF AgentConfigAssumption
  <2>6. Seconds[v] < 0
    BY <2>3, <2>4, <2>5
  <2>7. Says(Poll, v)'
    <3>1. /\ \A i : Path(i)' = Path(i) /\ Text(i)' = Text(i)
          /\ \A p : FlagSays(p)' = FlagSays(p)
      BY <2>1 DEF Path, Text, FlagSays, cvars, command
    <3> QED
      BY <2>1, <2>4, <3>1 DEF Says, SetSays, cvars, command
  <2>8. ExitCodeHonest'
    BY <1>9, <2>6, <2>7 DEF TickersPanic, ExitCodeHonest
  <2> QED
    BY <2>1, <2>2, <2>8 DEF ProcessInv
<1>10. CASE ReaderStops
  <2>1. ConfigInv'
    BY <1>0, <1>10, ConfigFrame DEF ReaderStops
  <2> QED
    BY <1>0, <1>10, <2>1, HonestFrame
    DEF ReaderStops, LinkError, ProcessInv, Evidence, Placed, Signalled, cvars, command
<1>15. CASE SelectErr
  <2>1. ConfigInv'
    BY <1>0, <1>15, ConfigFrame DEF SelectErr
  <2> QED
    BY <1>0, <1>15, <2>1, HonestFrame
    DEF SelectErr, Selecting, ProcessInv, Evidence, Placed, Signalled, cvars, command
<1>16. CASE PollerPanics
  <2>1. ConfigInv'
    BY <1>0, <1>16, ConfigFrame DEF PollerPanics
  <2>2. ExitCodeHonest'
    BY <1>16 DEF PollerPanics, ExitCodeHonest
  <2> QED
    BY <1>0, <1>16, <2>1, <2>2 DEF PollerPanics, ProcessInv, Evidence, Placed, Signalled, cvars, command
<1>11. CASE ContextDone
  <2>1. ConfigInv'
    BY <1>0, <1>11, ConfigFrame DEF ContextDone
  <2> QED
    BY <1>0, <1>11, <2>1, HonestFrame
    DEF ContextDone, Selecting, ProcessInv, Evidence, Placed, Signalled, cvars, command
<1>12. CASE AwaitReadLoop
  <2>1. ConfigInv'
    BY <1>0, <1>12, ConfigFrame DEF AwaitReadLoop
  <2> QED
    BY <1>0, <1>12, <2>1, HonestFrame
    DEF AwaitReadLoop, ProcessInv, Evidence, Placed, Signalled, cvars, command
<1>13. CASE Exit
  <2>1. ConfigInv'
    BY <1>0, <1>13, ConfigFrame DEF Exit
  <2>2. ExitCodeHonest'
    BY <1>0, <1>13 DEF Exit, Quiet, Evidence, ExitCodeHonest, cvars, command
  <2> QED
    BY <1>0, <1>13, <2>1, <2>2 DEF Exit, ProcessInv, Evidence, Placed, Signalled, cvars, command
<1>14. CASE UNCHANGED pvars
  <2>1. ConfigInv' /\ UNCHANGED cvars /\ UNCHANGED process
    BY <1>0, <1>14, ConfigFrame DEF pvars
  <2>2. Evidence' /\ Placed' /\ Signalled'
    BY <1>0, <2>1 DEF Evidence, Placed, Signalled, cvars, command
  <2>3. \A v : Says(Poll, v)' <=> Says(Poll, v)
    <3>1. /\ \A i : Path(i)' = Path(i) /\ Text(i)' = Text(i)
          /\ \A p : FlagSays(p)' = FlagSays(p)
      BY <2>1 DEF Path, Text, FlagSays, cvars, command
    <3> QED
      BY <2>1, <3>1 DEF Says, SetSays, cvars, command
  <2>4. ExitCodeHonest'
    BY <1>0, <2>1, <2>3 DEF ExitCodeHonest, cvars, command
  <2> QED
    BY <2>1, <2>2, <2>4 DEF ProcessInv
<1> QED
  BY <1>1, <1>2, <1>3, <1>4, <1>5, <1>6, <1>7, <1>8, <1>9, <1>10, <1>11, <1>12, <1>13, <1>14,
     <1>15, <1>16 DEF ProcessNext

-----------------------------------------------------------------------------
(* The theorems.                                                           *)

LEMMA Inductive == ProcessSpec => []ProcessInv
BY ProcessStart, ProcessStep, PTL DEF ProcessSpec

\* Whatever the file, the --set pairs and the flags, every leaf of the configuration
\* holds a value of its kind at every moment.
THEOREM ConfigurationTyped == ProcessSpec => []TypeOK
<1>1. ProcessInv => TypeOK
  BY DEF ProcessInv, ConfigInv
<1> QED
  BY <1>1, Inductive, PTL

\* An agent is about to start with what its user said: the flag, else the last
\* --set, else the file, with the exceptions LastWordCounts names and no other.
THEOREM LastWordAlwaysCounts == ProcessSpec => []LastWordCounts
<1>1. ProcessInv => LastWordCounts
  BY DEF ProcessInv, ConfigInv, Stage, Kept, LastWordCounts
<1> QED
  BY <1>1, Inductive, PTL

\* No order of failures, signals and closes makes an exit code lie, whichever ready
\* case the main loop's select takes (agent.go:125-141, root.go:47, shutdown.go:5).
THEOREM ExitCodeAlwaysHonest == ProcessSpec => []ExitCodeHonest
<1>1. ProcessInv => ExitCodeHonest
  BY DEF ProcessInv
<1> QED
  BY <1>1, Inductive, PTL

-----------------------------------------------------------------------------
(* The gauges: what their writers have still to do, and the rows they     *)
(* follow.                                                                 *)

\* The steps at which other goroutines may run.
Up       == {"mqtt", "up", "stopping", "returned"}
Fields   == {"cu", "au"}
Readings == [cu : Nat, au : Nat]
Jobs     == [node : Nodes, source : Sources, row : Rows, field : {"cu", "au", "stamp"}]
AnyRow   == Rows \cup {None}

MetricsTyped ==
    /\ radio \in [Nodes -> Rows] /\ rows \in [Nodes -> AnyRow] /\ snap \in [Nodes -> AnyRow]
    /\ got \in [Writers -> [Nodes -> AnyRow]] /\ job \in [Writers -> Jobs \cup {NoJob}]
    /\ gauge \in [Nodes -> [Sources -> Readings]] /\ heard \in [Nodes -> Readings]
    /\ stamp \in [Nodes -> Nat] /\ shown \in [Nodes -> Nat] /\ now \in Nat

\* Writer w has still to write gauge f of node n and source s.
Pending(w, n, s, f) ==
    /\ job[w].node = n /\ job[w].source = s
    /\ job[w].field = "cu" \/ (f = "au" /\ job[w].field = "au")

\* An update from the NodeDB carries its node's row, unless a row was stored while the
\* refresher had older copies; and but for that refresher its writer holds the mutex.
JobsFollow ==
    \A w \in Writers : ~Idle(w) =>
        /\ job[w].source = "telemetry" => w = "reader"
        /\ job[w].source = "nodedb" =>
              /\ job[w].node \notin raced => job[w].row = rows[job[w].node]
              /\ w # "refresher" \/ OwnSweep => lock = w
CopiesFollow ==
    /\ OwnSweep => snap = NoRows /\ raced = {}
    /\ \A n \in Nodes : snap[n] # None /\ n \notin raced => snap[n] = rows[n]

\* A gauge shows its reading, or somebody is about to write it.
NodeDBFollows ==
    On => \A n \in Nodes, f \in Fields :
            rows[n] # None /\ n \notin raced /\ snap[n] = None /\ rows[n][f] # Nil =>
                \/ gauge[n]["nodedb"][f] = rows[n][f]
                \/ \E w \in Writers : Pending(w, n, "nodedb", f)
TelemetryFollows ==
    On => \A n \in Nodes, f \in Fields :
            heard[n][f] = IF Pending("reader", n, "telemetry", f)
                          THEN SetGauge(gauge[n]["telemetry"][f], job["reader"].row[f])
                          ELSE gauge[n]["telemetry"][f]
Stamped == \A n \in Nodes : shown[n] <= now /\ (Writing(n) \/ shown[n] <= stamp[n])

GaugeInv == MetricsTyped /\ JobsFollow /\ CopiesFollow /\ NodeDBFollows /\ TelemetryFollows /\ Stamped

\* Before agent.Run has read the device there is nothing to show.
Unstarted ==
    /\ rows = NoRows /\ snap = NoRows /\ raced = {}
    /\ got = [w \in Writers |-> NoRows] /\ job = [w \in Writers |-> NoJob]
    /\ gauge = [n \in Nodes |-> [s \in Sources |-> Silent]] /\ heard = [n \in Nodes |-> Silent]
    /\ stamp = [n \in Nodes |-> 0] /\ shown = [n \in Nodes |-> 0]

MetricsInv == ProcessInv /\ GaugeInv /\ (step \notin Up => Unstarted)

LEMMA RowFacts ==
    /\ Rows \subseteq Readings /\ Silent \in Rows /\ None \notin Rows /\ "none" \notin Nodes
    /\ \A r \in Readings, f \in Fields : r[f] \in Nat
    /\ \A r \in Readings : r["cu"] = r.cu /\ r["au"] = r.au
    /\ \A f \in Fields : Silent[f] = Nil
    /\ \A r \in AnyRow : ~Carries(r) => r = None \/ r = Silent
    /\ Silent \in Readings /\ NoRows \in [Nodes -> AnyRow] /\ NoJob \notin Jobs
<1>1. Rows \subseteq Readings /\ Silent \in Rows /\ "none" \notin Nodes
  BY NodeMetricsAssumption DEF Readings
<1>2. None \notin Readings /\ Silent \in Readings
  BY DEF None, Readings, Silent, Nil
<1>3. \A r \in Readings : r["cu"] = r.cu /\ r["au"] = r.au /\ r.cu \in Nat /\ r.au \in Nat
  BY DEF Readings
<1>4. \A r \in Readings, f \in Fields : r[f] \in Nat
  <2> TAKE r \in Readings, f \in Fields
  <2>1. r["cu"] \in Nat /\ r["au"] \in Nat
    BY <1>3, Zenon
  <2>2. f = "cu" \/ f = "au"
    BY DEF Fields
  <2> QED
    BY <2>1, <2>2, Zenon
<1>5. \A f \in Fields : Silent[f] = Nil
  BY DEF Fields, Silent
<1>6. NoJob \notin Jobs
  BY <1>1 DEF NoJob, Jobs
<1>7. NoRows \in [Nodes -> AnyRow]
  BY DEF NoRows, AnyRow
<1> QED
  BY <1>1, <1>2, <1>3, <1>4, <1>5, <1>6, <1>7 DEF AnyRow, Carries

\* What one gauge write does.
FieldWritten(w) == gauge' = [gauge EXCEPT ![job[w].node][job[w].source][job[w].field]
                                       = SetGauge(@, job[w].row[job[w].field])]
LEMMA GaugeJob ==
  ASSUME gauge \in [Nodes -> [Sources -> Readings]],
         NEW n \in Nodes, NEW s \in Sources, NEW f \in Fields, NEW v \in Nat, NEW w,
         n = job[w].node, s = job[w].source, f = job[w].field, v = job[w].row[job[w].field],
         FieldWritten(w)
  PROVE  /\ gauge' \in [Nodes -> [Sources -> Readings]]
         /\ gauge'[n][s][f] = SetGauge(gauge[n][s][f], v)
         /\ \A m \in Nodes, t \in Sources, e \in Fields :
               m # n \/ t # s \/ e # f => gauge'[m][t][e] = gauge[m][t][e]
<1> PICK x : x = SetGauge(gauge[n][s][f], v)
  OBVIOUS
<1> PICK a : a = gauge[n][s]
  BY Zenon
<1> PICK b : b = [a EXCEPT ![f] = x]
  BY Zenon
<1>1. a \in Readings /\ gauge[n] \in [Sources -> Readings]
  BY Zenon
<1>2. x \in Nat
  <2>1. a[f] \in Nat
    BY <1>1, RowFacts, Zenon
  <2> QED
    BY <2>1, Zenon DEF SetGauge
<1>3. b \in Readings /\ b[f] = x /\ \A e \in Fields : e # f => b[e] = a[e]
  <2>1. CASE f = "cu"
    BY <1>1, <1>2, <2>1, Zenon DEF Readings, Fields
  <2>2. CASE f = "au"
    BY <1>1, <1>2, <2>2, Zenon DEF Readings, Fields
  <2> QED
    BY <2>1, <2>2, Zenon DEF Fields
<1>4. gauge' = [gauge EXCEPT ![n] = [gauge[n] EXCEPT ![s] = b]]
  <2>1. gauge' = [gauge EXCEPT ![n][s][f] = SetGauge(@, v)]
    BY Zenon DEF FieldWritten
  <2> QED
    BY <2>1, Zenon
<1>5. gauge'[n] = [gauge[n] EXCEPT ![s] = b] /\ \A m \in Nodes : m # n => gauge'[m] = gauge[m]
  BY <1>4, Zenon
<1>6. gauge'[n][s] = b /\ \A t \in Sources : t # s => gauge'[n][t] = gauge[n][t]
  BY <1>1, <1>5, Zenon
<1>7. gauge' \in [Nodes -> [Sources -> Readings]]
  <2>1. DOMAIN gauge' = Nodes /\ gauge' = [m \in DOMAIN gauge' |-> gauge'[m]]
    BY <1>4, Zenon
  <2>2. gauge'[n] \in [Sources -> Readings]
    <3>1. [gauge[n] EXCEPT ![s] = b] \in [Sources -> Readings]
      BY <1>1, <1>3, Zenon
    <3> QED
      BY <1>5, <3>1, Zenon
  <2>3. \A m \in Nodes : gauge'[m] \in [Sources -> Readings]
    BY <1>5, <2>2, Zenon
  <2> QED
    BY <2>1, <2>3, Zenon
<1>8. gauge'[n][s][f] = x
  BY <1>3, <1>6, Zenon
<1>9. ASSUME NEW m \in Nodes, NEW t \in Sources, NEW e \in Fields, m # n \/ t # s \/ e # f
      PROVE  gauge'[m][t][e] = gauge[m][t][e]
  <2>1. CASE m # n
    BY <1>5, <2>1, Zenon
  <2>2. CASE m = n /\ t # s
    BY <1>6, <2>2, Zenon
  <2>3. CASE m = n /\ t = s /\ e # f
    <3>1. b[e] = a[e]
      BY <1>3, <2>3, Zenon
    <3>2. gauge'[m][t] = b /\ gauge[m][t] = a
      BY <1>6, <2>3, Zenon
    <3> QED
      BY <3>1, <3>2, Zenon
  <2> QED
    BY <1>9, <2>1, <2>2, <2>3, Zenon
<1> QED
  BY <1>7, <1>8, <1>9, Zenon

LEMMA UnstartedFits ==
    Unstarted /\ radio \in [Nodes -> Rows] /\ now \in Nat => GaugeInv
<1> SUFFICES ASSUME Unstarted, radio \in [Nodes -> Rows], now \in Nat PROVE GaugeInv
  OBVIOUS
<1>1. /\ \A w \in Writers : job[w] = NoJob
      /\ \A n \in Nodes : /\ rows[n] = None /\ snap[n] = None /\ heard[n] = Silent
                          /\ stamp[n] = 0 /\ shown[n] = 0
                          /\ \A s \in Sources : gauge[n][s] = Silent
  BY DEF Unstarted, NoRows
<1>2. MetricsTyped
  BY RowFacts DEF Unstarted, MetricsTyped
<1>3. JobsFollow
  BY <1>1 DEF JobsFollow, Idle
<1>4. CopiesFollow
  BY <1>1 DEF CopiesFollow, Unstarted
<1>5. NodeDBFollows
  BY <1>1 DEF NodeDBFollows
<1>6. TelemetryFollows
  <2>1. "reader" \in Writers /\ NoJob.source = "nodedb" /\ "telemetry" \in Sources
    BY DEF Writers, NoJob, Sources
  <2>2. \A n \in Nodes, f \in Fields : ~Pending("reader", n, "telemetry", f)
    BY <1>1, <2>1 DEF Pending
  <2> QED
    BY <1>1, <2>1, <2>2 DEF TelemetryFollows
<1>7. Stamped
  BY <1>1 DEF Stamped
<1> QED
  BY <1>2, <1>3, <1>4, <1>5, <1>6, <1>7 DEF GaugeInv

LEMMA GaugeFrame == ASSUME GaugeInv, UNCHANGED mvars, cfg' = cfg PROVE GaugeInv'
<1>1. UNCHANGED <<radio, rows, gauge, stamp, now, lock, job, got, snap, heard, shown, raced>>
  BY DEF mvars
<1>2. (On' <=> On) /\ (OwnSweep' <=> OwnSweep)
  BY DEF On, OwnSweep, EffectiveNodeDBRefreshInterval
<1>3. MetricsTyped'
  BY <1>1 DEF GaugeInv, MetricsTyped
<1>4. JobsFollow' /\ CopiesFollow' /\ Stamped'
  BY <1>1, <1>2 DEF GaugeInv, JobsFollow, CopiesFollow, Stamped, Idle, Writing
<1>5. NodeDBFollows' /\ TelemetryFollows'
  BY <1>1, <1>2 DEF GaugeInv, NodeDBFollows, TelemetryFollows, Pending
<1> QED
  BY <1>3, <1>4, <1>5 DEF GaugeInv

\* An agent that is past its start keeps its configuration.
LEMMA UpKeepsConfig ==
  ASSUME ProcessInv, ProcessNext, step \in Up
  PROVE  step' \in Up /\ cfg' = cfg
<1>1. pc \in {"started", "refused"}
  BY DEF ProcessInv, Placed, Up
<1>2. ASSUME Configure PROVE FALSE
  BY <1>1, <1>2 DEF Configure, Next, Edit, EnsureAgentConfigFile, EditorSaves, Unread, Invoke, Load, Stat,
     LoadRaw, ApplySetPaths, ApplyFlags, Finalize
<1>3. CASE ConfigError \/ Listen
  BY <1>1, <1>3 DEF ConfigError, Listen, Up
<1>4. CASE Signal \/ AwaitSecondSignal \/ TickersPanic \/ Exit
  BY <1>4 DEF Signal, AwaitSecondSignal, TickersPanic, Exit, cvars
<1>5. CASE StepSucceeds
  BY <1>5 DEF StepSucceeds, StepOrder, Up, cvars
<1>6. CASE StepFails \/ StepCanceled
  BY <1>6 DEF StepFails, StepCanceled, Up, cvars
<1>7. CASE ReaderStops \/ SelectErr \/ ContextDone \/ AwaitReadLoop \/ PollerPanics
  BY <1>7 DEF ReaderStops, SelectErr, ContextDone, AwaitReadLoop, PollerPanics, Up, cvars
<1> QED
  BY <1>2, <1>3, <1>4, <1>5, <1>6, <1>7 DEF ProcessNext

-----------------------------------------------------------------------------
(* What the start, a write and any other step does to the invariant.       *)

\* The gauges are there with the agent, and show the rows it starts with.
LEMMA PublishFits ==
  ASSUME GaugeInv, Unstarted, Publish, cfg' = cfg
  PROVE  GaugeInv'
<1>1. /\ \A w \in Writers : job'[w] = NoJob
      /\ \A n \in Nodes : /\ snap'[n] = None /\ heard'[n] = Silent /\ rows'[n] = radio[n]
                          /\ \A s \in Sources : gauge[n][s] = Silent
      /\ raced' = {} /\ snap' = NoRows /\ now' = now /\ radio' = radio /\ got' = got
      /\ job' = job /\ heard' = heard
  BY DEF Unstarted, NoRows, Publish
<1>t. MetricsTyped
  BY DEF GaugeInv
<1>2. (On' <=> On) /\ (OwnSweep' <=> OwnSweep)
  BY DEF On, OwnSweep, EffectiveNodeDBRefreshInterval
<1>3. /\ gauge' \in [Nodes -> [Sources -> Readings]]
      /\ \A n \in Nodes : On => gauge'[n] = [gauge[n] EXCEPT !["nodedb"] = radio[n]]
  <2>1. CASE On
    <3>1. gauge' = [n \in Nodes |-> [gauge[n] EXCEPT !["nodedb"] = radio[n]]]
      BY <2>1 DEF Publish
    <3>2. \A n \in Nodes : radio[n] \in Readings /\ gauge[n] \in [Sources -> Readings]
      BY <1>t, RowFacts DEF MetricsTyped
    <3>3. \A n \in Nodes : [gauge[n] EXCEPT !["nodedb"] = radio[n]] \in [Sources -> Readings]
      BY <3>2
    <3> QED
      BY <3>1, <3>3
  <2>2. CASE ~On
    BY <1>t, <2>2 DEF Publish, MetricsTyped
  <2> QED
    BY <2>1, <2>2
<1>4. stamp' \in [Nodes -> Nat] /\ shown' = stamp' /\ \A n \in Nodes : stamp'[n] <= now
  <2>1. CASE On
    <3>1. stamp' = [n \in Nodes |-> IF Carries(radio[n]) THEN now ELSE 0] /\ shown' = stamp'
      BY <2>1 DEF Publish
    <3>2. now \in Nat
      BY <1>t DEF MetricsTyped
    <3> QED
      BY <3>1, <3>2
  <2>2. CASE ~On
    <3>1. stamp' = [n \in Nodes |-> 0] /\ shown' = [n \in Nodes |-> 0] /\ now \in Nat
      BY <1>t, <2>2 DEF Publish, Unstarted, MetricsTyped
    <3> QED
      BY <3>1
  <2> QED
    BY <2>1, <2>2
<1>5. MetricsTyped'
  <2>1. rows' \in [Nodes -> AnyRow]
    BY <1>t DEF Publish, MetricsTyped, AnyRow
  <2> QED
    BY <1>1, <1>t, <1>3, <1>4, <2>1, RowFacts DEF MetricsTyped
<1>6. JobsFollow'
  BY <1>1 DEF JobsFollow, Idle
<1>7. CopiesFollow'
  BY <1>1 DEF CopiesFollow, NoRows
<1>8. NodeDBFollows'
  <2> SUFFICES ASSUME On, NEW n \in Nodes, NEW f \in Fields PROVE gauge'[n]["nodedb"][f] = rows'[n][f]
    BY <1>2 DEF NodeDBFollows
  <2>1. "nodedb" \in Sources /\ gauge[n] \in [Sources -> Readings]
    BY <1>t DEF Sources, MetricsTyped
  <2> QED
    BY <1>1, <1>3, <2>1
<1>9. TelemetryFollows'
  <2> SUFFICES ASSUME On, NEW n \in Nodes, NEW f \in Fields
               PROVE  heard'[n][f] = gauge'[n]["telemetry"][f] /\ ~Pending("reader", n, "telemetry", f)'
    BY <1>2 DEF TelemetryFollows
  <2>1. {"telemetry", "nodedb"} \subseteq Sources /\ gauge[n] \in [Sources -> Readings]
    BY <1>t DEF Sources, MetricsTyped
  <2>2. gauge'[n]["telemetry"] = Silent
    BY <1>1, <1>3, <2>1
  <2>3. ~Pending("reader", n, "telemetry", f)'
    BY <1>1 DEF Pending, Writers, NoJob
  <2> QED
    BY <1>1, <2>2, <2>3
<1>10. Stamped'
  BY <1>1, <1>4, <1>t DEF Stamped, MetricsTyped
<1> QED
  BY <1>5, <1>6, <1>7, <1>8, <1>9, <1>10 DEF GaugeInv

\* A step that leaves the gauges, the jobs and the agent's rows alone.
LEMMA OthersFit ==
  ASSUME GaugeInv, cfg' = cfg, UNCHANGED <<rows, gauge, stamp, lock, job, snap, heard, shown, raced>>,
         radio' \in [Nodes -> Rows], got' \in [Writers -> [Nodes -> AnyRow]], now' \in Nat, now <= now'
  PROVE  GaugeInv'
<1>2. (On' <=> On) /\ (OwnSweep' <=> OwnSweep)
  BY DEF On, OwnSweep, EffectiveNodeDBRefreshInterval
<1>3. MetricsTyped'
  BY DEF GaugeInv, MetricsTyped
<1>4. JobsFollow' /\ CopiesFollow'
  BY <1>2 DEF GaugeInv, JobsFollow, CopiesFollow, Idle
<1>5. NodeDBFollows' /\ TelemetryFollows'
  BY <1>2 DEF GaugeInv, NodeDBFollows, TelemetryFollows, Pending
<1>6. Stamped'
  <2> SUFFICES ASSUME NEW n \in Nodes PROVE shown[n] <= now' /\ (Writing(n)' \/ shown[n] <= stamp[n])
    BY DEF Stamped
  <2>1. Writing(n)' <=> Writing(n)
    BY DEF Writing
  <2>2. shown[n] <= now /\ (Writing(n) \/ shown[n] <= stamp[n])
    BY DEF GaugeInv, Stamped
  <2>3. shown[n] \in Nat /\ now \in Nat
    BY DEF GaugeInv, MetricsTyped
  <2> QED
    BY <2>1, <2>2, <2>3
<1> QED
  BY <1>3, <1>4, <1>5, <1>6 DEF GaugeInv

\* A job of writer w, and what is known of it.
LEMMA JobKnown ==
  ASSUME GaugeInv, NEW w \in Writers, ~Idle(w)
  PROVE  /\ job[w] \in Jobs /\ job[w].node \in Nodes /\ job[w].source \in Sources
         /\ job[w].row \in Readings /\ job[w].field \in {"cu", "au", "stamp"}
         /\ job[w].row \in Rows
<1>1. job[w] \in Jobs
  BY DEF GaugeInv, MetricsTyped, Idle
<1> QED
  BY <1>1, RowFacts DEF Jobs

\* Nobody idle writes: a writer that is at rest has no node.
LEMMA IdleKnown ==
  ASSUME NEW w \in Writers, Idle(w), NEW n \in Nodes
  PROVE  job[w].node # n /\ \A s, f : ~Pending(w, n, s, f)
BY RowFacts DEF Idle, NoJob, Pending

\* One gauge is written.
LEMMA FieldFits ==
  ASSUME GaugeInv, cfg' = cfg, NEW w \in Writers, ~Idle(w), job[w].field \in Fields,
         FieldWritten(w),
         shown' = [shown EXCEPT ![job[w].node] = now],
         job' = [job EXCEPT ![w].field = IF @ = "cu" THEN "au" ELSE "stamp"],
         UNCHANGED <<stamp, lock, radio, rows, now, got, snap, heard, raced>>
  PROVE  GaugeInv'
<1> PICK j : j = job[w]
  OBVIOUS
<1> PICK n : n = j.node
  OBVIOUS
<1> PICK s : s = j.source
  OBVIOUS
<1> PICK f : f = j.field
  OBVIOUS
<1> PICK v : v = j.row[f]
  OBVIOUS
<1>1. j \in Jobs /\ n \in Nodes /\ s \in Sources /\ j.row \in Readings /\ f \in Fields /\ v \in Nat
      /\ j.row \in Rows
  <2>1. j \in Jobs /\ n \in Nodes /\ s \in Sources /\ j.row \in Readings /\ f \in Fields /\ j.row \in Rows
    BY JobKnown
  <2> QED
    BY <2>1, RowFacts
<1>t. MetricsTyped
  BY DEF GaugeInv
<1>2. (On' <=> On) /\ (OwnSweep' <=> OwnSweep)
  BY DEF On, OwnSweep, EffectiveNodeDBRefreshInterval
<1>3. /\ gauge' \in [Nodes -> [Sources -> Readings]]
      /\ gauge'[n][s][f] = SetGauge(gauge[n][s][f], v)
      /\ \A m \in Nodes, t \in Sources, e \in Fields :
            m # n \/ t # s \/ e # f => gauge'[m][t][e] = gauge[m][t][e]
  <2>1. gauge \in [Nodes -> [Sources -> Readings]]
    BY <1>t DEF MetricsTyped
  <2>2. n = job[w].node /\ s = job[w].source /\ f = job[w].field /\ v = job[w].row[job[w].field] /\ FieldWritten(w)
    OBVIOUS
  <2>3. gauge' \in [Nodes -> [Sources -> Readings]]
    BY <1>1, <2>1, <2>2, GaugeJob
  <2>4. gauge'[n][s][f] = SetGauge(gauge[n][s][f], v)
    BY <1>1, <2>1, <2>2, GaugeJob
  <2>5. \A m \in Nodes, t \in Sources, e \in Fields :
           m # n \/ t # s \/ e # f => gauge'[m][t][e] = gauge[m][t][e]
    BY <1>1, <2>1, <2>2, GaugeJob
  <2> QED
    BY <2>3, <2>4, <2>5
<1> PICK next_ : next_ = IF f = "cu" THEN "au" ELSE "stamp"
  OBVIOUS
<1> PICK k : k = [j EXCEPT !.field = next_]
  OBVIOUS
<1>4. /\ k \in Jobs /\ k.node = n /\ k.source = s /\ k.row = j.row /\ k.field = next_ /\ k # NoJob
  <2>1. next_ \in {"au", "stamp"}
    OBVIOUS
  <2>2. k \in Jobs /\ k.node = n /\ k.source = s /\ k.row = j.row /\ k.field = next_
    BY <1>1, <2>1 DEF Jobs
  <2> QED
    BY <2>2, RowFacts
<1>5. job' \in [Writers -> Jobs \cup {NoJob}] /\ job'[w] = k /\ \A u \in Writers \ {w} : job'[u] = job[u]
  <2>1. job \in [Writers -> Jobs \cup {NoJob}]
    BY <1>t DEF MetricsTyped
  <2>2. job' = [job EXCEPT ![w] = k]
    BY <2>1
  <2> QED
    BY <1>4, <2>1, <2>2
<1>6. shown' \in [Nodes -> Nat] /\ shown'[n] = now /\ \A m \in Nodes \ {n} : shown'[m] = shown[m]
  <2>1. shown' = [shown EXCEPT ![n] = now] /\ shown \in [Nodes -> Nat] /\ now \in Nat
    BY <1>t DEF MetricsTyped
  <2> QED
    BY <1>1, <2>1
<1>7. MetricsTyped'
  BY <1>t, <1>3, <1>5, <1>6 DEF MetricsTyped
<1>8. JobsFollow'
  <2> SUFFICES ASSUME NEW u \in Writers, ~Idle(u)'
               PROVE  /\ job'[u].source = "telemetry" => u = "reader"
                      /\ job'[u].source = "nodedb" =>
                            /\ job'[u].node \notin raced => job'[u].row = rows[job'[u].node]
                            /\ u # "refresher" \/ OwnSweep => lock = u
    BY <1>2 DEF JobsFollow
  <2>1. ~Idle(u) /\ job'[u].source = job[u].source /\ job'[u].node = job[u].node /\ job'[u].row = job[u].row
    <3>1. CASE u = w
      BY <1>4, <1>5, <3>1
    <3>2. CASE u # w
      BY <1>5, <3>2 DEF Idle
    <3> QED
      BY <3>1, <3>2
  <2> QED
    BY <2>1 DEF GaugeInv, JobsFollow
<1>9. CopiesFollow'
  BY <1>2 DEF GaugeInv, CopiesFollow
<1>p. \A u \in Writers, m \in Nodes, t \in Sources, e \in Fields :
         Pending(u, m, t, e)' <=> Pending(u, m, t, e) /\ ~(u = w /\ e = f)
  <2> SUFFICES ASSUME NEW u \in Writers, NEW m \in Nodes, NEW t \in Sources, NEW e \in Fields
               PROVE  Pending(u, m, t, e)' <=> Pending(u, m, t, e) /\ ~(u = w /\ e = f)
    OBVIOUS
  <2>1. CASE u # w
    BY <1>5, <2>1 DEF Pending
  <2>2. CASE u = w
    BY <1>1, <1>4, <1>5, <2>2 DEF Pending, Fields
  <2> QED
    BY <2>1, <2>2
<1>10. NodeDBFollows'
  <2> SUFFICES ASSUME On, NEW m \in Nodes, NEW e \in Fields,
                      rows[m] # None, m \notin raced, snap[m] = None, rows[m][e] # Nil
               PROVE  \/ gauge'[m]["nodedb"][e] = rows[m][e]
                      \/ \E u \in Writers : Pending(u, m, "nodedb", e)'
    BY <1>2 DEF NodeDBFollows
  <2>1. "nodedb" \in Sources
    BY DEF Sources
  <2>2. \/ gauge[m]["nodedb"][e] = rows[m][e]
        \/ \E u \in Writers : Pending(u, m, "nodedb", e)
    BY DEF GaugeInv, NodeDBFollows
  <2>3. CASE m = n /\ s = "nodedb" /\ e = f
    <3>1. v = rows[n][f]
      BY <2>3 DEF GaugeInv, JobsFollow
    <3> QED
      BY <1>3, <2>3, <3>1 DEF SetGauge
  <2>4. CASE m # n \/ s # "nodedb" \/ e # f
    <3>1. gauge'[m]["nodedb"][e] = gauge[m]["nodedb"][e]
      BY <1>3, <2>1, <2>4
    <3>2. ASSUME NEW u \in Writers, Pending(u, m, "nodedb", e) PROVE Pending(u, m, "nodedb", e)'
      <4>1. ~(u = w /\ e = f)
        BY <2>4, <3>2 DEF Pending
      <4> QED
        BY <1>p, <2>1, <3>2, <4>1
    <3> QED
      BY <2>2, <3>1, <3>2
  <2> QED
    BY <2>3, <2>4
<1>11. TelemetryFollows'
  <2> SUFFICES ASSUME On, NEW m \in Nodes, NEW e \in Fields
               PROVE  heard[m][e] = IF Pending("reader", m, "telemetry", e)'
                                    THEN SetGauge(gauge'[m]["telemetry"][e], job'["reader"].row[e])
                                    ELSE gauge'[m]["telemetry"][e]
    BY <1>2 DEF TelemetryFollows
  <2>1. "telemetry" \in Sources /\ "reader" \in Writers
    BY DEF Sources, Writers
  <2>2. heard[m][e] = IF Pending("reader", m, "telemetry", e)
                      THEN SetGauge(gauge[m]["telemetry"][e], job["reader"].row[e])
                      ELSE gauge[m]["telemetry"][e]
    BY DEF GaugeInv, TelemetryFollows
  <2>3. CASE m = n /\ s = "telemetry" /\ e = f
    <3>1. w = "reader"
      BY <2>3 DEF GaugeInv, JobsFollow
    <3>2. Pending("reader", m, "telemetry", e)
      BY <1>1, <2>3, <3>1 DEF Pending, Fields
    <3>3. ~Pending("reader", m, "telemetry", e)'
      BY <1>p, <2>1, <2>3, <3>1
    <3> QED
      BY <1>3, <2>2, <2>3, <3>1, <3>2, <3>3
  <2>4. CASE m # n \/ s # "telemetry" \/ e # f
    <3>1. gauge'[m]["telemetry"][e] = gauge[m]["telemetry"][e]
      BY <1>3, <2>1, <2>4
    <3>2. Pending("reader", m, "telemetry", e)' <=> Pending("reader", m, "telemetry", e)
      <4>1. Pending("reader", m, "telemetry", e) => ~("reader" = w /\ e = f)
        BY <2>4 DEF Pending
      <4> QED
        BY <1>p, <2>1, <4>1
    <3>3. job'["reader"].row = job["reader"].row
      BY <1>4, <1>5, <2>1
    <3> QED
      BY <2>2, <3>1, <3>2, <3>3
  <2> QED
    BY <2>3, <2>4
<1>12. Stamped'
  <2> SUFFICES ASSUME NEW m \in Nodes PROVE shown'[m] <= now /\ (Writing(m)' \/ shown'[m] <= stamp[m])
    BY DEF Stamped
  <2>1. CASE m = n
    <3>1. Writing(n)' /\ now \in Nat
      BY <1>4, <1>5, <1>t DEF Writing, MetricsTyped
    <3> QED
      BY <1>6, <2>1, <3>1
  <2>2. CASE m # n
    <3>1. Writing(m) => Writing(m)'
      BY <1>5, <2>2 DEF Writing
    <3> QED
      BY <1>6, <2>2, <3>1 DEF GaugeInv, Stamped
  <2> QED
    BY <2>1, <2>2
<1> QED
  BY <1>7, <1>8, <1>9, <1>10, <1>11, <1>12 DEF GaugeInv

\* The last write of an update: the timestamp, and the mutex if it was held.
LEMMA StampFits ==
  ASSUME GaugeInv, cfg' = cfg, NEW w \in Writers, ~Idle(w), job[w].field = "stamp",
         stamp' = [stamp EXCEPT ![job[w].node] = now], job' = [job EXCEPT ![w] = NoJob],
         lock' = IF lock = w THEN "free" ELSE lock,
         UNCHANGED <<gauge, shown, radio, rows, now, got, snap, heard, raced>>
  PROVE  GaugeInv'
<1>t. MetricsTyped
  BY DEF GaugeInv
<1>2. (On' <=> On) /\ (OwnSweep' <=> OwnSweep)
  BY DEF On, OwnSweep, EffectiveNodeDBRefreshInterval
<1>3. /\ job' \in [Writers -> Jobs \cup {NoJob}]
      /\ job'[w] = NoJob /\ \A u \in Writers \ {w} : job'[u] = job[u]
  BY <1>t DEF MetricsTyped
<1>4. /\ stamp' \in [Nodes -> Nat] /\ stamp'[job[w].node] = now
      /\ \A m \in Nodes : m # job[w].node => stamp'[m] = stamp[m]
  <2>1. job[w].node \in Nodes /\ stamp \in [Nodes -> Nat] /\ now \in Nat
    BY <1>t, JobKnown DEF MetricsTyped
  <2> QED
    BY <2>1
<1>5. MetricsTyped'
  BY <1>t, <1>3, <1>4 DEF MetricsTyped
<1>6. JobsFollow'
  <2> SUFFICES ASSUME NEW u \in Writers, ~Idle(u)'
               PROVE  /\ job'[u].source = "telemetry" => u = "reader"
                      /\ job'[u].source = "nodedb" =>
                            /\ job'[u].node \notin raced => job'[u].row = rows[job'[u].node]
                            /\ u # "refresher" \/ OwnSweep => lock' = u
    BY <1>2 DEF JobsFollow
  <2>1. u # w /\ ~Idle(u) /\ job'[u] = job[u]
    BY <1>3 DEF Idle
  <2> QED
    BY <2>1 DEF GaugeInv, JobsFollow
<1>7. CopiesFollow'
  BY <1>2 DEF GaugeInv, CopiesFollow
<1>p. \A u \in Writers, m \in Nodes, t \in Sources, e \in Fields :
         Pending(u, m, t, e)' <=> Pending(u, m, t, e)
  <2> SUFFICES ASSUME NEW u \in Writers, NEW m \in Nodes, NEW t \in Sources, NEW e \in Fields
               PROVE  Pending(u, m, t, e)' <=> Pending(u, m, t, e)
    OBVIOUS
  <2>1. CASE u # w
    BY <1>3, <2>1 DEF Pending
  <2>2. CASE u = w
    BY <1>3, <2>2, RowFacts DEF Pending, NoJob
  <2> QED
    BY <2>1, <2>2
<1>8. NodeDBFollows'
  <2> SUFFICES ASSUME On, NEW m \in Nodes, NEW e \in Fields,
                      rows[m] # None, m \notin raced, snap[m] = None, rows[m][e] # Nil
               PROVE  \/ gauge[m]["nodedb"][e] = rows[m][e]
                      \/ \E u \in Writers : Pending(u, m, "nodedb", e)'
    BY <1>2 DEF NodeDBFollows
  <2> QED
    BY <1>p DEF GaugeInv, NodeDBFollows, Sources
<1>9. TelemetryFollows'
  <2> SUFFICES ASSUME On, NEW m \in Nodes, NEW e \in Fields
               PROVE  heard[m][e] = IF Pending("reader", m, "telemetry", e)'
                                    THEN SetGauge(gauge[m]["telemetry"][e], job'["reader"].row[e])
                                    ELSE gauge[m]["telemetry"][e]
    BY <1>2 DEF TelemetryFollows
  <2>1. Pending("reader", m, "telemetry", e)' <=> Pending("reader", m, "telemetry", e)
    BY <1>p DEF Sources, Writers
  <2>2. Pending("reader", m, "telemetry", e) => job'["reader"] = job["reader"]
    <3>1. Pending("reader", m, "telemetry", e) => w # "reader"
      BY DEF Pending
    <3> QED
      BY <1>3, <3>1 DEF Writers
  <2> QED
    BY <2>1, <2>2 DEF GaugeInv, TelemetryFollows
<1>10. Stamped'
  <2> SUFFICES ASSUME NEW m \in Nodes PROVE shown[m] <= now /\ (Writing(m)' \/ shown[m] <= stamp'[m])
    BY DEF Stamped
  <2>1. shown[m] <= now /\ (Writing(m) \/ shown[m] <= stamp[m])
    BY DEF GaugeInv, Stamped
  <2>2. CASE m = job[w].node
    BY <1>4, <2>1, <2>2
  <2>3. CASE m # job[w].node
    <3>1. Writing(m) => Writing(m)'
      BY <1>3, <2>3 DEF Writing
    <3> QED
      BY <1>4, <2>1, <2>3, <3>1
  <2> QED
    BY <2>2, <2>3
<1> QED
  BY <1>5, <1>6, <1>7, <1>8, <1>9, <1>10 DEF GaugeInv

\* An idle writer begins an update, or stays idle: the others' updates go on.
LEMMA JobBegins ==
  ASSUME GaugeInv, NEW w \in Writers, Idle(w), NEW n \in Nodes, NEW s \in Sources, NEW r \in Rows,
         NEW k, k = Update(n, s, r), job' = [job EXCEPT ![w] = k] \/ UNCHANGED job,
         UNCHANGED <<shown, stamp, now>>
  PROVE  /\ job' \in [Writers -> Jobs \cup {NoJob}]
         /\ job'[w] \in {k, NoJob} /\ \A u \in Writers \ {w} : job'[u] = job[u]
         /\ k.node = n /\ k.source = s /\ k.row = r /\ k.field = "cu"
         /\ \A u \in Writers, m \in Nodes, t \in Sources, e \in Fields :
               Pending(u, m, t, e)' <=>
                  Pending(u, m, t, e) \/ (u = w /\ job'[w] = k /\ m = n /\ t = s)
         /\ Stamped'
<1>t. MetricsTyped
  BY DEF GaugeInv
<1>1. k \in Jobs /\ k.node = n /\ k.source = s /\ k.row = r /\ k.field = "cu"
  BY DEF Update, Jobs
<1>2. /\ job' \in [Writers -> Jobs \cup {NoJob}]
      /\ job'[w] \in {k, NoJob} /\ \A u \in Writers \ {w} : job'[u] = job[u]
  BY <1>1, <1>t DEF MetricsTyped, Idle
<1>3. ASSUME NEW u \in Writers, NEW m \in Nodes, NEW t \in Sources, NEW e \in Fields
      PROVE  Pending(u, m, t, e)' <=>
                Pending(u, m, t, e) \/ (u = w /\ job'[w] = k /\ m = n /\ t = s)
  <2>1. CASE u # w
    BY <1>2, <1>3, <2>1 DEF Pending
  <2>2. CASE u = w /\ job'[w] = k
    BY <1>1, <1>3, <2>2, IdleKnown DEF Pending
  <2>3. CASE u = w /\ job'[w] # k
    <3>1. job'[w].node = "none"
      BY <1>2, <2>3 DEF NoJob
    <3>2. ~Pending(u, m, t, e)
      BY <2>3, IdleKnown
    <3> QED
      BY <1>3, <2>3, <3>1, <3>2, RowFacts DEF Pending
  <2> QED
    BY <2>1, <2>2, <2>3
<1>4. Stamped'
  <2> SUFFICES ASSUME NEW m \in Nodes PROVE shown[m] <= now /\ (Writing(m)' \/ shown[m] <= stamp[m])
    BY DEF Stamped
  <2>1. Writing(m) => Writing(m)'
    <3>1. job[w].node # m
      BY IdleKnown
    <3> QED
      BY <1>2, <3>1 DEF Writing
  <2> QED
    BY <2>1 DEF GaugeInv, Stamped
<1> QED
  BY <1>1, <1>2, <1>3, <1>4

\* storeNode: the row and the update to publish it, under the mutex.
LEMMA StoreFits ==
  ASSUME GaugeInv, cfg' = cfg, NEW w \in Writers, Idle(w), NEW n \in Nodes, NEW r \in Rows,
         StoreNode(w, n, r), got' \in [Writers -> [Nodes -> AnyRow]]
  PROVE  GaugeInv'
<1>t. MetricsTyped
  BY DEF GaugeInv
<1> PICK k : k = Update(n, "nodedb", r)
  OBVIOUS
<1>s. "nodedb" \in Sources /\ "telemetry" \in Sources /\ "reader" \in Writers /\ "refresher" \in Writers
  BY DEF Sources, Writers
<1>2. (On' <=> On) /\ (OwnSweep' <=> OwnSweep)
  BY DEF On, OwnSweep, EffectiveNodeDBRefreshInterval
<1>3. /\ lock = "free" /\ rows' = [rows EXCEPT ![n] = r]
      /\ raced' = IF Republishing THEN raced \cup {n} ELSE raced \ {n}
      /\ UNCHANGED <<radio, changes, gauge, stamp, now, snap, heard, packets, shown>>
      /\ job' = [job EXCEPT ![w] = k] \/ UNCHANGED job
      /\ On /\ Carries(r) => job' = [job EXCEPT ![w] = k] /\ lock' = w
      /\ ~(On /\ Carries(r)) => UNCHANGED <<job, lock>>
  BY DEF StoreNode, Locks
<1>4. /\ job' \in [Writers -> Jobs \cup {NoJob}]
      /\ job'[w] \in {k, NoJob} /\ \A u \in Writers \ {w} : job'[u] = job[u]
      /\ k.node = n /\ k.source = "nodedb" /\ k.row = r /\ k.field = "cu"
      /\ \A u \in Writers, m \in Nodes, t \in Sources, e \in Fields :
            Pending(u, m, t, e)' <=>
               Pending(u, m, t, e) \/ (u = w /\ job'[w] = k /\ m = n /\ t = "nodedb")
      /\ Stamped'
  BY <1>s, <1>3, JobBegins
<1>5. rows' \in [Nodes -> AnyRow] /\ rows'[n] = r /\ \A m \in Nodes \ {n} : rows'[m] = rows[m]
  BY <1>3, <1>t DEF MetricsTyped, AnyRow
<1>6. On /\ Carries(r) => job'[w] = k
  BY <1>3, <1>t DEF MetricsTyped
<1>7. MetricsTyped'
  BY <1>3, <1>4, <1>5, <1>t DEF MetricsTyped
<1>8. JobsFollow'
  <2> SUFFICES ASSUME NEW u \in Writers, ~Idle(u)'
               PROVE  /\ job'[u].source = "telemetry" => u = "reader"
                      /\ job'[u].source = "nodedb" =>
                            /\ job'[u].node \notin raced' => job'[u].row = rows'[job'[u].node]
                            /\ u # "refresher" \/ OwnSweep => lock' = u
    BY <1>2 DEF JobsFollow
  <2>1. CASE u = w
    <3>1. job'[w] = k /\ lock' = w
      BY <1>3, <1>4, <2>1 DEF Idle
    <3> QED
      BY <1>4, <1>5, <2>1, <3>1
  <2>2. CASE u # w
    <3>1. ~Idle(u) /\ job'[u] = job[u]
      BY <1>4, <2>2 DEF Idle
    <3>2. job[u].source = "telemetry" => u = "reader"
      BY <3>1 DEF GaugeInv, JobsFollow
    <3>3. ASSUME job[u].source = "nodedb"
          PROVE  /\ u = "refresher" /\ ~OwnSweep
                 /\ job[u].node \notin raced' => job[u].row = rows'[job[u].node]
      <4>1. u = "refresher" /\ ~OwnSweep
        <5>1. u # "refresher" \/ OwnSweep => lock = u
          BY <3>1, <3>3 DEF GaugeInv, JobsFollow
        <5> QED
          BY <1>3, <5>1 DEF Writers
      <4>2. raced' = raced \cup {n}
        BY <1>3, <3>1, <4>1 DEF Republishing
      <4>3. job[u].node \notin raced => job[u].row = rows[job[u].node]
        BY <3>1, <3>3 DEF GaugeInv, JobsFollow
      <4>4. job[u].node \in Nodes
        BY <3>1, JobKnown
      <4> QED
        BY <1>5, <4>1, <4>2, <4>3, <4>4
    <3> QED
      BY <3>1, <3>2, <3>3
  <2> QED
    BY <2>1, <2>2
<1>9. CopiesFollow'
  <2>1. ASSUME OwnSweep PROVE snap = NoRows /\ raced' = {}
    BY <1>3, <2>1 DEF GaugeInv, CopiesFollow, Republishing
  <2>2. ASSUME NEW m \in Nodes, snap[m] # None, m \notin raced' PROVE snap[m] = rows'[m]
    <3>1. snap # NoRows
      BY <2>2 DEF NoRows
    <3>2. Republishing
      BY <3>1 DEF Republishing, GaugeInv, CopiesFollow
    <3>3. m # n /\ m \notin raced
      BY <1>3, <2>2, <3>2
    <3> QED
      BY <1>5, <2>2, <3>3 DEF GaugeInv, CopiesFollow
  <2> QED
    BY <1>2, <1>3, <2>1, <2>2 DEF CopiesFollow
<1>10. NodeDBFollows'
  <2> SUFFICES ASSUME On, NEW m \in Nodes, NEW e \in Fields,
                      rows'[m] # None, m \notin raced', snap[m] = None, rows'[m][e] # Nil
               PROVE  \/ gauge[m]["nodedb"][e] = rows'[m][e]
                      \/ \E u \in Writers : Pending(u, m, "nodedb", e)'
    BY <1>2, <1>3 DEF NodeDBFollows
  <2>1. CASE m = n
    <3>1. Carries(r)
      BY <1>5, <2>1, RowFacts DEF Carries
    <3>2. Pending(w, n, "nodedb", e)'
      BY <1>4, <1>6, <1>s, <3>1
    <3> QED
      BY <2>1, <3>2
  <2>2. CASE m # n
    <3>1. rows'[m] = rows[m] /\ m \notin raced
      BY <1>3, <1>5, <2>2
    <3>2. gauge[m]["nodedb"][e] = rows[m][e] \/ \E u \in Writers : Pending(u, m, "nodedb", e)
      BY <3>1 DEF GaugeInv, NodeDBFollows
    <3> QED
      BY <1>4, <1>s, <3>1, <3>2
  <2> QED
    BY <2>1, <2>2
<1>11. TelemetryFollows'
  <2> SUFFICES ASSUME On, NEW m \in Nodes, NEW e \in Fields
               PROVE  heard[m][e] = IF Pending("reader", m, "telemetry", e)'
                                    THEN SetGauge(gauge[m]["telemetry"][e], job'["reader"].row[e])
                                    ELSE gauge[m]["telemetry"][e]
    BY <1>2, <1>3 DEF TelemetryFollows
  <2>1. Pending("reader", m, "telemetry", e)' <=> Pending("reader", m, "telemetry", e)
    BY <1>4, <1>s
  <2>2. Pending("reader", m, "telemetry", e) => job'["reader"] = job["reader"]
    <3>1. Pending("reader", m, "telemetry", e) => w # "reader"
      BY IdleKnown
    <3> QED
      BY <1>4, <1>s, <3>1
  <2> QED
    BY <2>1, <2>2 DEF GaugeInv, TelemetryFollows
<1> QED
  BY <1>4, <1>7, <1>8, <1>9, <1>10, <1>11 DEF GaugeInv

\* A telemetry packet: its readings are heard, and the reader begins to publish them.
LEMMA HeardFits ==
  ASSUME GaugeInv, cfg' = cfg, NEW n \in Nodes, NEW r \in Rows, ReceiveTelemetry(n, r)
  PROVE  GaugeInv'
<1>t. MetricsTyped
  BY DEF GaugeInv
<1> PICK k : k = Update(n, "telemetry", r)
  OBVIOUS
<1>s. "nodedb" \in Sources /\ "telemetry" \in Sources /\ "reader" \in Writers
  BY DEF Sources, Writers
<1>2. (On' <=> On) /\ (OwnSweep' <=> OwnSweep)
  BY DEF On, OwnSweep, EffectiveNodeDBRefreshInterval
<1>3. /\ Idle("reader") /\ heard' = [heard EXCEPT ![n] = Merge(@, r)]
      /\ job' = [job EXCEPT !["reader"] = k] \/ UNCHANGED job
      /\ On => job' = [job EXCEPT !["reader"] = k]
      /\ UNCHANGED <<radio, changes, rows, gauge, stamp, now, lock, got, snap, shown, raced>>
  BY DEF ReceiveTelemetry
<1>4. /\ job' \in [Writers -> Jobs \cup {NoJob}]
      /\ job'["reader"] \in {k, NoJob} /\ \A u \in Writers \ {"reader"} : job'[u] = job[u]
      /\ k.node = n /\ k.source = "telemetry" /\ k.row = r /\ k.field = "cu"
      /\ \A u \in Writers, m \in Nodes, t \in Sources, e \in Fields :
            Pending(u, m, t, e)' <=>
               Pending(u, m, t, e) \/ (u = "reader" /\ job'["reader"] = k /\ m = n /\ t = "telemetry")
      /\ Stamped'
  BY <1>s, <1>3, JobBegins
<1> PICK old : old = heard[n]
  OBVIOUS
<1>5. /\ heard' \in [Nodes -> Readings] /\ \A m \in Nodes \ {n} : heard'[m] = heard[m]
      /\ \A e \in Fields : heard'[n][e] = SetGauge(heard[n][e], r[e])
  <2>1. old \in Readings /\ r \in Readings /\ heard \in [Nodes -> Readings]
    BY <1>t, RowFacts DEF MetricsTyped
  <2>2. Merge(old, r) \in Readings /\ \A e \in Fields : Merge(old, r)[e] = SetGauge(old[e], r[e])
    BY <2>1 DEF Merge, Readings, Fields, SetGauge
  <2>3. heard' = [heard EXCEPT ![n] = Merge(old, r)]
    BY <1>3
  <2> QED
    BY <2>1, <2>2, <2>3
<1>6. On => job'["reader"] = k
  BY <1>3, <1>s, <1>t DEF MetricsTyped
<1>7. MetricsTyped'
  BY <1>3, <1>4, <1>5, <1>t DEF MetricsTyped
<1>8. JobsFollow'
  <2> SUFFICES ASSUME NEW u \in Writers, ~Idle(u)'
               PROVE  /\ job'[u].source = "telemetry" => u = "reader"
                      /\ job'[u].source = "nodedb" =>
                            /\ job'[u].node \notin raced => job'[u].row = rows[job'[u].node]
                            /\ u # "refresher" \/ OwnSweep => lock = u
    BY <1>2, <1>3 DEF JobsFollow
  <2>1. CASE u = "reader"
    BY <1>4, <2>1 DEF Idle
  <2>2. CASE u # "reader"
    <3>1. ~Idle(u) /\ job'[u] = job[u]
      BY <1>4, <2>2 DEF Idle
    <3> QED
      BY <3>1 DEF GaugeInv, JobsFollow
  <2> QED
    BY <2>1, <2>2
<1>9. CopiesFollow'
  BY <1>2, <1>3 DEF GaugeInv, CopiesFollow
<1>10. NodeDBFollows'
  <2> SUFFICES ASSUME On, NEW m \in Nodes, NEW e \in Fields,
                      rows[m] # None, m \notin raced, snap[m] = None, rows[m][e] # Nil
               PROVE  \/ gauge[m]["nodedb"][e] = rows[m][e]
                      \/ \E u \in Writers : Pending(u, m, "nodedb", e)'
    BY <1>2, <1>3 DEF NodeDBFollows
  <2> QED
    BY <1>4, <1>s DEF GaugeInv, NodeDBFollows
<1>11. TelemetryFollows'
  <2> SUFFICES ASSUME On, NEW m \in Nodes, NEW e \in Fields
               PROVE  heard'[m][e] = IF Pending("reader", m, "telemetry", e)'
                                     THEN SetGauge(gauge[m]["telemetry"][e], job'["reader"].row[e])
                                     ELSE gauge[m]["telemetry"][e]
    BY <1>2, <1>3 DEF TelemetryFollows
  <2>1. ~Pending("reader", m, "telemetry", e)
    BY <1>3, <1>s, IdleKnown
  <2>2. heard[m][e] = gauge[m]["telemetry"][e]
    BY <2>1 DEF GaugeInv, TelemetryFollows
  <2>3. CASE m = n
    <3>1. Pending("reader", m, "telemetry", e)' /\ job'["reader"].row = r
      BY <1>4, <1>6, <1>s, <2>3
    <3> QED
      BY <1>5, <2>2, <2>3, <3>1
  <2>4. CASE m # n
    <3>1. ~Pending("reader", m, "telemetry", e)'
      BY <1>4, <1>s, <2>1, <2>4
    <3> QED
      BY <1>5, <2>2, <2>4, <3>1
  <2> QED
    BY <2>3, <2>4
<1> QED
  BY <1>4, <1>7, <1>8, <1>9, <1>10, <1>11 DEF GaugeInv

\* The refresher copies the rows: the mutex is free, so no update is under way.
LEMMA CopyFits ==
  ASSUME GaugeInv, cfg' = cfg, ~Republishing, ~OwnSweep, lock = "free", raced' = {},
         snap' = [n \in Nodes |-> IF Carries(rows[n]) THEN rows[n] ELSE None],
         UNCHANGED <<radio, rows, gauge, stamp, now, lock, job, got, heard, shown>>
  PROVE  GaugeInv'
<1>t. MetricsTyped
  BY DEF GaugeInv
<1>2. (On' <=> On) /\ (OwnSweep' <=> OwnSweep)
  BY DEF On, OwnSweep, EffectiveNodeDBRefreshInterval
<1>3. \A n \in Nodes : snap'[n] \in AnyRow /\ (snap'[n] = rows[n] \/ (snap'[n] = None /\ ~Carries(rows[n])))
  BY <1>t DEF MetricsTyped, AnyRow
<1>4. ASSUME NEW u \in Writers, ~Idle(u) PROVE job[u].source # "nodedb"
  <2>1. job[u].source = "nodedb" => (u # "refresher" => lock = u)
    BY <1>4 DEF GaugeInv, JobsFollow
  <2>2. u # "refresher" /\ u # "free"
    BY <1>4 DEF Republishing, Writers
  <2> QED
    BY <2>1, <2>2
<1>5. MetricsTyped'
  <2>1. snap' \in [Nodes -> AnyRow]
    BY <1>3
  <2> QED
    BY <1>t, <2>1 DEF MetricsTyped
<1>6. JobsFollow'
  <2> SUFFICES ASSUME NEW u \in Writers, ~Idle(u)
               PROVE  (job[u].source = "telemetry" => u = "reader") /\ job[u].source # "nodedb"
    BY DEF JobsFollow, Idle
  <2> QED
    BY <1>4 DEF GaugeInv, JobsFollow
<1>7. CopiesFollow'
  BY <1>2, <1>3 DEF CopiesFollow
<1>8. NodeDBFollows'
  <2> SUFFICES ASSUME On, NEW m \in Nodes, NEW e \in Fields,
                      rows[m] # None, snap'[m] = None, rows[m][e] # Nil
               PROVE  FALSE
    BY <1>2 DEF NodeDBFollows
  <2>1. ~Carries(rows[m])
    BY <1>3
  <2> QED
    BY <1>t, <2>1, RowFacts DEF MetricsTyped
<1>9. TelemetryFollows' /\ Stamped'
  BY <1>2 DEF GaugeInv, TelemetryFollows, Stamped, Pending, Writing
<1> QED
  BY <1>5, <1>6, <1>7, <1>8, <1>9 DEF GaugeInv

\* The refresher begins to publish a copied row once more.
LEMMA RepublishFits ==
  ASSUME GaugeInv, cfg' = cfg, NEW n \in Nodes, Republish(n)
  PROVE  GaugeInv'
<1>t. MetricsTyped
  BY DEF GaugeInv
<1> PICK r : r = snap[n]
  OBVIOUS
<1> PICK k : k = Update(n, "nodedb", r)
  OBVIOUS
<1>s. "nodedb" \in Sources /\ "telemetry" \in Sources /\ {"reader", "refresher"} \subseteq Writers
  BY DEF Sources, Writers
<1>2. (On' <=> On) /\ (OwnSweep' <=> OwnSweep)
  BY DEF On, OwnSweep, EffectiveNodeDBRefreshInterval
<1>3. /\ Idle("refresher") /\ r # None /\ job' = [job EXCEPT !["refresher"] = k]
      /\ snap' = [snap EXCEPT ![n] = None]
      /\ UNCHANGED <<radio, rows, gauge, stamp, now, lock, got, heard, shown, raced>>
  BY DEF Republish
<1>4. r \in Rows /\ snap' \in [Nodes -> AnyRow] /\ snap'[n] = None
      /\ \A m \in Nodes \ {n} : snap'[m] = snap[m]
  BY <1>3, <1>t DEF MetricsTyped, AnyRow
<1>5. /\ job' \in [Writers -> Jobs \cup {NoJob}]
      /\ job'["refresher"] \in {k, NoJob} /\ \A u \in Writers \ {"refresher"} : job'[u] = job[u]
      /\ k.node = n /\ k.source = "nodedb" /\ k.row = r /\ k.field = "cu"
      /\ \A u \in Writers, m \in Nodes, t \in Sources, e \in Fields :
            Pending(u, m, t, e)' <=>
               Pending(u, m, t, e) \/ (u = "refresher" /\ job'["refresher"] = k /\ m = n /\ t = "nodedb")
      /\ Stamped'
  <2>1. job' = [job EXCEPT !["refresher"] = k] \/ UNCHANGED job
    BY <1>3
  <2>0. Idle("refresher") /\ r \in Rows /\ k = Update(n, "nodedb", r)
    BY <1>3, <1>4
  <2>2. "refresher" \in Writers /\ "nodedb" \in Sources /\ UNCHANGED <<shown, stamp, now>>
    BY <1>s, <1>3
  <2>3. /\ job' \in [Writers -> Jobs \cup {NoJob}]
        /\ job'["refresher"] \in {k, NoJob} /\ \A u \in Writers \ {"refresher"} : job'[u] = job[u]
    BY <2>0, <2>1, <2>2, JobBegins
  <2>4. \A u \in Writers, m \in Nodes, t \in Sources, e \in Fields :
           Pending(u, m, t, e)' <=>
              Pending(u, m, t, e) \/ (u = "refresher" /\ job'["refresher"] = k /\ m = n /\ t = "nodedb")
    BY <2>0, <2>1, <2>2, JobBegins
  <2>5. Stamped' /\ k.node = n /\ k.source = "nodedb" /\ k.row = r /\ k.field = "cu"
    BY <2>0, <2>1, <2>2, JobBegins
  <2> QED
    BY <2>3, <2>4, <2>5
<1>6. job'["refresher"] = k
  BY <1>3, <1>s, <1>t DEF MetricsTyped
<1>7. ~OwnSweep /\ (n \notin raced => r = rows[n])
  BY <1>3 DEF GaugeInv, CopiesFollow, NoRows
<1>8. MetricsTyped'
  BY <1>3, <1>4, <1>5, <1>t DEF MetricsTyped
<1>9. JobsFollow'
  <2> SUFFICES ASSUME NEW u \in Writers, ~Idle(u)'
               PROVE  /\ job'[u].source = "telemetry" => u = "reader"
                      /\ job'[u].source = "nodedb" =>
                            /\ job'[u].node \notin raced => job'[u].row = rows[job'[u].node]
                            /\ u # "refresher" \/ OwnSweep => lock = u
    BY <1>2, <1>3 DEF JobsFollow
  <2>1. CASE u = "refresher"
    BY <1>5, <1>6, <1>7, <2>1
  <2>2. CASE u # "refresher"
    <3>1. ~Idle(u) /\ job'[u] = job[u]
      BY <1>5, <2>2 DEF Idle
    <3> QED
      BY <3>1 DEF GaugeInv, JobsFollow
  <2> QED
    BY <2>1, <2>2
<1>10. CopiesFollow'
  <2>1. \A m \in Nodes : snap'[m] # None => snap'[m] = snap[m]
    BY <1>4
  <2> QED
    BY <1>2, <1>3, <1>7, <2>1 DEF GaugeInv, CopiesFollow
<1>11. NodeDBFollows'
  <2> SUFFICES ASSUME On, NEW m \in Nodes, NEW e \in Fields,
                      rows[m] # None, m \notin raced, snap'[m] = None, rows[m][e] # Nil
               PROVE  \/ gauge[m]["nodedb"][e] = rows[m][e]
                      \/ \E u \in Writers : Pending(u, m, "nodedb", e)'
    BY <1>2, <1>3 DEF NodeDBFollows
  <2>1. CASE m = n
    BY <1>5, <1>6, <1>s, <2>1
  <2>2. CASE m # n
    <3>1. snap[m] = None
      BY <1>4, <2>2
    <3>2. gauge[m]["nodedb"][e] = rows[m][e] \/ \E u \in Writers : Pending(u, m, "nodedb", e)
      BY <3>1 DEF GaugeInv, NodeDBFollows
    <3> QED
      BY <1>5, <1>s, <3>2
  <2> QED
    BY <2>1, <2>2
<1>12. TelemetryFollows'
  <2> SUFFICES ASSUME On, NEW m \in Nodes, NEW e \in Fields
               PROVE  heard[m][e] = IF Pending("reader", m, "telemetry", e)'
                                    THEN SetGauge(gauge[m]["telemetry"][e], job'["reader"].row[e])
                                    ELSE gauge[m]["telemetry"][e]
    BY <1>2, <1>3 DEF TelemetryFollows
  <2>1. Pending("reader", m, "telemetry", e)' <=> Pending("reader", m, "telemetry", e)
    BY <1>5, <1>s
  <2>2. job'["reader"] = job["reader"]
    BY <1>5, <1>s
  <2> QED
    BY <2>1, <2>2 DEF GaugeInv, TelemetryFollows
<1> QED
  BY <1>5, <1>8, <1>9, <1>10, <1>11, <1>12 DEF GaugeInv

\* Every step of the goroutines keeps the invariant.
LEMMA GoroutinesFit == ASSUME GaugeInv, MetricsStep PROVE GaugeInv'
<1>t. MetricsTyped /\ cfg' = cfg
  BY DEF GaugeInv, MetricsStep, pvars, cvars
<1>o. radio \in [Nodes -> Rows] /\ got \in [Writers -> [Nodes -> AnyRow]] /\ now \in Nat /\ now <= now
  BY <1>t DEF MetricsTyped
<1>1. CASE Tick
  <2>1. now' \in Nat /\ now <= now'
    BY <1>1, <1>o DEF Tick
  <2> QED
    BY <1>1, <1>t, <1>o, <2>1, OthersFit DEF Tick
<1>2. ASSUME NEW w \in Writers, CollectRows(w) PROVE GaugeInv'
  <2>1. got' \in [Writers -> [Nodes -> AnyRow]]
    BY <1>2, <1>o DEF CollectRows, AnyRow
  <2> QED
    BY <1>2, <1>t, <1>o, <2>1, OthersFit DEF CollectRows
<1>3. CASE PollTick
  BY <1>2, <1>3 DEF PollTick, Writers
<1>4. CASE RefreshTick
  <2>1. CASE OwnSweep /\ CollectRows("refresher")
    BY <1>2, <2>1 DEF Writers
  <2>2. CASE ~(OwnSweep /\ CollectRows("refresher"))
    BY <1>4, <1>t, <2>2, CopyFits DEF RefreshTick
  <2> QED
    BY <2>1, <2>2
<1>5. ASSUME NEW w \in Writers, WriteGauge(w) PROVE GaugeInv'
  <2>1. CASE job[w].field = "stamp"
    BY <1>5, <1>t, <2>1, StampFits DEF WriteGauge
  <2>2. CASE job[w].field # "stamp"
    <3>1. job[w].field \in Fields /\ FieldWritten(w)
      BY <1>5, <2>2 DEF WriteGauge, FieldWritten, Fields
    <3> QED
      BY <1>5, <1>t, <2>2, <3>1, FieldFits DEF WriteGauge
  <2> QED
    BY <2>1, <2>2
<1>6. ASSUME NEW n \in Nodes, RadioLearns(n) PROVE GaugeInv'
  <2>1. radio' \in [Nodes -> Rows]
    BY <1>6, <1>o DEF RadioLearns
  <2> QED
    BY <1>6, <1>t, <1>o, <2>1, OthersFit DEF RadioLearns
<1>7. ASSUME NEW n \in Nodes, ReceiveNodeInfo(n) PROVE GaugeInv'
  <2>1. "reader" \in Writers /\ radio[n] \in Rows
    BY <1>o DEF Writers
  <2> QED
    BY <1>7, <1>t, <1>o, <2>1, StoreFits DEF ReceiveNodeInfo
<1>8. ASSUME NEW w \in Writers, NEW n \in Nodes, StoreCollected(w, n) PROVE GaugeInv'
  <2>1. got[w][n] \in Rows /\ got' \in [Writers -> [Nodes -> AnyRow]]
    BY <1>8, <1>o DEF StoreCollected, AnyRow
  <2> QED
    BY <1>8, <1>t, <2>1, StoreFits DEF StoreCollected
<1>9. ASSUME NEW n \in Nodes, Republish(n) PROVE GaugeInv'
  BY <1>9, <1>t, RepublishFits
<1>10. ASSUME NEW n \in Nodes, NEW r \in Rows, ReceiveTelemetry(n, r) PROVE GaugeInv'
  BY <1>10, <1>t, HeardFits
<1> QED
  BY <1>1, <1>3, <1>4, <1>5, <1>6, <1>7, <1>8, <1>9, <1>10 DEF MetricsStep, Writers

-----------------------------------------------------------------------------
(* The gauges of every run.                                                *)

LEMMA MetricsStart == MetricsInit => MetricsInv
<1> SUFFICES ASSUME MetricsInit PROVE MetricsInv
  OBVIOUS
<1>1. Unstarted /\ radio \in [Nodes -> Rows] /\ now \in Nat
  BY DEF MetricsInit, Unstarted
<1>2. ProcessInv
  BY ProcessStart DEF MetricsInit
<1> QED
  BY <1>1, <1>2, UnstartedFits DEF MetricsInv

\* Reading the state is the step that starts the agent, and it does not touch
\* the configuration.
LEMMA StartsFrom ==
  ASSUME ProcessInv, ProcessNext, step \notin Up, step' \in Up, ~StartsAgent
  PROVE  step' = "returned"
BY DEF StartsAgent, ProcessNext, Up, Configure, ConfigError, Listen, Signal, AwaitSecondSignal,
   StepSucceeds, StepOrder, StepFails, StepCanceled, TickersPanic, ReaderStops, SelectErr, PollerPanics, ContextDone,
   AwaitReadLoop, Exit, Selecting, process

LEMMA StartKeepsConfig ==
  ASSUME ProcessInv, ProcessNext, StartsAgent
  PROVE  cfg' = cfg
<1>1. step = "state" /\ step' \in {"mqtt", "up"}
  BY DEF StartsAgent
<1>2. StepSucceeds
  BY <1>1 DEF ProcessNext, Configure, ConfigError, Listen, Signal, AwaitSecondSignal, StepFails,
     StepCanceled, TickersPanic, ReaderStops, SelectErr, PollerPanics, ContextDone, AwaitReadLoop, Exit, Selecting, process
<1> QED
  BY <1>2 DEF StepSucceeds, cvars

LEMMA MetricsInvStep == MetricsInv /\ [Process \/ MetricsStep]_vars => MetricsInv'
<1> SUFFICES ASSUME MetricsInv, [Process \/ MetricsStep]_vars PROVE MetricsInv'
  OBVIOUS
<1>0. ProcessInv /\ GaugeInv /\ (step \notin Up => Unstarted)
  BY DEF MetricsInv
<1>1. CASE UNCHANGED vars
  <2>1. UNCHANGED pvars /\ UNCHANGED mvars /\ cfg' = cfg /\ step' = step
    BY <1>1 DEF vars, pvars, cvars, process
  <2>2. ProcessInv'
    BY <1>0, <2>1, ProcessStep
  <2>3. GaugeInv'
    BY <1>0, <2>1, GaugeFrame
  <2>4. step' \notin Up => Unstarted'
    BY <1>0, <2>1 DEF Unstarted, mvars
  <2> QED
    BY <2>2, <2>3, <2>4 DEF MetricsInv
<1>2. CASE MetricsStep
  <2>1. UNCHANGED pvars /\ step' = step /\ step \in Up
    BY <1>2 DEF MetricsStep, Running, Up, pvars, process
  <2>2. ProcessInv'
    BY <1>0, <2>1, ProcessStep
  <2>3. GaugeInv'
    BY <1>0, <1>2, GoroutinesFit
  <2> QED
    BY <2>1, <2>2, <2>3 DEF MetricsInv
<1>3. CASE Process
  <2>1. ProcessNext /\ (IF StartsAgent THEN Publish ELSE UNCHANGED mvars)
    BY <1>3 DEF Process
  <2>2. ProcessInv'
    BY <1>0, <2>1, ProcessStep
  <2>3. CASE step \in Up
    <3>1. step' \in Up /\ cfg' = cfg
      BY <1>0, <2>1, <2>3, UpKeepsConfig
    <3>2. ~StartsAgent
      BY <2>3 DEF StartsAgent, Up
    <3>3. GaugeInv'
      BY <1>0, <2>1, <3>1, <3>2, GaugeFrame
    <3> QED
      BY <2>2, <3>1, <3>3 DEF MetricsInv
  <2>4. CASE step \notin Up /\ StartsAgent
    <3>1. cfg' = cfg /\ step' \in Up
      BY <1>0, <2>1, <2>4, StartKeepsConfig DEF StartsAgent, Up
    <3>2. GaugeInv'
      BY <1>0, <2>1, <2>4, <3>1, PublishFits
    <3> QED
      BY <2>2, <3>1, <3>2 DEF MetricsInv
  <2>5. CASE step \notin Up /\ ~StartsAgent
    <3>1. UNCHANGED mvars
      BY <2>1, <2>5
    <3>2. Unstarted'
      BY <1>0, <2>5, <3>1 DEF Unstarted, mvars
    <3>3. (radio \in [Nodes -> Rows] /\ now \in Nat)'
      BY <1>0, <3>1 DEF GaugeInv, MetricsTyped, mvars
    <3>4. GaugeInv'
      BY <3>2, <3>3, UnstartedFits, PTL
    <3> QED
      BY <2>2, <3>2, <3>4 DEF MetricsInv
  <2> QED
    BY <2>3, <2>4, <2>5
<1> QED
  BY <1>1, <1>2, <1>3

\* What the invariant says of whole readings.
LEMMA GaugesShow == MetricsInv => GaugesTrue
<1> SUFFICES ASSUME MetricsInv PROVE GaugesTrue
  OBVIOUS
<1>0. MetricsTyped /\ NodeDBFollows /\ TelemetryFollows /\ Stamped /\ CopiesFollow
  BY DEF MetricsInv, GaugeInv
<1>1. ASSUME On, NEW n \in Nodes, ~Writing(n) PROVE \A u \in Writers : \A s, f : ~Pending(u, n, s, f)
  BY <1>1 DEF Writing, Pending
<1>2. GaugesFollowRows
  <2> SUFFICES ASSUME On, NEW n \in Nodes, ~Writing(n), rows[n] # None
               PROVE  /\ stamp[n] >= shown[n]
                      /\ \/ ~OwnSweep /\ (n \in raced \/ snap[n] # None)
                         \/ Shows(gauge[n]["nodedb"], rows[n])
    BY DEF GaugesFollowRows
  <2>1. stamp[n] >= shown[n]
    <3>1. shown[n] <= stamp[n] /\ shown[n] \in Nat /\ stamp[n] \in Nat
      BY <1>0 DEF Stamped, MetricsTyped
    <3> QED
      BY <3>1
  <2>2. ASSUME n \notin raced, snap[n] = None PROVE Shows(gauge[n]["nodedb"], rows[n])
    <3> PICK g : g = gauge[n]["nodedb"]
      OBVIOUS
    <3> PICK r : r = rows[n]
      OBVIOUS
    <3>1. \A f \in Fields : r[f] # Nil => g[f] = r[f]
      BY <1>0, <1>1, <2>2 DEF NodeDBFollows
    <3>2. g \in Readings /\ r \in Readings
      <4>1. "nodedb" \in Sources
        BY DEF Sources
      <4> QED
        BY <1>0, <4>1, RowFacts DEF MetricsTyped, AnyRow
    <3> QED
      BY <3>1, <3>2, RowFacts DEF Shows, Fields
  <2>3. n \in raced \/ snap[n] # None => ~OwnSweep
    BY <1>0 DEF CopiesFollow, NoRows
  <2> QED
    BY <2>1, <2>2, <2>3
<1>3. TelemetryShown
  <2> SUFFICES ASSUME On, NEW n \in Nodes, ~Writing(n) PROVE gauge[n]["telemetry"] = heard[n]
    BY DEF TelemetryShown
  <2> PICK g : g = gauge[n]["telemetry"]
    OBVIOUS
  <2> PICK h : h = heard[n]
    OBVIOUS
  <2>1. g \in Readings /\ h \in Readings
    BY <1>0 DEF MetricsTyped, Sources
  <2>2. \A f \in Fields : h[f] = g[f]
    <3>1. "reader" \in Writers
      BY DEF Writers
    <3> QED
      BY <1>0, <1>1, <3>1 DEF TelemetryFollows
  <2>3. h.cu = g.cu /\ h.au = g.au
    BY <2>1, <2>2, RowFacts DEF Fields
  <2>4. h = g
    BY <2>1, <2>3 DEF Readings
  <2> QED
    BY <2>4
<1> QED
  BY <1>2, <1>3 DEF GaugesTrue

LEMMA MetricsInductive == MetricsSpec => []MetricsInv
BY MetricsStart, MetricsInvStep, PTL DEF MetricsSpec

\* A scrape is truthful, whatever the writers' interleaving: a gauge shows what the
\* agent knows unless its update is under way or a faster store raced the refresher.
THEOREM GaugesAlwaysTrue == MetricsSpec => []GaugesTrue
BY MetricsInductive, GaugesShow, PTL

\* An agent with metrics on is an agent process: its goroutines and gauges add steps in
\* which the process stutters, and hold back none of its own that is not a return to the
\* loop.  What is proved of every process so holds of it too.
THEOREM MetricsImplementProcess == MetricsSpec => ProcessSpec
<1>1. MetricsInit => ProcessInit
  BY DEF MetricsInit
<1>2. [Process \/ MetricsStep]_vars => [ProcessNext]_pvars
  <2>1. Process => ProcessNext
    BY DEF Process
  <2>2. MetricsStep => UNCHANGED pvars
    BY DEF MetricsStep
  <2>3. UNCHANGED vars => UNCHANGED pvars
    BY DEF vars
  <2> QED
    BY <2>1, <2>2, <2>3
<1> QED
  BY <1>1, <1>2, PTL DEF MetricsSpec, ProcessSpec
=============================================================================
