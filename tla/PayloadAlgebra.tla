---------------------------- MODULE PayloadAlgebra ----------------------------
(* The operations of internal/deviceconfigs on configuration payloads.        *)
(*                                                                            *)
(* A payload is a function from the sections it carries to their JSON. A      *)
(* section is a tuple: <<"owner">>, <<"fixed_position">>, <<"channels", slot>>,*)
(* <<"config", key>> or <<"module_config", key>>. JSON is either Null or an    *)
(* object, a function from fields to values. A zero-length raw message is a    *)
(* section that is not in the domain.                                          *)
EXTENDS Naturals, FiniteSets, Functions

CONSTANTS
    ConfigKeys,     \* the keys of Config.* the shape recognises
    ModuleKeys,     \* the keys of ModuleConfig.*
    Slots,          \* the channel slots, 0 and up
    Null,           \* the JSON null
    Placeholder     \* what Redact puts in the place of a secret

Personal == {<<"owner">>, <<"fixed_position">>}
Channels == {"channels"} \X Slots
Sections == Personal \cup Channels \cup ({"config"} \X ConfigKeys)
                     \cup ({"module_config"} \X ModuleKeys)

NoSections == Restrict(<<>>, {})

(* JSON of a section, absent and null being the same to jsonEqual. *)
Json(p, s) == IF s \in DOMAIN p THEN p[s] ELSE Null

(* The sections that differ; an entry's status is left out. *)
Diff(from, to) ==
    {s \in DOMAIN from \cup DOMAIN to : Json(from, s) # Json(to, s)}

ProjectOnto(full, shape) == Restrict(full, DOMAIN full \cap DOMAIN shape)

(* What a receiver of p holds that had base before. *)
Overlay(base, p) == [s \in DOMAIN base \cup DOMAIN p |-> IF s \in DOMAIN p THEN p[s] ELSE base[s]]

(* p without the section s. Channel rows are a list: those behind move up.     *)
Without(p, s) ==
    IF s \notin Channels THEN Restrict(p, DOMAIN p \ {s})
    ELSE LET from(t) == IF t \in Channels /\ t[2] >= s[2] THEN <<"channels", t[2] + 1>> ELSE t
         IN  [t \in {u \in DOMAIN p : from(u) \in DOMAIN p} |-> p[from(t)]]

(* owner and fixed_position do not count. *)
IsEmpty(p) == DOMAIN p \subseteq Personal

(* --section names a section by its key alone; ValidateSections has no name    *)
(* for owner and fixed_position, and CloneSections always keeps them.          *)
Key(s) == IF s \in Channels \cup Personal THEN s[1] ELSE s[2]

ValidSections(keys) == keys \subseteq {"channels"} \cup ConfigKeys \cup ModuleKeys

CloneSections(p, keys) ==
    IF keys = {} THEN p
    ELSE Restrict(p, {s \in DOMAIN p : s \in Personal \/ Key(s) \in keys})

(* An exclusion is [head, tail]: "lora.region" has both, "lora" and "owner"    *)
(* have the tail "". A group prefix is stripped before, so that "config.lora"  *)
(* is "lora". A path into channels, owner or fixed_position matches nothing.   *)
Bug_DropsGroups(x, s) == x.tail = "" /\ x.head = Key(s) /\ s \in Channels \cup Personal
Drops(x, s) == x.tail = "" /\ x.head = Key(s)
Trims(x, s) == x.tail # "" /\ x.head = Key(s) /\ s \notin Channels \cup Personal

(* A field is only removed from an object. *)
RemoveFields(json, fields) ==
    IF json = Null THEN json ELSE Restrict(json, DOMAIN json \ fields)

ExcludeFields(p, paths) ==
    LET kept == {s \in DOMAIN p : \A x \in paths : ~Drops(x, s)}
        trimmed(s) == {x.tail : x \in {y \in paths : Trims(y, s)}}
    IN  [s \in kept |-> RemoveFields(p[s], trimmed(s))]

(* The fields that hold PSK, admin-key or broker secrets. *)
SecretFields(s) ==
    IF s \in Channels THEN {"psk"}
    ELSE IF s = <<"config", "security">> THEN {"private_key", "admin_key", "public_key"}
    ELSE IF s = <<"module_config", "mqtt">> THEN {"password", "root_topic_password"}
    ELSE {}

Redact(p) ==
    [s \in DOMAIN p |->
        IF p[s] = Null THEN Null
        ELSE [f \in DOMAIN p[s] |-> IF f \in SecretFields(s) THEN Placeholder ELSE p[s][f]]]

(* The name promote's include list has for a section: all rows are "channels". *)
Listed(s) == IF s \in Channels THEN <<"channels">> ELSE s

AllPresentSections(p) == {Listed(s) : s \in DOMAIN p}

FilterPromoteSections(p, names) == Restrict(p, {s \in DOMAIN p : Listed(s) \in names})
===============================================================================
