--------------------------- MODULE MCConfigTransfer ---------------------------
(* Small instances of ConfigTransfer. *)
EXTENDS ConfigTransfer, TLC

Radio(r) == [region |-> r, power |-> "high"]
Security(k) == [private_key |-> k]
Whole(r, k) ==
    (<<"config", "lora">> :> Radio(r)) @@ (<<"config", "security">> :> Security(k))
    @@ (<<"channels", 0>> :> [psk |-> k]) @@ (<<"channels", 1>> :> [psk |-> k, index |-> 1])
Library == (<<"owner">> :> [name |-> "me"]) @@ (<<"module_config", "mqtt">> :> Null) @@ Whole("US", "k2")
MCContents == {Whole("EU", "k1"), Whole("US", "k1"), Library}
MCTyped == {(<<"config", "lora">> :> Radio("JP")), (<<"owner">> :> [name |-> "you"])}

Row(o, l, p) == [owner |-> o, label |-> l, payload |-> p]
Cloud(p, q) ==
    [i \in Ids |-> IF i = 1 THEN Row("mine", "a", p) ELSE IF i = 2 THEN Row("template", "a", p)
                   ELSE IF i = 3 THEN Row("mine", "b", q) ELSE NoRow]
Disk(e, f, p) == [ext |-> e, form |-> f, payload |-> p]
MCFiles ==
    {Disk("yaml", "yaml", Whole("US", "k1")), Disk("yaml", "torn", NoSections),
     Disk("json", "json", Library), Disk("json", "torn", NoSections), Disk("none", "yaml", Whole("EU", "k1"))}
World(d, f, c) == [device |-> d, file |-> f, rows |-> c]
MCWorlds ==
    {World(Whole("EU", "k1"), Disk("yaml", "yaml", Whole("US", "k1")), Cloud(Whole("EU", "k1"), Library)),
     World(Whole("US", "k1"), Disk("json", "json", Library), Cloud(Library, Whole("EU", "k1"))),
     World(Whole("EU", "k1"), Disk("yaml", "torn", NoSections), Cloud(Library, Library)),
     World(Whole("US", "k1"), Disk("none", "yaml", Whole("EU", "k1")), Cloud(Whole("EU", "k1"), Whole("EU", "k1")))}
MCSafe == {<<"channels">>, <<"config", "lora">>}

At(kind, label) == [kind |-> kind, label |-> label]
Line(verb, from, to) ==
    [verb |-> verb, from |-> from, to |-> to, sections |-> {}, exclude |-> {},
     dryRun |-> FALSE, reveal |-> FALSE, edit |-> FALSE, all |-> FALSE,
     output |-> IF verb = "get" THEN "tree" ELSE "yaml"]
Dev == At("device", "")
File == At("file", "")
MineA == At("mine", "a")
TplA == At("template", "a")
NoKey == [head |-> "security", tail |-> "private_key"]
NoLora == [head |-> "lora", tail |-> ""]
MCCommands ==
    {[Line("copy", MineA, Dev) EXCEPT !.exclude = {NoKey}],
     [Line("copy", TplA, Dev) EXCEPT !.sections = {"lora", "channels"}, !.exclude = {NoLora}],
     [Line("copy", Dev, File) EXCEPT !.sections = {"security"}],
     [Line("copy", MineA, At("mine", "b")) EXCEPT !.dryRun = TRUE],
     [Line("set", Dev, MineA) EXCEPT !.exclude = {NoLora}],
     Line("get", Dev, File), Line("get", TplA, File),
     Line("edit", Dev, Dev), Line("edit", File, File), Line("edit", MineA, MineA), Line("edit", TplA, TplA),
     Line("delete", MineA, MineA), Line("delete", TplA, TplA),
     Line("promote", MineA, TplA),
     [Line("promote", MineA, TplA) EXCEPT !.edit = TRUE],
     [Line("promote", MineA, TplA) EXCEPT !.all = TRUE]}
===============================================================================
