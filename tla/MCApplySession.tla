--------------------------- MODULE MCApplySession ---------------------------
(* ApplySession on a lora section, a module section, a channel row and the *)
(* owner entry: one section of every kind the code treats differently.     *)
EXTENDS ApplySession

MCSections == {"lora", "mqtt", "channel0", "owner"}
MCRank == [s \in MCSections |-> CASE s = "lora" -> 1 [] s = "mqtt" -> 2
                                  [] s = "channel0" -> 3 [] OTHER -> 4]
MCGoodPayloads == {[sections |-> {"lora", "mqtt", "channel0"}, malformed |-> {}]}
MCPayloads == MCGoodPayloads \cup
              {[sections |-> {"lora", "mqtt", "owner"}, malformed |-> {"mqtt"}],
               [sections |-> {"channel0"}, malformed |-> {}]}
=============================================================================
