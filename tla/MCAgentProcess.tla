--------------------------- MODULE MCAgentProcess --------------------------
(* AgentProcess on a file that still needs a password, one with a BLE radio *)
(* and a negative poll, --set pairs that meet each other and the flags, and *)
(* bad ones.                                                               *)
EXTENDS AgentProcess, TLC

MCSeconds == ("-1s" :> -1) @@ ("0s" :> 0) @@ ("9s" :> 9) @@ ("10s" :> 10) @@ ("5m" :> 300)
             @@ ("30m" :> 1800) @@ ("6h" :> 21600)
MCStrings == {"", "blank", "local", "123456", "rmesh-", "127.0.0.1:9090", "set", "long", "ble"}
Password == <<"mqtt", "password">>
Good == [p \in Leaves |-> IF p \in (Credentials \ {Password}) \cup {Url} THEN "set" ELSE Zero(p)]
MCContents == {Good, [Good EXCEPT ![Poll] = "-1s", ![Synth("position", "interval")] = "30m",
                                  ![Password] = "set", ![Url] = "ble"]}
MCPairs == {<<Password, "set">>, <<Synth("position", "enabled"), "false">>, <<Poll, "10s">>,
            <<Poll, "0s">>, <<Refresh, "9s">>, <<Poll, "blank">>,
            <<<<"labels", "relaymesh.x">>, "set">>, <<<<"synthesise", "nodeinfo">>, "set">>}
MCFlagArgs == {[p \in {} |-> ""], [p \in {MetricsOn} |-> "true"]} \cup
    {(Password :> "set") @@ f : f \in {[p \in {} |-> ""], Respect :> "true", Pin :> "local",
       Poll :> "30m", Synth("position", "enabled") :> "false", <<"labels", "">> :> "set",
       <<"labels", "relaymesh.x">> :> "set"}}
=============================================================================
