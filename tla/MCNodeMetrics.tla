--------------------------- MODULE MCNodeMetrics ---------------------------
(* NodeMetrics with three configurations: a refresher that republishes, one *)
(* that reads the radio itself, and metrics off.                            *)
EXTENDS NodeMetrics, TLC

MCSeconds == ("0s" :> 0) @@ ("10s" :> 10) @@ ("5m" :> 300) @@ ("30m" :> 1800) @@ ("6h" :> 21600)
MCStrings == {"", "blank", "local", "123456", "rmesh-", "127.0.0.1:9090", "set"}
MCContents == {[p \in Leaves |-> IF p \in Credentials \cup {Url} THEN "set" ELSE Zero(p)]}
MCFlagArgs == {[p \in {} |-> ""], MetricsOn :> "true", (MetricsOn :> "true") @@ (Refresh :> "10s")}
MCRows == {[cu |-> 0, au |-> 0], [cu |-> 1, au |-> 1], [cu |-> 2, au |-> 0]}
=============================================================================
