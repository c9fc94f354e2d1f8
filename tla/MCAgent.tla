------------------------------ MODULE MCAgent ------------------------------
(* Agent on two kinds: nodeinfo, whose on_first_seen is always on           *)
(* (config.go:225), and position, the kind with the shorter interval.  The  *)
(* worlds keep traffic, faults and long runs apart, because together they   *)
(* multiply and mean nothing new.                                           *)
EXTENDS Agent

MCKindOrder == <<"nodeinfo", "position">>
MCInterval  == [k \in {"nodeinfo", "position"} |-> IF k = "nodeinfo" THEN 3 ELSE 2]
MCJitter    == [k \in {"nodeinfo", "position"} |-> IF k = "nodeinfo" THEN 0 ELSE 1]
MCNoPosition == {<<"n2", "position">>}
Serial(p, f, t) == [packets |-> p, faults |-> f, time |-> t, reports |-> TRUE]
Ble(p, f, t)    == [Serial(p, f, t) EXCEPT !.reports = FALSE]
MCWorlds == { Serial({"p1", "p2"}, {}, 0), Serial({"p1"}, {}, 1), Serial({}, {}, 3),
              Serial({}, {"link", "junk", "broker", "url"}, 1), Ble({}, {"link"}, 1) }
MCSeen   == {Serial({}, {}, 3)}
MCPoll   == {Serial({}, {}, 1)}
=============================================================================
