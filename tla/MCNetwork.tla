----------------------------- MODULE MCNetwork -----------------------------
(* Instances of Network for TLC: clients A and C of a server B. *)
EXTENDS Network

Nodes == {"A", "B", "C"}
Connections ==
    {<<"A", "B", 1>>, <<"A", "B", 2>>, <<"C", "B", 1>>, <<"A", "C", 1>>}

Line == {<<"A", "B", 1>>, <<"C", "B", 1>>}
Twice == {<<"A", "B", 1>>, <<"A", "B", 2>>}

(* B is permanent, so its entry outlives its connections. *)
Case(connections, bridges, cuts, overlap, senders, watchers) ==
    [connections |-> connections,
     bridge |-> [n \in Nodes |-> n \in bridges],
     type |-> [n \in Nodes |-> IF n = "B" THEN "permanent" ELSE "temporary"],
     cuts |-> cuts, overlap |-> overlap,
     senders |-> senders, watchers |-> watchers]

Hub == {Case(Line, {"B"}, TRUE, FALSE, {"A"}, {"A"}),
        Case(Line \cup Twice, {"B"}, TRUE, FALSE, {"C"}, {}),
        Case(Twice, {"B"}, TRUE, FALSE, {"B"}, {"B"}),
        Case(Line, Nodes, FALSE, FALSE, {"A"}, {"A"})}

(* The server hears late that a client is gone. *)
Late == {Case(Twice, {}, TRUE, TRUE, {}, {})}

(* A has a connection of its own to C. *)
Triangle == {Case(Line \cup {<<"A", "C", 1>>}, {"B"}, TRUE, FALSE, {}, {})}

(* Every transport bridges, as in the transport's tests. *)
AllBridges == {Case(Line, Nodes, TRUE, FALSE, {}, {})}
=============================================================================
