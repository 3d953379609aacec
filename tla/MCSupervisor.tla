----------------------------- MODULE MCSupervisor -----------------------------
(* One supervisor of each strategy with up to three children.               *)
EXTENDS Supervisor

Server(id, restart) == [id |-> id, restart |-> restart, shutdown |-> "kill",
                        traps |-> FALSE, start |-> "server"]

Traps(spec) == [spec EXCEPT !.traps = TRUE]
Ignores(spec) == [spec EXCEPT !.start = "ignore"]
Other(spec) == [spec EXCEPT !.shutdown = "other"]

Of(strategy, specs, extra) ==
    [strategy |-> strategy, specs |-> specs, extra |-> extra]

A == Server("a", "permanent")
B == Server("b", "permanent")
C == Server("c", "transient")

MCConfig ==
    {Of("one_for_one", <<A, Server("b", "temporary")>>, {}),
     Of("one_for_one", <<A>>, {A}),
     Of("one_for_one", <<>>, {C}),
     Of("one_for_one", <<Server("a", "temporary")>>, {A}),
     Of("one_for_one", <<Ignores(Server("a", "temporary"))>>, {A}),
     Of("one_for_all", <<Server("a", "temporary"), B>>, {Server("a", "temporary")}),
     Of("one_for_all", <<A, C>>, {Server("b", "temporary")}),
     Of("one_for_all", <<A, Traps(Server("b", "temporary"))>>, {}),
     Of("one_for_all", <<Ignores(A), Other(C)>>,
                       {Ignores(Server("b", "temporary"))}),
     Of("rest_for_one", <<Server("a", "temporary"), B, C>>, {}),
     Of("simple_one_for_one", <<C>>, {C})}
=============================================================================
