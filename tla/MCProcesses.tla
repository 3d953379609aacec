---------------------------- MODULE MCProcesses -----------------------------
(* Instances of Processes for TLC.  A behaviour picks one program, so that  *)
(* each subject gets all its interleavings and only its own.                *)
EXTENDS Processes

Watching == [ops |-> {"monitor", "demonitor", "die"}, roots |-> 3]
Linking == [ops |-> {"link", "unlink", "die", "trap_exit"}, roots |-> 2]
Killing == [ops |-> {"link", "exit", "trap_exit"}, roots |-> 2]
Spawning == [ops |-> {"spawn", "spawnLink", "spawnMonitor", "finish"},
             roots |-> 1]
Naming == [ops |-> {"register", "unregister", "sendname", "send", "receive",
                    "die"}, roots |-> 2]

SafetyPrograms == {Watching, Linking, Killing, Spawning, Naming}
LivenessPrograms == {[ops |-> {"monitor", "die"}, roots |-> 2],
                     [ops |-> {"link", "die"}, roots |-> 3],
                     [ops |-> {"link", "exit", "trap_exit"}, roots |-> 2]}
RacePrograms == {[ops |-> {"monitor", "die"}, roots |-> 2]}

(* Processes, and references, are interchangeable. *)
Symmetry == Permutations(Pid) \cup Permutations(Ref)
=============================================================================
