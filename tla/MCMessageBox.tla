---------------------------- MODULE MCMessageBox ----------------------------
(* Instances of MessageBox for TLC: messages and timers are interchangeable. *)
EXTENDS MessageBox, TLC

Symmetry == Permutations(Message) \cup Permutations(Timer)
=============================================================================
