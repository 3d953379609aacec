----------------------------- MODULE MCGenServer -----------------------------
(* Two clients and two servers that compete for a name, and a call.         *)
EXTENDS GenServer

=============================================================================
