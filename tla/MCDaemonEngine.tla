---- MODULE MCDaemonEngine ----
(* Two opportunities a tick, losses that reach the limit, faults. *)
EXTENDS DaemonEngine
MCEdges == {-1, 1}
====
