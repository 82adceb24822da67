---------------------------- MODULE MCRelayServer ----------------------------
(* The relay server with a handful of connections. *)
EXTENDS RelayServer

=============================================================================
