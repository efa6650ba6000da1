--------------------------- MODULE MCReplication ---------------------------
(* A server and two clients; the writer is the server or a client. *)
EXTENDS Replication, TLC

CONSTANTS s, a, b

MCClients == {a, b}
MCWriters == {s, a}
=============================================================================
