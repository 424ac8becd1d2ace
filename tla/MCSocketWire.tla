---------------------------- MODULE MCSocketWire ----------------------------
(* Small instances of SocketWire for TLC. *)
EXTENDS SocketWire

CONSTANT one
=============================================================================
