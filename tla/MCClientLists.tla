---------------------------- MODULE MCClientLists ----------------------------
(* Small instances of ClientLists for TLC. *)
EXTENDS ClientLists

=============================================================================
