---------------------------- MODULE MCDataQueue ----------------------------
(* Small instances of DataQueue for TLC. *)
EXTENDS DataQueue

=============================================================================
