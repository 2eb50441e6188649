------------------------------ MODULE MCUpdater ------------------------------
(* Small instances of Updater for TLC. *)
EXTENDS Updater, TLC

=============================================================================
