------------------------------ MODULE MCCutover ------------------------------
(* Small instances of Cutover for TLC. *)
EXTENDS Cutover

CONSTANTS q1, c1, wsl, mac

\* The SQL slot and the broker slot belong to different worker IDs.
PoolOfBoth == [s \in Instances |-> IF s = q1 THEN mac ELSE wsl]

=============================================================================
