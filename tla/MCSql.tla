-------------------------------- MODULE MCSql --------------------------------
(* Small instances of SqlScheduler for TLC. *)
EXTENDS SqlScheduler, TLC

CONSTANTS
  wsl, server,   \* worker IDs: a remote pool and the local fallback
  w1, w2,        \* slots of wsl
  f1             \* the slot of server

Pool(s) == IF s = f1 THEN server ELSE wsl

PoolOfInstance == [s \in Instances |-> Pool(s)]

\* Lower numbers win.
WslFirst == [p \in Pools |-> IF p = wsl THEN 10 ELSE 100]

OneAtATime == [p \in Pools |-> 1]

=============================================================================
