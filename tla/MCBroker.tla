------------------------------- MODULE MCBroker -------------------------------
(* Small instances of BrokerDelivery for TLC. *)
EXTENDS BrokerDelivery, TLC

CONSTANT wsl

\* Every instance runs under one worker ID.
PoolOfAll == [s \in Instances |-> wsl]

\* No constant tells the instances of a pool apart.
InstanceSymmetry == Permutations(Instances)

JobAndInstanceSymmetry == InstanceSymmetry \cup Permutations(Jobs)

BothAtOnce == [p \in Pools |-> 2]

OneAtATime == [p \in Pools |-> 1]

=============================================================================
