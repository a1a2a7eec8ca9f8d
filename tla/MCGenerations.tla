---------------------------- MODULE MCGenerations ----------------------------
(* Instances of Generations for TLC.                                       *)
EXTENDS Generations

CONSTANTS t1, t2

(* One thread writes and deletes, the other migrates and maintains.        *)
HostAndOperator ==
    [t \in Threads |-> IF t = t1 THEN {"write", "delete"}
                       ELSE {"migrate", "promote", "persist", "compact", "purge"}]
=============================================================================
