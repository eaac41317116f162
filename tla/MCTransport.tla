---------------------------- MODULE MCTransport ----------------------------
(* The two queue backends, the lock and the delegation graph: the initial  *)
(* state says which one the run is about.                                  *)
EXTENDS MessageQueue, RedisQueue, TtlLock, Delegation

VARIABLE scene

allVars == <<vars, redisVars, lockVars, delegVars, scene>>

TransportInit ==
    /\ Init /\ RedisInit /\ LockInit /\ DelegInit
    /\ scene \in {"sqlite queue", "redis queue", "lock", "delegation"}
    /\ scene # "lock" => server = "sqlite"

TransportNext ==
    \/ scene = "sqlite queue" /\ Next /\ UNCHANGED <<redisVars, lockVars, delegVars, scene>>
    \/ scene = "redis queue" /\ RedisNext /\ UNCHANGED <<vars, lockVars, delegVars, scene>>
    \/ scene = "lock" /\ LockNext /\ UNCHANGED <<vars, redisVars, delegVars, scene>>
    \/ scene = "delegation" /\ DelegNext /\ UNCHANGED <<vars, redisVars, lockVars, scene>>

TransportSpec == TransportInit /\ [][TransportNext]_allVars /\ (scene = "sqlite queue" => Fairness)
=============================================================================
