------------------------------ MODULE MCRedisCache -----------------------------
(****************************************************************************)
(* TLC instances of RedisCache.                                             *)
(****************************************************************************)
EXTENDS RedisCache

CONSTANTS t1, t2, k1, k2

OneTask == {t1}
TwoTasks == {t1, t2}
OneKey == {k1}
TwoKeys == {k1, k2}

================================================================================
