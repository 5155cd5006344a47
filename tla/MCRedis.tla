------------------------------ MODULE MCRedis ------------------------------
(* Two processes, started in any order, one of them with a reader and a    *)
(* subscriber, each with a client that has both optional commands or none, *)
(* and a stream that keeps at least the newest two of three entries.        *)
EXTENDS RedisBackplane

CONSTANTS p1, p2

MCProcs == {p1, p2}
MCWatched == {p1}
MCAdapters == {{}, {"get", "setnx"}}
=============================================================================
