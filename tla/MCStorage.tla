------------------------------ MODULE MCStorage ------------------------------
(* The parts of the storage layer share no state: each behaviour is one of *)
(* one part, and the others stay as they began.  The same two model        *)
(* values are the threads of every part, for one symmetry to serve all.    *)
(*                                                                         *)
(* Memory pool: two size classes and room for one large and one small      *)
(* buffer, or three small ones, so that two threads returning at once can  *)
(* overfill it; the requests lie on, below and between the class sizes, 0  *)
(* is refused and 5 is larger than any class.                              *)
(* I/O optimizer: two threads flush two paths, three chunks, batches of    *)
(* one and more chunks on either side of the threshold for mapping; one    *)
(* background reader.                                                      *)
(* Facade and SQLite: two tasks shut down, two threads write a replaced    *)
(* and an added row, the parts are made twice.                             *)
(* Redis cache: two tasks and three writes of one key: an entry can be     *)
(* written, then replaced in the fallback while a third call is still in   *)
(* flight.  The clock can pass the end of a short life and not that of a   *)
(* longer one; a life of zero is refused by Redis and taken by the fallback. *)
EXTENDS MemoryPool, IOOptimizer, StorageFacade, RedisCache, TLC

VARIABLE component

storageVars == <<component, poolVars, ioVars, facadeVars, cacheVars>>

StorageInit ==
  /\ component \in Parts
  /\ PoolInit /\ IoInit /\ FacadeInit /\ CacheInit

Of(k) == component = k /\ UNCHANGED component

StorageNext ==
  \/ Of("memory_pool") /\ PoolNext /\ UNCHANGED <<ioVars, facadeVars, cacheVars>>
  \/ Of("io_optimizer") /\ IoNext /\ UNCHANGED <<poolVars, facadeVars, cacheVars>>
  \/ Of("sqlite_store") /\ FacadeNext /\ UNCHANGED <<poolVars, ioVars, cacheVars>>
  \/ Of("redis_cache") /\ CacheNext /\ UNCHANGED <<poolVars, ioVars, facadeVars>>

StorageSpec == StorageInit /\ [][StorageNext]_storageVars

SmallAndLarge == <<2, 4>>

OneList == {CHOOSE list \in SetToSeqs(Paths) : TRUE}

Alike == Permutations(Threads) \cup Permutations(Buffers)
=============================================================================
