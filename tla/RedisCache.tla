----------------------------- MODULE RedisCache -----------------------------
(***************************************************************************)
(* RedisCache (src/uhcr/storage/redis_cache.py): get, put and invalidate   *)
(* against a Redis server, with a one-way switch to a dictionary in memory *)
(* at the first exception.  The coroutines of one process interleave at    *)
(* their one await, the call to Redis; the fallback never suspends.        *)
(*                                                                         *)
(* Redis is external: it executes a command at some moment after it was    *)
(* sent, or never; the reply comes or an exception does, whether or not    *)
(* the command was executed.  It refuses a time to live of zero.           *)
(*                                                                         *)
(* Every put and invalidate is a write with a number of its own; the bytes *)
(* a put stores are represented by that number, so compression (which is   *)
(* undone by the matching get) does not appear.                            *)
(***************************************************************************)
EXTENDS Integers

CONSTANTS
  Tasks,      (* coroutines that use the cache                             *)
  Keys,
  Ttls,       (* times to live asked for                                   *)
  MaxWrites,  (* bound on the number of writes (model only)                *)
  MaxClock    (* bound on the clock (model only)                           *)

ASSUME CacheAssumption ==
  Ttls \subseteq Nat /\ MaxWrites \in Nat /\ MaxClock \in Nat

VARIABLES
  usingFallback,  (* _using_fallback                                       *)
  clientOpen,     (* _redis_client is not None                             *)
  store,          (* _memory_store: the entry of each key                  *)
  redis,          (* the server's entry of each key                        *)
  op,             (* op[t]: the operation t is in                          *)
  clock,          (* time.time(), and the server's                         *)
  writes,         (* number of writes begun                                *)
  done,           (* history: completed writes, each with its key and, for *)
                  (* a put, the last moment at which it may be served      *)
  superseded,     (* history: writes that were completed before another,   *)
                  (* completed, write of the same key began                *)
  servedStale     (* history: the writes a get has answered with that were *)
                  (* superseded or had expired when that get began         *)

cacheVars == <<usingFallback, clientOpen, store, redis, op, clock, writes, done,
               superseded, servedStale>>

Nil     == 0
NoEntry == [value |-> Nil, expiry |-> 0]
NoOp    == [kind |-> "none"]

CacheInit ==
  /\ usingFallback \in BOOLEAN   (* no redis package or no URL: at once     *)
  /\ clientOpen = ~usingFallback
  /\ store = [k \in Keys |-> NoEntry]
  /\ redis = [k \in Keys |-> NoEntry]
  /\ op = [t \in Tasks |-> NoOp]
  /\ clock = 0
  /\ writes = 0
  /\ done = {}
  /\ superseded = {}
  /\ servedStale = {}

Idle(t) == op[t] = NoOp

(* What a get that begins now must not answer.                             *)
ExpiredWrites == {d.write : d \in {e \in done : e.until < clock}}
StaleNow      == superseded \cup ExpiredWrites

-----------------------------------------------------------------------------
(* The end of an operation o, seen by its caller (history).                *)
Answer(o, v) ==
  /\ servedStale' = servedStale \cup ({v} \cap o.stale)
  /\ UNCHANGED <<done, superseded>>

Complete(o) ==
  /\ done' = done \cup {[write |-> o.write, key |-> o.key, until |-> clock + o.ttl]}
  /\ superseded' = superseded \cup o.before
  /\ UNCHANGED servedStale

Expired(e) == clock > e.expiry

(* _fallback_get, _fallback_put and _fallback_invalidate.                  *)
FallbackGet(o) ==
  LET e == store[o.key]
  IN  IF e = NoEntry \/ Expired(e)
      THEN store' = [store EXCEPT ![o.key] = NoEntry] /\ Answer(o, Nil)
      ELSE UNCHANGED store /\ Answer(o, e.value)

FallbackPut(o) ==
  /\ store' = [store EXCEPT ![o.key] = [value |-> o.write, expiry |-> clock + o.ttl]]
  /\ Complete(o)

FallbackInvalidate(o) ==
  /\ store' = [store EXCEPT ![o.key] = NoEntry]
  /\ Complete(o)

Fallback(o) ==
  \/ o.kind = "get" /\ FallbackGet(o)
  \/ o.kind = "put" /\ FallbackPut(o)
  \/ o.kind = "invalidate" /\ FallbackInvalidate(o)

(* Mutant: the fallback serves this operation only, Redis the next ones.   *)
FallBackOnce == UNCHANGED usingFallback

SwitchToFallback == usingFallback' = TRUE

-----------------------------------------------------------------------------
(* A call of the public API.  In fallback mode, and after close() (calling *)
(* None raises at once, which also switches), it never suspends.           *)
Call(t, o) ==
  /\ Idle(t)
  /\ IF usingFallback \/ ~clientOpen
     THEN Fallback(o) /\ SwitchToFallback /\ UNCHANGED op
     ELSE /\ op' = [op EXCEPT ![t] = o]
          /\ UNCHANGED <<usingFallback, store, done, superseded, servedStale>>
  /\ UNCHANGED <<clientOpen, redis, clock>>

Get(t, k) ==
  /\ Call(t, [kind |-> "get", key |-> k, stale |-> StaleNow, pc |-> "sent"])
  /\ UNCHANGED writes

Write(t, kind, k, ttl) ==
  /\ writes < MaxWrites
  /\ writes' = writes + 1
  /\ Call(t, [kind |-> kind, key |-> k, ttl |-> ttl, write |-> writes',
              before |-> {d.write : d \in {e \in done : e.key = k}}, pc |-> "sent"])

Put(t, k, ttl)   == Write(t, "put", k, ttl)
Invalidate(t, k) == Write(t, "invalidate", k, 0)

(* Redis executes the command; a get's answer is now on its way.           *)
RedisExecutes(t) ==
  /\ ~Idle(t)
  /\ op[t].pc = "sent"
  /\ LET o == op[t]
         live == redis[o.key].expiry > clock
     IN  \/ /\ o.kind = "get"
            /\ op' = [op EXCEPT ![t] =
                 [kind |-> "get", key |-> o.key, stale |-> o.stale, pc |-> "executed",
                  value |-> IF live THEN redis[o.key].value ELSE Nil]]
            /\ UNCHANGED redis
         \/ /\ o.kind = "put" /\ o.ttl > 0
            /\ redis' = [redis EXCEPT ![o.key] =
                           [value |-> o.write, expiry |-> clock + o.ttl]]
            /\ op' = [op EXCEPT ![t].pc = "executed"]
         \/ /\ o.kind = "invalidate"
            /\ redis' = [redis EXCEPT ![o.key] = NoEntry]
            /\ op' = [op EXCEPT ![t].pc = "executed"]
  /\ UNCHANGED <<usingFallback, clientOpen, store, clock, writes, done, superseded,
                 servedStale>>

(* The await returns.                                                      *)
RedisAnswers(t) ==
  /\ ~Idle(t)
  /\ op[t].pc = "executed"
  /\ IF op[t].kind = "get" THEN Answer(op[t], op[t].value) ELSE Complete(op[t])
  /\ op' = [op EXCEPT ![t] = NoOp]
  /\ UNCHANGED <<usingFallback, clientOpen, store, redis, clock, writes>>

(* The await raises, whatever became of the command.                       *)
RedisFails(t) ==
  /\ ~Idle(t)
  /\ SwitchToFallback
  /\ Fallback(op[t])
  /\ op' = [op EXCEPT ![t] = NoOp]
  /\ UNCHANGED <<clientOpen, redis, clock, writes>>

Close ==
  /\ clientOpen
  /\ clientOpen' = FALSE
  /\ UNCHANGED <<usingFallback, store, redis, op, clock, writes, done, superseded,
                 servedStale>>

Tick ==
  /\ clock < MaxClock
  /\ clock' = clock + 1
  /\ UNCHANGED <<usingFallback, clientOpen, store, redis, op, writes, done,
                 superseded, servedStale>>

CacheNext ==
  \/ \E t \in Tasks :
       \/ \E k \in Keys :
            \/ Get(t, k)
            \/ \E ttl \in Ttls : Put(t, k, ttl)
            \/ Invalidate(t, k)
       \/ RedisExecutes(t) \/ RedisAnswers(t) \/ RedisFails(t)
  \/ Close
  \/ Tick

CacheSpec == CacheInit /\ [][CacheNext]_cacheVars

-----------------------------------------------------------------------------
(* Properties.                                                             *)

(* A get may miss, but it never answers with bytes that a later put or     *)
(* invalidate of the key, completed before that get began, has replaced,   *)
(* nor with bytes whose time to live had run out by then: whatever fails,  *)
(* and in whichever order the calls in flight return around the switch.    *)
NeverStale == servedStale = {}
=============================================================================
