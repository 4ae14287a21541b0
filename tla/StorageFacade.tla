---------------------------- MODULE StorageFacade ----------------------------
(***************************************************************************)
(* StorageOptimizer (src/uhcr/storage/__init__.py) and the SQLiteStore     *)
(* (src/uhcr/storage/sqlite_store.py) it owns.  initialize and shutdown    *)
(* run on the event loop: initialize never suspends, shutdown does at one  *)
(* point, while the Redis cache closes.  Worker threads meanwhile write    *)
(* through the store they were given; each method is a statement and then  *)
(* a commit, on a connection all of them share.                            *)
(*                                                                         *)
(* Parts are told apart by the initialize that made them (a generation).   *)
(* SQLite is external: it locks the database for the connection that has   *)
(* uncommitted rows, drops them when the connection closes or the process  *)
(* dies, and keeps what was committed.  Methods that only read are left    *)
(* out.                                                                    *)
(***************************************************************************)
EXTENDS Integers, FiniteSets

CONSTANTS
  Stoppers,    (* tasks that call shutdown                                 *)
  Writers,     (* threads that call record_job, store_config,              *)
               (* record_metric                                            *)
  Records,     (* primary keys of jobs and config: replaced                *)
  Metrics,     (* job and metric names of metrics: added                   *)
  MaxRows,     (* bound on the statements executed (model only)            *)
  MaxGen       (* bound on the times initialize constructs (model only)    *)

ASSUME FacadeAssumption == MaxRows \in Nat /\ MaxGen \in Nat

Parts == {"memory_pool", "sqlite_store", "redis_cache", "io_optimizer"}
None  == 0

VARIABLES
  initialized,  (* _initialized                                            *)
  part,         (* part[k]: the generation of the part k, or None          *)
  generation,   (* number of times initialize has constructed parts        *)
  openParts,    (* the parts constructed and not closed                    *)
  stopper,      (* stopper[s]: the cache whose close() s awaits in          *)
                (* shutdown, or None                                       *)
  overlapped,   (* history: two shutdowns were under way at once           *)
  rows,         (* the rows on disk                                        *)
  uncommitted,  (* uncommitted[g]: rows executed on connection g           *)
  executed,     (* number of statements executed                           *)
  writer,       (* writer[t]: the method t is in                           *)
  acknowledged  (* history: rows whose method returned                     *)

storeVars  == <<rows, uncommitted, executed, writer, acknowledged>>
facadeVars == <<initialized, part, generation, openParts, stopper, overlapped, storeVars>>

NoCall == [pc |-> "idle"]

FacadeInit ==
  /\ initialized = FALSE
  /\ part = [k \in Parts |-> None]
  /\ generation = 0
  /\ openParts = {}
  /\ stopper = [s \in Stoppers |-> None]
  /\ overlapped = FALSE
  /\ rows = {}
  /\ uncommitted = [g \in 1 .. MaxGen |-> {}]
  /\ executed = 0
  /\ writer = [t \in Writers |-> NoCall]
  /\ acknowledged = {}

(* initialize: each part is constructed or, its exception being logged,    *)
(* left as it was.                                                         *)
Initialize(constructed) ==
  /\ ~initialized
  /\ generation < MaxGen
  /\ generation' = generation + 1
  /\ part' = [k \in Parts |-> IF k \in constructed THEN generation' ELSE part[k]]
  /\ openParts' = openParts \cup {<<k, generation'>> : k \in constructed}
  /\ initialized' = TRUE
  /\ UNCHANGED <<stopper, overlapped, storeVars>>

(* Closing connection g rolls back what it has not committed.              *)
Disconnect(g) ==
  uncommitted' = IF g = None THEN uncommitted ELSE [uncommitted EXCEPT ![g] = {}]

(* Mutant: the flag is dropped before the parts are closed.                *)
FlagWhileClosing == FALSE

FlagDuringClose == initialized

(* The rest of shutdown after the Redis cache: no suspension.              *)
CloseParts(redis) ==
  /\ openParts' = (openParts \ {<<k, part[k]>> : k \in Parts \ {"redis_cache"}}) \ {<<"redis_cache", redis>>}
  /\ Disconnect(part["sqlite_store"])
  /\ part' = [k \in Parts |-> None]
  /\ initialized' = FALSE
  /\ UNCHANGED <<generation, rows, executed, writer, acknowledged>>

ShutdownWithoutCache(s) ==
  /\ stopper[s] = None /\ initialized
  /\ part["redis_cache"] = None
  /\ CloseParts(None)
  /\ UNCHANGED <<stopper, overlapped>>

(* shutdown up to the await of the cache's close(), which suspends when    *)
(* there is a Redis client to close.                                       *)
BeginShutdown(s) ==
  /\ stopper[s] = None /\ initialized
  /\ part["redis_cache"] # None
  /\ stopper' = [stopper EXCEPT ![s] = part["redis_cache"]]
  /\ overlapped' = (overlapped \/ \E r \in Stoppers : stopper[r] # None)
  /\ initialized' = FlagDuringClose
  /\ UNCHANGED <<part, generation, openParts, storeVars>>

(* From the end of that await, with or without an exception, to the end.   *)
EndShutdown(s) ==
  /\ stopper[s] # None
  /\ CloseParts(stopper[s])
  /\ stopper' = [stopper EXCEPT ![s] = None]
  /\ UNCHANGED overlapped

-----------------------------------------------------------------------------
(* SQLiteStore.                                                            *)

Connected(g) == <<"sqlite_store", g>> \in openParts

(* Another connection has the database locked until it commits or closes.  *)
Locked(g) == \E h \in 1 .. MaxGen : h # g /\ uncommitted[h] # {}

(* INSERT OR REPLACE, or INSERT.                                           *)
Inserted(table, row) ==
  {r \in table : row.key \in Metrics \/ r.key # row.key} \cup {row}

(* The statement of record_job, store_config or record_metric.             *)
ExecuteInsert(t, key) ==
  /\ writer[t] = NoCall
  /\ executed < MaxRows
  /\ LET g == part["sqlite_store"]
         row == [key |-> key, n |-> executed + 1]
     IN  /\ g # None /\ Connected(g) /\ ~Locked(g)
         /\ executed' = executed + 1
         /\ uncommitted' = [uncommitted EXCEPT ![g] = Inserted(@, row)]
         /\ writer' = [writer EXCEPT ![t] = [pc |-> "executed", store |-> g, row |-> row]]
  /\ UNCHANGED <<initialized, part, generation, openParts, stopper, overlapped, rows,
                 acknowledged>>

Merged(table, new) ==
  {r \in table : r.key \in Metrics \/ \A q \in new : q.key # r.key} \cup new

(* Mutant: the method returns without a commit.                            *)
CommitLater(g) == UNCHANGED <<rows, uncommitted>>

Commit(g) ==
  /\ rows' = Merged(rows, uncommitted[g])
  /\ uncommitted' = [uncommitted EXCEPT ![g] = {}]

(* The commit, of whatever the connection holds by then; on a closed       *)
(* connection the method raises.                                           *)
FinishInsert(t) ==
  /\ writer[t] # NoCall
  /\ writer' = [writer EXCEPT ![t] = NoCall]
  /\ IF Connected(writer[t].store)
     THEN /\ Commit(writer[t].store)
          /\ acknowledged' = acknowledged \cup {writer[t].row}
     ELSE UNCHANGED <<rows, uncommitted, acknowledged>>
  /\ UNCHANGED <<initialized, part, generation, openParts, stopper, overlapped, executed>>

(* The process dies and another one starts.                                *)
Crash ==
  /\ initialized' = FALSE
  /\ part' = [k \in Parts |-> None]
  /\ openParts' = {}
  /\ stopper' = [s \in Stoppers |-> None]
  /\ uncommitted' = [g \in 1 .. MaxGen |-> {}]
  /\ writer' = [t \in Writers |-> NoCall]
  /\ UNCHANGED <<generation, overlapped, rows, executed, acknowledged>>

FacadeNext ==
  \/ \E constructed \in SUBSET Parts : Initialize(constructed)
  \/ \E s \in Stoppers : ShutdownWithoutCache(s) \/ BeginShutdown(s) \/ EndShutdown(s)
  \/ \E t \in Writers :
       \/ \E key \in Records \cup Metrics : ExecuteInsert(t, key)
       \/ FinishInsert(t)
  \/ Crash

FacadeSpec == FacadeInit /\ [][FacadeNext]_facadeVars

-----------------------------------------------------------------------------
(* Properties.                                                             *)

(* Unless two shutdowns overlapped, parts are never orphaned: what is open *)
(* is what the facade refers to, and after a shutdown nothing is open.     *)
PartsOwned ==
  overlapped \/ openParts = {<<k, part[k]>> : k \in {k \in Parts : part[k] # None}}

(* Once record_job, store_config or record_metric has returned, its row, or *)
(* one that replaced it, is on disk, whichever threads shared the          *)
(* connection, however often it was closed, and if the process died.       *)
AcknowledgedRowsSurvive == \A a \in acknowledged :
  \E r \in rows : r.key = a.key /\ (IF a.key \in Metrics THEN r.n = a.n ELSE r.n >= a.n)
=============================================================================
