----------------------------- MODULE IOOptimizer -----------------------------
(***************************************************************************)
(* IOOptimizer (src/uhcr/storage/io_optimizer.py): writes queued under a   *)
(* lock and flushed outside it, and background threads that read files     *)
(* ahead into a cache.  What happens under a lock is one step; outside it  *)
(* every system call is one, so that two threads may be inside one file.   *)
(*                                                                         *)
(* A chunk of data is known by its number, in the order of queueing; a     *)
(* file is the sequence of the chunks in it, Zero where write_file only    *)
(* made room.  A file or batch of more than MmapThreshold chunks takes the *)
(* mapped path, where a chunk stands for whole pages.  A copy that meets a *)
(* write of the same bytes half way is left out: nothing is said of what   *)
(* it finds.  Compression is left to its library.                          *)
(***************************************************************************)
EXTENDS Integers, Sequences, SequencesExt

CONSTANTS
  Flushers,       (* threads that call flush_writes or close               *)
  Prefetchers,    (* the background threads there can be at once           *)
  Paths,
  PathLists,      (* the lists prefetch is called with                     *)
  MaxChunks,      (* bound on the writes queued (model only)               *)
  MmapThreshold,  (* MMAP_THRESHOLD, in chunks                             *)
  NoFile          (* no file at a path, or nothing cached for it           *)

ASSUME IoAssumption ==
  /\ MaxChunks \in Nat /\ MmapThreshold \in Nat
  /\ PathLists \subseteq Seq(Paths) \ {<<>>}

VARIABLES
  writeQueue,     (* _write_queue                                          *)
  queued,         (* number of chunks queued so far                        *)
  files,          (* the file system                                       *)
  flush,          (* flush[f]: the flush_writes f is in                    *)
  prefetchCache,  (* _prefetch_cache                                       *)
  worker,         (* worker[w]: the _prefetch_worker w is in               *)
  killed,         (* touching a mapping beyond the end of its file has     *)
                  (* killed the process                                    *)
  written,        (* history: chunks whose write_file returned             *)
  lost,           (* history: chunks whose write_file raised, or that were *)
                  (* left behind by an exception                           *)
  latest,         (* history: the batch last taken for each path           *)
  shared          (* history: another flush still had a batch of the path  *)
                  (* when the latest one was taken                         *)

ioVars == <<writeQueue, queued, files, flush, prefetchCache, worker, killed,
            written, lost, latest, shared>>

Zero        == 0
NoneQueued  == [p \in Paths |-> <<>>]
NoFlush     == [pc |-> "idle", pending |-> NoneQueued, closing |-> FALSE]
NoPrefetch  == [pc |-> "idle", todo |-> <<>>]

IoInit ==
  /\ writeQueue = NoneQueued
  /\ queued = 0
  /\ files = [p \in Paths |-> NoFile]
  /\ flush = [f \in Flushers |-> NoFlush]
  /\ prefetchCache = [p \in Paths |-> NoFile]
  /\ worker = [w \in Prefetchers |-> NoPrefetch]
  /\ killed = FALSE
  /\ written = {} /\ lost = {}
  /\ latest = NoneQueued
  /\ shared = [p \in Paths |-> FALSE]

Holders(p) == {f \in Flushers : flush[f].pending[p] # <<>>}

(* queue_write.                                                            *)
QueueWrite(p) ==
  /\ ~killed
  /\ queued < MaxChunks
  /\ queued' = queued + 1
  /\ writeQueue' = [writeQueue EXCEPT ![p] = Append(@, queued')]
  /\ UNCHANGED <<files, flush, prefetchCache, worker, killed, written, lost, latest,
                 shared>>

-----------------------------------------------------------------------------
(* flush_writes.                                                           *)

(* Mutant: the queue is copied and not cleared.                            *)
CopyQueue == UNCHANGED writeQueue

ClearQueue == writeQueue' = NoneQueued

(* Under the lock; close() begins in the same way.                         *)
TakeBatches(f, closing) ==
  /\ ~killed
  /\ flush[f] = NoFlush
  /\ flush' = [flush EXCEPT ![f] =
                 [pc |-> "next", pending |-> writeQueue, closing |-> closing]]
  /\ ClearQueue
  /\ LET taken == {p \in Paths : writeQueue[p] # <<>>}
     IN  /\ latest' = [p \in Paths |-> IF p \in taken THEN writeQueue[p] ELSE latest[p]]
         /\ shared' = [p \in Paths |-> IF p \in taken THEN Holders(p) # {} ELSE shared[p]]
  /\ UNCHANGED <<queued, files, prefetchCache, worker, killed, written, lost>>

(* The queue is a dictionary: the path first queued comes first.           *)
NextPath(pending) ==
  CHOOSE p \in Paths :
    /\ pending[p] # <<>>
    /\ \A q \in Paths : pending[q] # <<>> => pending[p][1] <= pending[q][1]

At(f, pc) == ~killed /\ flush[f].pc = pc /\ flush[f].pending # NoneQueued

Path(f)  == NextPath(flush[f].pending)
Batch(f) == flush[f].pending[Path(f)]
Large(f) == Len(Batch(f)) > MmapThreshold

GoOn(f, pc) == flush' = [flush EXCEPT ![f].pc = pc]
(* write_file returned, or its OSError was caught: on to the next path.    *)
NextFile(f) == flush' = [flush EXCEPT ![f].pc = "next", ![f].pending[Path(f)] = <<>>]

(* data written from the start of a file that holds old.                   *)
Over(data, old) == data \o SubSeq(old, Len(data) + 1, Len(old))

(* One byte written after seeking to the end of n chunks.                  *)
Preallocated(n, old) ==
  [i \in 1 .. (IF n > Len(old) THEN n ELSE Len(old)) |->
     IF i # n /\ i <= Len(old) THEN old[i] ELSE Zero]

(* Mutant: what is in the file stays there until it is overwritten.        *)
OpenedForUpdate(content) == IF content = NoFile THEN <<>> ELSE content

Truncated(content) == <<>>

(* write_file: open(path, "wb").                                           *)
OpenFile(f) ==
  /\ At(f, "next")
  /\ files' = [files EXCEPT ![Path(f)] = Truncated(@)]
  /\ GoOn(f, "opened")
  /\ UNCHANGED <<writeQueue, queued, prefetchCache, worker, killed, written, lost,
                 latest, shared>>

Wrote(f, content) ==
  /\ files' = [files EXCEPT ![Path(f)] = content]
  /\ NextFile(f)
  /\ written' = written \cup ToSet(Batch(f))
  /\ UNCHANGED <<writeQueue, queued, prefetchCache, worker, killed, lost, latest, shared>>

WriteSmall(f) ==
  /\ At(f, "opened") /\ ~Large(f)
  /\ Wrote(f, Over(Batch(f), files[Path(f)]))

Preallocate(f) ==
  /\ At(f, "opened") /\ Large(f)
  /\ files' = [files EXCEPT ![Path(f)] = Preallocated(Len(Batch(f)), @)]
  /\ GoOn(f, "sized")
  /\ UNCHANGED <<writeQueue, queued, prefetchCache, worker, killed, written, lost,
                 latest, shared>>

Fits(f) == Len(files[Path(f)]) >= Len(Batch(f))

(* mmap() refuses a length beyond the end of the file with a ValueError,   *)
(* which is no OSError: flush_writes ends there, with all it still had.    *)
Map(f) ==
  /\ At(f, "sized")
  /\ IF Fits(f)
     THEN GoOn(f, "mapped") /\ UNCHANGED lost
     ELSE /\ flush' = [flush EXCEPT ![f] = NoFlush]
          /\ lost' = lost \cup UNION {ToSet(flush[f].pending[p]) : p \in Paths}
  /\ UNCHANGED <<writeQueue, queued, files, prefetchCache, worker, killed, written,
                 latest, shared>>

WriteMapped(f) ==
  /\ At(f, "mapped")
  /\ Fits(f)
  /\ Wrote(f, Over(Batch(f), files[Path(f)]))

(* The file was cut under the mapping.                                     *)
BusError(f) ==
  /\ At(f, "mapped")
  /\ ~Fits(f)
  /\ killed' = TRUE
  /\ UNCHANGED <<writeQueue, queued, files, flush, prefetchCache, worker, written, lost,
                 latest, shared>>

(* An OSError: no such directory, no permission, no second descriptor or   *)
(* mapping, or, once the file is open, no space, after any part of a small *)
(* batch.  It is logged.                                                   *)
WriteFails(f) ==
  /\ \/ (At(f, "next") \/ At(f, "sized")) /\ UNCHANGED files
     \/ /\ At(f, "opened")
        /\ \E n \in 0 .. (IF Large(f) THEN 0 ELSE Len(Batch(f)) - 1) :
             files' = [files EXCEPT ![Path(f)] = Over(SubSeq(Batch(f), 1, n), @)]
  /\ NextFile(f)
  /\ lost' = lost \cup ToSet(Batch(f))
  /\ UNCHANGED <<writeQueue, queued, prefetchCache, worker, killed, written, latest,
                 shared>>

(* flush_writes returns; close() goes on to clear the cache, under its lock. *)
EndFlush(f) ==
  /\ ~killed
  /\ flush[f].pc = "next" /\ flush[f].pending = NoneQueued
  /\ flush' = [flush EXCEPT ![f] = NoFlush]
  /\ prefetchCache' = IF flush[f].closing THEN [p \in Paths |-> NoFile] ELSE prefetchCache
  /\ UNCHANGED <<writeQueue, queued, files, worker, killed, written, lost, latest, shared>>

-----------------------------------------------------------------------------
(* prefetch and its background thread.                                     *)

Prefetch(w, paths) ==
  /\ ~killed
  /\ worker[w] = NoPrefetch
  /\ worker' = [worker EXCEPT ![w] = [pc |-> "stat", todo |-> paths]]
  /\ UNCHANGED <<writeQueue, queued, files, flush, prefetchCache, killed, written, lost,
                 latest, shared>>

Prefetching(w, pc) == ~killed /\ worker[w].pc = pc

Skip(w) ==
  worker' = [worker EXCEPT ![w] =
    IF Len(worker[w].todo) = 1 THEN NoPrefetch
    ELSE [pc |-> "stat", todo |-> Tail(worker[w].todo)]]

(* read_file: getsize chooses between a plain and a mapped read; a missing *)
(* file is skipped.                                                        *)
StatFile(w) ==
  /\ Prefetching(w, "stat")
  /\ LET content == files[Head(worker[w].todo)]
     IN  IF content = NoFile
         THEN Skip(w)
         ELSE worker' = [worker EXCEPT ![w] =
                [pc |-> "read", todo |-> worker[w].todo, size |-> Len(content)]]
  /\ UNCHANGED <<writeQueue, queued, files, flush, prefetchCache, killed, written, lost,
                 latest, shared>>

(* An OSError of getsize, open, mmap or read: the path is skipped.         *)
ReadFails(w) ==
  /\ Prefetching(w, "stat") \/ Prefetching(w, "read")
  /\ Skip(w)
  /\ UNCHANGED <<writeQueue, queued, files, flush, prefetchCache, killed, written, lost,
                 latest, shared>>

(* Mutant: as much is read as the file had when its size was asked for.    *)
UpToSize(content, n) == SubSeq(content, 1, IF n < Len(content) THEN n ELSE Len(content))

Contents(content, n) == content

Quiet(p) == Holders(p) = {} /\ ~shared[p] /\ latest[p] # <<>> /\ latest[p][1] \in written

Reading(w)  == Head(worker[w].todo)
IsMapped(w) == worker[w].size > MmapThreshold

(* expect is history: what a read in a quiet moment must find.             *)
HasRead(w, data, expect) ==
  worker' = [worker EXCEPT ![w] =
    [pc |-> "store", todo |-> worker[w].todo, data |-> data, expect |-> expect]]

ReadPlain(w) ==
  /\ Prefetching(w, "read") /\ ~IsMapped(w)
  /\ LET p == Reading(w)
         data == Contents(files[p], worker[w].size)
     IN  HasRead(w, data, IF Quiet(p) THEN latest[p] ELSE data)
  /\ UNCHANGED <<writeQueue, queued, files, flush, prefetchCache, killed, written, lost,
                 latest, shared>>

(* mmap() takes the length the file has now.  A file that is empty by now  *)
(* cannot be mapped: ValueError, which ends the thread and forgets the     *)
(* other paths.  seen is history: the batch of a quiet moment.             *)
MapForReading(w) ==
  /\ Prefetching(w, "read") /\ IsMapped(w)
  /\ LET p == Reading(w)
     IN  worker' = [worker EXCEPT ![w] =
           IF files[p] = <<>> THEN NoPrefetch
           ELSE [pc |-> "mapped", todo |-> worker[w].todo,
                 length |-> Len(Contents(files[p], worker[w].size)),
                 seen |-> IF Quiet(p) THEN latest[p] ELSE <<>>]]
  /\ UNCHANGED <<writeQueue, queued, files, flush, prefetchCache, killed, written, lost,
                 latest, shared>>

(* mm.read: as much as was mapped, of what the file holds by now.          *)
ReadMapped(w) ==
  /\ Prefetching(w, "mapped")
  /\ LET p == Reading(w)
         data == SubSeq(files[p], 1, worker[w].length)
     IN  /\ Len(files[p]) >= worker[w].length
         /\ HasRead(w, data,
              IF Quiet(p) /\ worker[w].seen = latest[p] THEN latest[p] ELSE data)
  /\ UNCHANGED <<writeQueue, queued, files, flush, prefetchCache, killed, written, lost,
                 latest, shared>>

(* A flush has cut the file under the mapping.                             *)
ReadBusError(w) ==
  /\ Prefetching(w, "mapped")
  /\ Len(files[Reading(w)]) < worker[w].length
  /\ killed' = TRUE
  /\ UNCHANGED <<writeQueue, queued, files, flush, prefetchCache, worker, written, lost,
                 latest, shared>>

StorePrefetched(w) ==
  /\ Prefetching(w, "store")
  /\ prefetchCache' = [prefetchCache EXCEPT ![Head(worker[w].todo)] =
       [data |-> worker[w].data, expect |-> worker[w].expect]]
  /\ Skip(w)
  /\ UNCHANGED <<writeQueue, queued, files, flush, killed, written, lost, latest, shared>>

IoNext ==
  \/ \E p \in Paths : QueueWrite(p)
  \/ \E f \in Flushers :
       \/ \E closing \in BOOLEAN : TakeBatches(f, closing)
       \/ OpenFile(f) \/ WriteSmall(f) \/ Preallocate(f) \/ Map(f) \/ WriteMapped(f)
       \/ BusError(f) \/ WriteFails(f) \/ EndFlush(f)
  \/ \E w \in Prefetchers :
       \/ \E paths \in PathLists : Prefetch(w, paths)
       \/ StatFile(w) \/ ReadFails(w) \/ ReadPlain(w) \/ MapForReading(w)
       \/ ReadMapped(w) \/ ReadBusError(w) \/ StorePrefetched(w)

IoSpec == IoInit /\ [][IoNext]_ioVars

-----------------------------------------------------------------------------
(* Properties.                                                             *)

Contained(seqs) == UNION {ToSet(seqs[p]) : p \in Paths}

(* Every chunk ever queued is in exactly one place: still queued, in the   *)
(* batches of exactly one flush, written, or given up after an error; and  *)
(* a flush holds the chunks of a path in the order they were queued.       *)
ChunksAccounted ==
  LET places == <<Contained(writeQueue), written, lost>>
  IN  /\ (UNION ToSet(places)) \cup UNION {Contained(flush[f].pending) : f \in Flushers}
           = 1 .. queued
      /\ \A i, k \in DOMAIN places : i # k => places[i] \cap places[k] = {}
      /\ \A f, g \in Flushers :
           /\ \A i \in DOMAIN places : Contained(flush[f].pending) \cap places[i] = {}
           /\ f # g => Contained(flush[f].pending) \cap Contained(flush[g].pending) = {}
      /\ \A f \in Flushers, p \in Paths :
           LET batch == flush[f].pending[p]
           IN  \A i, k \in DOMAIN batch : i < k => batch[i] < batch[k]

(* When nobody is writing to a path, and the latest batch taken for it had *)
(* the path to itself and was written without an error, then the file is   *)
(* that batch: whole, in order, and with nothing left of what was there.   *)
(* What was read ahead in such a moment is that batch too, whatever        *)
(* happened between asking for the size and reading, and before storing; a *)
(* mapped read is in such a moment from the mapping to the copying.        *)
QuietFilesWhole == \A p \in Paths :
  /\ Quiet(p) => files[p] = latest[p]
  /\ prefetchCache[p] # NoFile => prefetchCache[p].data = prefetchCache[p].expect
=============================================================================
