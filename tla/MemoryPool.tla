----------------------------- MODULE MemoryPool -----------------------------
(***************************************************************************)
(* MemoryPool and AlignedBuffer (src/uhcr/storage/memory_pool.py): buffers *)
(* of a few size classes that threads allocate, release, or simply let go. *)
(* A method body under the pool's lock is one step; what release() does    *)
(* before it takes the lock is a step of its own.                          *)
(*                                                                         *)
(* The threads are well behaved: each releases a buffer it holds, once,    *)
(* and touches it no more.  The system allocator is external: it hands out *)
(* an address nobody uses.  The hit and miss counters are left out.        *)
(***************************************************************************)
EXTENDS Integers, Sequences, FiniteSets

CONSTANTS
  Threads,
  Buffers,        (* the AlignedBuffer objects there can be (model bound)  *)
  SizeClasses,    (* SIZE_CLASSES, ascending                               *)
  Requests,       (* sizes asked for, 0 and too large ones included        *)
  MaxPoolBytes,   (* max_pool_bytes                                        *)
  Nothing         (* no buffer                                             *)

Classes == {SizeClasses[i] : i \in DOMAIN SizeClasses}

ASSUME PoolAssumption ==
  /\ SizeClasses \in Seq(Nat \ {0})
  /\ \A i, k \in DOMAIN SizeClasses : i < k => SizeClasses[i] < SizeClasses[k]
  /\ Requests \subseteq Nat
  /\ MaxPoolBytes \in Nat
  /\ Nothing \notin Buffers

VARIABLES
  size,         (* AlignedBuffer.size; 0 while the buffer does not exist   *)
                (* or its address is None                                  *)
  freeLists,    (* _free_lists                                             *)
  pooledBytes,  (* _pooled_bytes                                           *)
  held,         (* held[t]: the buffers t works with                       *)
  returning,    (* returning[t]: the buffer t is about to give back under  *)
                (* the lock, or Nothing                                    *)
  want          (* history: the size last asked for when b was handed out  *)

poolVars == <<size, freeLists, pooledBytes, held, returning, want>>

NoClass == 0

Pooled == UNION {{freeLists[c][i] : i \in DOMAIN freeLists[c]} : c \in Classes}

PoolInit ==
  /\ size = [b \in Buffers |-> 0]
  /\ freeLists = [c \in Classes |-> <<>>]
  /\ pooledBytes = 0
  /\ held = [t \in Threads |-> {}]
  /\ returning = [t \in Threads |-> Nothing]
  /\ want = [b \in Buffers |-> 0]

(* Mutant: the largest class below the request is taken.                   *)
ClassBelow(n) ==
  LET fits == {c \in Classes : c <= n}
  IN  IF fits = {} THEN NoClass ELSE CHOOSE c \in fits : \A d \in fits : d <= c

FindSizeClass(n) ==
  LET fits == {c \in Classes : n <= c}
  IN  IF fits = {} THEN NoClass ELSE CHOOSE c \in fits : \A d \in fits : c <= d

HandOut(t, b, n) ==
  /\ held' = [held EXCEPT ![t] = @ \cup {b}]
  /\ want' = [want EXCEPT ![b] = n]

SystemAllocate(t, b, bytes, n) ==
  /\ size[b] = 0
  /\ size' = [size EXCEPT ![b] = bytes]
  /\ HandOut(t, b, n)
  /\ UNCHANGED <<freeLists, pooledBytes, returning>>

Ready(t) == returning[t] = Nothing

(* allocate() of more than the largest class: exactly that much, unpooled. *)
AllocateOversized(t, n, b) ==
  /\ Ready(t)
  /\ n > 0 /\ FindSizeClass(n) = NoClass
  /\ SystemAllocate(t, b, n, n)

AllocateMiss(t, n, b) ==
  /\ Ready(t)
  /\ n > 0
  /\ FindSizeClass(n) # NoClass
  /\ freeLists[FindSizeClass(n)] = <<>>
  /\ SystemAllocate(t, b, FindSizeClass(n), n)

LastOf(list)  == list[Len(list)]
FrontOf(list) == SubSeq(list, 1, Len(list) - 1)

(* Mutant: the buffer is looked at, not popped.                            *)
AllocatePeek(t, n) ==
  /\ Ready(t)
  /\ n > 0
  /\ LET c == FindSizeClass(n)
     IN  /\ c # NoClass
         /\ freeLists[c] # <<>>
         /\ HandOut(t, LastOf(freeLists[c]), n)
         /\ pooledBytes' = pooledBytes - c
  /\ UNCHANGED <<size, freeLists, returning>>

AllocateHit(t, n) ==
  /\ Ready(t)
  /\ n > 0
  /\ LET c == FindSizeClass(n)
     IN  /\ c # NoClass
         /\ freeLists[c] # <<>>
         /\ HandOut(t, LastOf(freeLists[c]), n)
         /\ freeLists' = [freeLists EXCEPT ![c] = FrontOf(@)]
         /\ pooledBytes' = pooledBytes - c
  /\ UNCHANGED <<size, returning>>

Free(b) == size' = [size EXCEPT ![b] = 0]

LetGo(t, b) == held' = [held EXCEPT ![t] = @ \ {b}]

(* release() before the lock: a buffer of no class is freed at once.       *)
Release(t, b) ==
  /\ Ready(t)
  /\ b \in held[t]
  /\ LetGo(t, b)
  /\ IF FindSizeClass(size[b]) = size[b]
     THEN returning' = [returning EXCEPT ![t] = b] /\ UNCHANGED size
     ELSE Free(b) /\ UNCHANGED returning
  /\ UNCHANGED <<freeLists, pooledBytes, want>>

(* Mutant: the pool is full only when not a byte is left.                  *)
NoByteLeft(c) == pooledBytes >= MaxPoolBytes

PoolFull(c) == pooledBytes + c > MaxPoolBytes

(* release() under the lock.                                               *)
ReturnToPool(t) ==
  /\ returning[t] # Nothing
  /\ LET b == returning[t]
         c == size[b]
     IN  IF PoolFull(c)
         THEN Free(b) /\ UNCHANGED <<freeLists, pooledBytes>>
         ELSE /\ freeLists' = [freeLists EXCEPT ![c] = Append(@, b)]
              /\ pooledBytes' = pooledBytes + c
              /\ UNCHANGED size
  /\ returning' = [returning EXCEPT ![t] = Nothing]
  /\ UNCHANGED <<held, want>>

ReleaseAll(t) ==
  /\ Ready(t)
  /\ size' = [b \in Buffers |-> IF b \in Pooled THEN 0 ELSE size[b]]
  /\ freeLists' = [c \in Classes |-> <<>>]
  /\ pooledBytes' = 0
  /\ UNCHANGED <<held, returning, want>>

(* The last reference goes away without a release: __del__, or leaving a   *)
(* "with" block, frees the memory.                                         *)
Drop(t, b) ==
  /\ Ready(t)
  /\ b \in held[t]
  /\ LetGo(t, b)
  /\ Free(b)
  /\ UNCHANGED <<freeLists, pooledBytes, returning, want>>

PoolNext == \E t \in Threads :
  \/ \E n \in Requests :
       \/ AllocateHit(t, n)
       \/ \E b \in Buffers : AllocateMiss(t, n, b) \/ AllocateOversized(t, n, b)
  \/ \E b \in Buffers : Release(t, b) \/ Drop(t, b)
  \/ ReturnToPool(t)
  \/ ReleaseAll(t)

PoolSpec == PoolInit /\ [][PoolNext]_poolVars

-----------------------------------------------------------------------------
(* Properties.                                                             *)

HeldByOne == \A t \in Threads : \A b \in held[t] :
  /\ size[b] > 0 /\ size[b] >= want[b]
  /\ b \notin Pooled
  /\ \A u \in Threads : returning[u] # b /\ (b \in held[u] => u = t)

ReturnedByOne == \A t \in Threads : returning[t] # Nothing =>
  /\ size[returning[t]] \in Classes
  /\ returning[t] \notin Pooled
  /\ \A u \in Threads : returning[u] = returning[t] => u = t

ListedOnce == \A c \in Classes : \A i, k \in DOMAIN freeLists[c] :
  /\ size[freeLists[c][i]] = c
  /\ freeLists[c][i] = freeLists[c][k] => i = k

NoneLost == \A b \in Buffers : size[b] > 0 =>
  b \in Pooled \/ \E t \in Threads : b \in held[t] \/ returning[t] = b

(* Nobody shares memory: a buffer is with one thread, or on its way back   *)
(* from one, or once in one free list.  There it is alive and of the size  *)
(* of that list; with a thread it is alive and as large as that thread     *)
(* asked for.  And no memory is lost: what is alive is somewhere.          *)
BuffersExclusive == HeldByOne /\ ReturnedByOne /\ ListedOnce /\ NoneLost

(* The bytes of the pooled buffers.                                        *)
PooledMemory == UNION {{b} \X (1 .. size[b]) : b \in Pooled}

(* The pool holds what it says it holds, and never more than it may,       *)
(* however many threads return buffers at once to an almost full pool.     *)
PoolAccounts ==
  /\ pooledBytes = Cardinality(PooledMemory)
  /\ pooledBytes <= MaxPoolBytes
=============================================================================
