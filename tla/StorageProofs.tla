--------------------------- MODULE StorageProofs ---------------------------
(***************************************************************************)
(* Theorems about the four parts of the storage layer, which share no      *)
(* state.                                                                  *)
(*                                                                         *)
(* Memory pool: exclusive ownership of buffers and the byte count, for any *)
(* number of threads and buffers, any ascending size classes and any limit *)
(* of the pool.                                                            *)
(*                                                                         *)
(* Facade and SQLite: the parts the facade refers to are the open ones as  *)
(* long as no two shutdowns overlap, and an acknowledged row survives.     *)
(*                                                                         *)
(* Redis cache: no answer is stale, whatever fails and in whichever order  *)
(* the calls in flight return around the switch to the fallback.           *)
(*                                                                         *)
(* I/O optimizer: where every queued chunk is, and which files are whole   *)
(* while flushes of the same path overlap, fail and are cut short.         *)
(***************************************************************************)
EXTENDS MemoryPool, StorageFacade, RedisCache, IOOptimizer, SequenceTheorems,
        FiniteSetTheorems, WellFoundedInduction, TLAPS

(* MEMORY POOL *)

OwnershipTypeOK ==
  /\ size \in [Buffers -> Nat]
  /\ freeLists \in [Classes -> Seq(Buffers)]
  /\ held \in [Threads -> SUBSET Buffers]
  /\ returning \in [Threads -> Buffers \cup {Nothing}]
  /\ want \in [Buffers -> Nat]

EInv == OwnershipTypeOK /\ BuffersExclusive

(* The free lists hold live buffers of their own class, each once.         *)
ListsOK == freeLists \in [Classes -> Seq(Buffers)] /\ ListedOnce

(* Size classes. *)

(* Class sizes are positive integers. *)
LEMMA ClassesPositive == Classes \subseteq Nat \ {0}
BY PoolAssumption DEF Classes

(* A set of natural numbers that is not empty has a least element.         *)
LEMMA LeastExists ==
  ASSUME NEW T \in SUBSET Nat, T # {}
  PROVE  \E x \in T : \A y \in T : x <= y
<1>1. \E x \in T : \A y \in T : ~(<<y, x>> \in OpToRel(<, Nat))
  BY NatLessThanWellFounded, WFMin, Zenon
<1>2. ASSUME NEW x \in Nat, NEW y \in Nat, y < x
      PROVE  <<y, x>> \in OpToRel(<, Nat)
  BY <1>2, Zenon DEF OpToRel
<1>3. \A x, y \in Nat : ~(y < x) => x <= y
  OBVIOUS
<1> QED
  BY <1>1, <1>2, <1>3, Zenon

(* _find_size_class answers None or a class that the request fits in.      *)
LEMMA FoundClassFits ==
  ASSUME NEW n \in Nat, FindSizeClass(n) # NoClass
  PROVE  FindSizeClass(n) \in Classes /\ n <= FindSizeClass(n)
<1> DEFINE fits == {c \in Classes : n <= c}
<1>1. fits # {}
  BY DEF FindSizeClass
<1>2. fits \in SUBSET Nat
  BY ClassesPositive
<1>3. \E c \in fits : \A d \in fits : c <= d
  BY <1>1, <1>2, LeastExists
<1>4. FindSizeClass(n) = CHOOSE c \in fits : \A d \in fits : c <= d
  BY <1>1 DEF FindSizeClass
<1>5. FindSizeClass(n) \in fits
  BY <1>3, <1>4
<1> QED
  BY <1>5

(* Free lists. *)

(* A buffer is pooled when it stands somewhere in some free list.          *)
LEMMA PooledMeans ==
  ASSUME NEW b
  PROVE  b \in Pooled <=>
           \E c \in Classes : \E i \in DOMAIN freeLists[c] : freeLists[c][i] = b
BY DEF Pooled

(* What stands in a free list is a buffer.                                 *)
LEMMA PooledInBuffers == ASSUME EInv PROVE Pooled \subseteq Buffers
BY DEF EInv, OwnershipTypeOK, Pooled

(* Popping the last buffer of a free list takes that buffer out of the pool *)
(* and no other.                                                           *)
LEMMA Popped ==
  ASSUME ListsOK, NEW c \in Classes, freeLists[c] # <<>>,
         freeLists' = [freeLists EXCEPT ![c] = FrontOf(@)], UNCHANGED size
  PROVE  /\ ListsOK'
         /\ LastOf(freeLists[c]) \in Buffers
         /\ LastOf(freeLists[c]) \in Pooled
         /\ size[LastOf(freeLists[c])] = c
         /\ Pooled' = Pooled \ {LastOf(freeLists[c])}
<1> DEFINE list == freeLists[c]
           n == Len(list)
<1>1. list \in Seq(Buffers) /\ n \in Nat /\ n > 0 /\ DOMAIN list = 1 .. n
  BY DEF ListsOK, ListedOnce
<1>2. \A i \in 1 .. n : list[i] \in Buffers
  BY <1>1
<1>3. /\ FrontOf(list) \in Seq(Buffers)
      /\ Len(FrontOf(list)) = n - 1
      /\ DOMAIN FrontOf(list) = 1 .. n - 1
      /\ \A i \in 1 .. n - 1 : FrontOf(list)[i] = list[i]
  <2>1. /\ SubSeq(list, 1, n - 1) \in Seq(Buffers)
        /\ Len(SubSeq(list, 1, n - 1)) = IF 1 <= n - 1 THEN n - 1 - 1 + 1 ELSE 0
        /\ \A i \in 1 .. n - 1 - 1 + 1 : SubSeq(list, 1, n - 1)[i] = list[1 + i - 1]
    BY <1>1, <1>2, SubSeqProperties
  <2> QED
    BY <1>1, <2>1 DEF FrontOf
<1>4. freeLists'[c] = FrontOf(list) /\ \A d \in Classes \ {c} : freeLists'[d] = freeLists[d]
  BY DEF ListsOK, ListedOnce
<1>5. freeLists' \in [Classes -> Seq(Buffers)]
  BY <1>3 DEF ListsOK, ListedOnce
<1> HIDE DEF n
<1>6. /\ LastOf(list) \in Buffers /\ LastOf(list) \in Pooled /\ size[LastOf(list)] = c
  BY <1>1, <1>2, PooledMeans DEF ListsOK, ListedOnce, LastOf, n
<1>7. LastOf(list) = list[n]
  BY DEF LastOf, n
<1>8. ListsOK'
  <2>1. ASSUME NEW d \in Classes, NEW i \in DOMAIN freeLists'[d], NEW k \in DOMAIN freeLists'[d]
        PROVE  /\ size'[freeLists'[d][i]] = d
               /\ freeLists'[d][i] = freeLists'[d][k] => i = k
    <3>1. CASE d = c
      BY <1>1, <1>3, <1>4, <2>1, <3>1 DEF ListsOK, ListedOnce
    <3>2. CASE d # c
      BY <1>4, <2>1, <3>2 DEF ListsOK, ListedOnce
    <3> QED
      BY <3>1, <3>2
  <2> QED
    BY <1>5, <2>1 DEF ListsOK, ListedOnce
<1>9. Pooled' = Pooled \ {list[n]}
  <2>1. ASSUME NEW b \in Pooled' PROVE b \in Pooled /\ b # list[n]
    <3>1. PICK d \in Classes : \E i \in DOMAIN freeLists'[d] : freeLists'[d][i] = b
      BY <2>1 DEF Pooled
    <3>2. CASE d = c
      <4>1. PICK i \in 1 .. n - 1 : list[i] = b
        BY <1>3, <1>4, <3>1, <3>2
      <4> QED
        BY <1>1, <4>1, PooledMeans DEF ListsOK, ListedOnce
    <3>3. CASE d # c
      <4>1. PICK i \in DOMAIN freeLists[d] : freeLists[d][i] = b
        BY <1>4, <3>1, <3>3
      <4>2. size[b] = d
        BY <4>1 DEF ListsOK, ListedOnce
      <4> QED
        BY <1>6, <1>7, <3>3, <4>1, <4>2, PooledMeans
    <3> QED
      BY <3>2, <3>3
  <2>2. ASSUME NEW b \in Pooled, b # list[n] PROVE b \in Pooled'
    <3>1. PICK d \in Classes : \E i \in DOMAIN freeLists[d] : freeLists[d][i] = b
      BY <2>2, PooledMeans
    <3>2. CASE d = c
      <4>1. PICK i \in 1 .. n : list[i] = b
        BY <1>1, <3>1, <3>2
      <4>2. i \in 1 .. n - 1
        BY <1>1, <2>2, <4>1
      <4> QED
        BY <1>3, <1>4, <4>1, <4>2 DEF Pooled
    <3>3. CASE d # c
      BY <1>4, <3>1, <3>3 DEF Pooled
    <3> QED
      BY <3>2, <3>3
  <2> QED
    BY <2>1, <2>2
<1> QED
  BY <1>6, <1>7, <1>8, <1>9

(* Appending a buffer that is in no list adds it to the pool and no other. *)
LEMMA Pushed ==
  ASSUME ListsOK, NEW b \in Buffers, b \notin Pooled, size[b] \in Classes,
         freeLists' = [freeLists EXCEPT ![size[b]] = Append(@, b)], UNCHANGED size
  PROVE  ListsOK' /\ Pooled' = Pooled \cup {b}
<1> DEFINE c == size[b]
           list == freeLists[c]
           n == Len(list)
<1>1. list \in Seq(Buffers) /\ n \in Nat /\ DOMAIN list = 1 .. n
  BY DEF ListsOK, ListedOnce
<1>2. /\ Append(list, b) \in Seq(Buffers)
      /\ DOMAIN Append(list, b) = 1 .. n + 1
      /\ Append(list, b)[n + 1] = b
      /\ \A i \in 1 .. n : Append(list, b)[i] = list[i]
  BY <1>1
<1>3. freeLists'[c] = Append(list, b) /\ \A d \in Classes \ {c} : freeLists'[d] = freeLists[d]
  BY DEF ListsOK, ListedOnce
<1>4. freeLists' \in [Classes -> Seq(Buffers)]
  BY <1>2 DEF ListsOK, ListedOnce
<1>5. \A i \in 1 .. n : list[i] # b
  BY <1>1, PooledMeans
<1> HIDE DEF n
<1>6. ListsOK'
  <2>1. ASSUME NEW d \in Classes, NEW i \in DOMAIN freeLists'[d], NEW k \in DOMAIN freeLists'[d]
        PROVE  /\ size'[freeLists'[d][i]] = d
               /\ freeLists'[d][i] = freeLists'[d][k] => i = k
    <3>1. CASE d = c
      <4>1. i \in 1 .. n + 1 /\ k \in 1 .. n + 1
        BY <1>2, <1>3, <2>1, <3>1
      <4>2. \A m \in 1 .. n : size[list[m]] = c
        BY <1>1 DEF ListsOK, ListedOnce
      <4>3. \A m \in 1 .. n + 1 : m \in 1 .. n \/ m = n + 1
        BY <1>1
      <4> QED
        BY <1>1, <1>2, <1>3, <1>5, <3>1, <4>1, <4>2, <4>3 DEF ListsOK, ListedOnce
    <3>2. CASE d # c
      BY <1>3, <2>1, <3>2 DEF ListsOK, ListedOnce
    <3> QED
      BY <3>1, <3>2
  <2> QED
    BY <1>4, <2>1 DEF ListsOK, ListedOnce
<1>7. Pooled' = Pooled \cup {b}
  <2>1. ASSUME NEW x \in Pooled' PROVE x \in Pooled \/ x = b
    <3>1. PICK d \in Classes : \E i \in DOMAIN freeLists'[d] : freeLists'[d][i] = x
      BY <2>1 DEF Pooled
    <3>2. CASE d = c
      <4>1. PICK i \in 1 .. n + 1 : Append(list, b)[i] = x
        BY <1>2, <1>3, <3>1, <3>2
      <4>2. i \in 1 .. n \/ i = n + 1
        BY <1>1
      <4> QED
        BY <1>1, <1>2, <4>1, <4>2, PooledMeans
    <3>3. CASE d # c
      BY <1>3, <3>1, <3>3, PooledMeans
    <3> QED
      BY <3>2, <3>3
  <2>2. ASSUME NEW x \in Pooled PROVE x \in Pooled'
    <3>1. PICK d \in Classes : \E i \in DOMAIN freeLists[d] : freeLists[d][i] = x
      BY <2>2, PooledMeans
    <3>2. CASE d = c
      <4>1. PICK i \in 1 .. n : list[i] = x
        BY <1>1, <3>1, <3>2
      <4>2. i \in 1 .. n + 1
        BY <1>1
      <4> QED
        BY <1>2, <1>3, <4>1, <4>2 DEF Pooled
    <3>3. CASE d # c
      BY <1>3, <3>1, <3>3 DEF Pooled
    <3> QED
      BY <3>2, <3>3
  <2>3. b \in Pooled'
    <3>1. n + 1 \in 1 .. n + 1
      BY <1>1
    <3> QED
      BY <1>2, <1>3, <3>1 DEF Pooled
  <2> QED
    BY <2>1, <2>2, <2>3
<1> QED
  BY <1>6, <1>7

(* The invariant. *)

(* It holds in the initial state. *)
LEMMA InitEInv == PoolInit => EInv
<1> SUFFICES ASSUME PoolInit PROVE EInv
  OBVIOUS
<1>1. freeLists = [c \in Classes |-> <<>>] /\ Pooled = {}
  BY DEF PoolInit, Pooled
<1>2. <<>> \in Seq(Buffers) /\ DOMAIN <<>> = {}
  OBVIOUS
<1>3. OwnershipTypeOK
  BY <1>1, <1>2 DEF PoolInit, OwnershipTypeOK
<1>4. ListedOnce
  BY <1>1, <1>2 DEF ListedOnce
<1>5. HeldByOne /\ ReturnedByOne /\ NoneLost
  BY DEF PoolInit, HeldByOne, ReturnedByOne, NoneLost
<1> QED
  BY <1>3, <1>4, <1>5 DEF EInv, BuffersExclusive

(* A buffer of size 0 is with nobody and in no free list.                  *)
LEMMA DeadIsNowhere ==
  ASSUME EInv, NEW b \in Buffers, size[b] = 0
  PROVE  b \notin Pooled /\ \A t \in Threads : b \notin held[t] /\ returning[t] # b
<1>1. ASSUME b \in Pooled PROVE FALSE
  <2>1. PICK c \in Classes : \E i \in DOMAIN freeLists[c] : freeLists[c][i] = b
    BY <1>1, PooledMeans
  <2>2. size[b] = c
    BY <2>1 DEF EInv, BuffersExclusive, ListedOnce
  <2> QED
    BY <2>2, ClassesPositive
<1>2. \A t \in Threads : b \notin held[t] /\ returning[t] # b
  BY ClassesPositive, PoolAssumption DEF EInv, BuffersExclusive, HeldByOne, ReturnedByOne
<1> QED
  BY <1>1, <1>2

(* Memory from the system is its thread's alone.                           *)
LEMMA SystemAllocateEInv ==
  ASSUME EInv, NEW t \in Threads, NEW b \in Buffers,
         NEW bytes \in Nat \ {0}, NEW n \in Nat, n <= bytes,
         SystemAllocate(t, b, bytes, n)
  PROVE  EInv'
<1>1. b \notin Pooled /\ \A u \in Threads : b \notin held[u] /\ returning[u] # b
  BY DeadIsNowhere DEF SystemAllocate
<1>2. Pooled' = Pooled /\ UNCHANGED <<freeLists, returning>>
  BY DEF Pooled, SystemAllocate
<1>3. /\ size' = [size EXCEPT ![b] = bytes]
      /\ held' = [held EXCEPT ![t] = @ \cup {b}]
      /\ want' = [want EXCEPT ![b] = n]
  BY DEF SystemAllocate, HandOut
<1>4. OwnershipTypeOK'
  BY <1>2, <1>3 DEF EInv, OwnershipTypeOK
<1>5. HeldByOne'
  BY <1>1, <1>2, <1>3 DEF EInv, OwnershipTypeOK, BuffersExclusive, HeldByOne
<1>6. ReturnedByOne'
  BY <1>1, <1>2, <1>3 DEF EInv, OwnershipTypeOK, BuffersExclusive, ReturnedByOne
<1>7. ListedOnce'
  <2>1. \A c \in Classes : \A i \in DOMAIN freeLists[c] : freeLists[c][i] \in Buffers \ {b}
    BY <1>1, PooledMeans DEF EInv, OwnershipTypeOK
  <2> QED
    BY <1>2, <1>3, <2>1 DEF EInv, OwnershipTypeOK, BuffersExclusive, ListedOnce
<1>8. NoneLost'
  BY <1>2, <1>3 DEF EInv, OwnershipTypeOK, BuffersExclusive, NoneLost
<1> QED
  BY <1>4, <1>5, <1>6, <1>7, <1>8 DEF EInv, BuffersExclusive

(* Allocation of a pooled buffer takes it out of the pool for its thread.  *)
LEMMA AllocateHitEInv ==
  ASSUME EInv, NEW t \in Threads, NEW n \in Nat, AllocateHit(t, n)
  PROVE  EInv'
<1> DEFINE c == FindSizeClass(n)
           b == LastOf(freeLists[c])
<1>1. c \in Classes /\ n <= c /\ c \in Nat \ {0}
  BY FoundClassFits, ClassesPositive DEF AllocateHit
<1>2. /\ freeLists[c] # <<>>
      /\ freeLists' = [freeLists EXCEPT ![c] = FrontOf(@)]
      /\ held' = [held EXCEPT ![t] = @ \cup {b}]
      /\ want' = [want EXCEPT ![b] = n]
      /\ UNCHANGED <<size, returning>>
  BY DEF AllocateHit, HandOut
<1>3. ListsOK
  BY DEF EInv, OwnershipTypeOK, BuffersExclusive, ListsOK
<1>4. /\ ListsOK'
      /\ b \in Buffers /\ b \in Pooled /\ size[b] = c
      /\ Pooled' = Pooled \ {b}
  BY <1>1, <1>2, <1>3, Popped
<1> HIDE DEF c, b
<1>5. OwnershipTypeOK'
  <2>1. freeLists' \in [Classes -> Seq(Buffers)]
    BY <1>4 DEF ListsOK
  <2>2. size' \in [Buffers -> Nat] /\ returning' \in [Threads -> Buffers \cup {Nothing}]
    BY <1>2 DEF EInv, OwnershipTypeOK
  <2>3. want' \in [Buffers -> Nat] /\ held' \in [Threads -> SUBSET Buffers]
    BY <1>2, <1>4 DEF EInv, OwnershipTypeOK
  <2> QED
    BY <2>1, <2>2, <2>3 DEF OwnershipTypeOK
<1>6. HeldByOne'
  <2>1. \A u \in Threads : b \notin held[u] /\ returning[u] # b
    BY <1>4, PoolAssumption DEF EInv, BuffersExclusive, HeldByOne, ReturnedByOne
  <2>2. /\ held'[t] = held[t] \cup {b}
        /\ \A u \in Threads \ {t} : held'[u] = held[u]
        /\ want'[b] = n /\ \A x \in Buffers \ {b} : want'[x] = want[x]
    BY <1>2, <1>4 DEF EInv, OwnershipTypeOK
  <2>3. ASSUME NEW u \in Threads, NEW x \in held'[u], x # b
        PROVE  /\ x \in held[u] /\ x \in Buffers
               /\ size'[x] > 0 /\ size'[x] >= want'[x]
               /\ x \notin Pooled'
               /\ \A v \in Threads : returning'[v] # x /\ (x \in held'[v] => v = u)
    <3>1. \A v \in Threads : held[v] \subseteq Buffers
      BY DEF EInv, OwnershipTypeOK
    <3>2. x \in held[u] /\ x \in Buffers
      <4>1. CASE u = t
        BY <2>2, <2>3, <3>1, <4>1
      <4>2. CASE u # t
        BY <2>2, <2>3, <3>1, <4>2
      <4> QED
        BY <4>1, <4>2
    <3>3. \A v \in Threads : x \in held'[v] => x \in held[v]
      BY <2>2, <2>3
    <3> QED
      BY <1>2, <1>4, <2>2, <2>3, <3>2, <3>3 DEF EInv, BuffersExclusive, HeldByOne
  <2>4. ASSUME NEW u \in Threads, b \in held'[u]
        PROVE  u = t
    BY <2>1, <2>2, <2>4
  <2>5. size'[b] > 0 /\ size'[b] >= want'[b] /\ b \notin Pooled'
    BY <1>1, <1>2, <1>4, <2>2
  <2> QED
    BY <1>2, <2>1, <2>3, <2>4, <2>5 DEF HeldByOne
<1>7. ReturnedByOne'
  BY <1>2, <1>4 DEF EInv, BuffersExclusive, ReturnedByOne
<1>8. NoneLost'
  BY <1>2, <1>4 DEF EInv, OwnershipTypeOK, BuffersExclusive, NoneLost
<1> QED
  BY <1>4, <1>5, <1>6, <1>7, <1>8 DEF EInv, BuffersExclusive, ListsOK

(* Freeing a buffer that stands in no free list and that nobody holds any  *)
(* more leaves the others as they are.  Drop, the unpooled release and the *)
(* release to a full pool all end this way.                                *)
LEMMA FreedEInv ==
  ASSUME EInv, NEW b \in Buffers, b \notin Pooled, Free(b),
         OwnershipTypeOK',
         \A t \in Threads : held'[t] = held[t] \ {b},
         \A t \in Threads : returning'[t] = IF returning[t] = b THEN Nothing ELSE returning[t],
         UNCHANGED <<freeLists, want>>
  PROVE  EInv'
<1>1. Pooled' = Pooled
  BY DEF Pooled
<1>2. size' = [size EXCEPT ![b] = 0]
  BY DEF Free
<1>3. HeldByOne'
  BY <1>1, <1>2, PoolAssumption DEF EInv, OwnershipTypeOK, BuffersExclusive, HeldByOne
<1>4. ReturnedByOne'
  BY <1>1, <1>2 DEF EInv, OwnershipTypeOK, BuffersExclusive, ReturnedByOne
<1>5. ListedOnce'
  <2>1. \A c \in Classes : \A i \in DOMAIN freeLists[c] : freeLists[c][i] \in Buffers \ {b}
    BY PooledMeans DEF EInv, OwnershipTypeOK
  <2> QED
    BY <1>2, <2>1 DEF EInv, OwnershipTypeOK, BuffersExclusive, ListedOnce
<1>6. NoneLost'
  BY <1>1, <1>2 DEF EInv, OwnershipTypeOK, BuffersExclusive, NoneLost
<1> QED
  BY <1>3, <1>4, <1>5, <1>6 DEF EInv, BuffersExclusive

(* A buffer let go by its thread is on its way to the pool, or freed.      *)
LEMMA ReleaseEInv ==
  ASSUME EInv, NEW t \in Threads, NEW b \in Buffers, Release(t, b)
  PROVE  EInv'
<1>1. /\ returning[t] = Nothing /\ b \in held[t] /\ b \notin Pooled
      /\ held' = [held EXCEPT ![t] = @ \ {b}]
      /\ \A u \in Threads : returning[u] # b /\ (b \in held[u] => u = t)
      /\ size[b] > 0
      /\ UNCHANGED <<freeLists, want>>
  BY DEF Release, Ready, LetGo, EInv, BuffersExclusive, HeldByOne
<1>2. CASE FindSizeClass(size[b]) # size[b]
  <2>1. Free(b) /\ UNCHANGED returning
    BY <1>2 DEF Release
  <2>2. OwnershipTypeOK'
    BY <1>1, <2>1 DEF Free, EInv, OwnershipTypeOK
  <2>3. \A u \in Threads : held'[u] = held[u] \ {b}
    BY <1>1 DEF EInv, OwnershipTypeOK
  <2> QED
    BY <1>1, <2>1, <2>2, <2>3, FreedEInv
<1>3. CASE FindSizeClass(size[b]) = size[b]
  <2>1. returning' = [returning EXCEPT ![t] = b] /\ UNCHANGED size
    BY <1>3 DEF Release
  <2>2. size[b] \in Nat /\ size[b] # NoClass
    BY <1>1 DEF EInv, OwnershipTypeOK, NoClass
  <2>3. size[b] \in Classes
    BY <1>3, <2>2, FoundClassFits
  <2>4. Pooled' = Pooled
    BY <1>1 DEF Pooled
  <2>5. OwnershipTypeOK'
    BY <1>1, <2>1 DEF EInv, OwnershipTypeOK
  <2>6. HeldByOne'
    BY <1>1, <2>1, <2>4 DEF EInv, OwnershipTypeOK, BuffersExclusive, HeldByOne
  <2>7. ReturnedByOne'
    BY <1>1, <2>1, <2>3, <2>4 DEF EInv, OwnershipTypeOK, BuffersExclusive, ReturnedByOne
  <2>8. ListedOnce'
    BY <1>1, <2>1 DEF EInv, BuffersExclusive, ListedOnce
  <2>9. NoneLost'
    <3>1. ASSUME NEW x \in Buffers, size'[x] > 0
          PROVE  x \in Pooled' \/ \E u \in Threads : x \in held'[u] \/ returning'[u] = x
      <4>1. CASE x = b
        BY <2>1, <4>1 DEF EInv, OwnershipTypeOK
      <4>2. CASE x # b
        BY <1>1, <2>1, <2>4, <3>1, <4>2, PoolAssumption
           DEF EInv, OwnershipTypeOK, BuffersExclusive, NoneLost
      <4> QED
        BY <4>1, <4>2
    <3> QED
      BY <3>1 DEF NoneLost
  <2> QED
    BY <2>5, <2>6, <2>7, <2>8, <2>9 DEF EInv, BuffersExclusive
<1> QED
  BY <1>2, <1>3

(* A buffer nobody refers to any more is freed. *)
LEMMA DropEInv ==
  ASSUME EInv, NEW t \in Threads, NEW b \in Buffers, Drop(t, b)
  PROVE  EInv'
<1>1. /\ b \in held[t] /\ b \notin Pooled
      /\ held' = [held EXCEPT ![t] = @ \ {b}]
      /\ \A u \in Threads : returning[u] # b /\ (b \in held[u] => u = t)
      /\ Free(b)
      /\ UNCHANGED <<freeLists, returning, want>>
  BY DEF Drop, LetGo, EInv, BuffersExclusive, HeldByOne
<1>2. OwnershipTypeOK'
  BY <1>1 DEF Free, EInv, OwnershipTypeOK
<1>3. \A u \in Threads : held'[u] = held[u] \ {b}
  BY <1>1 DEF EInv, OwnershipTypeOK
<1> QED
  BY <1>1, <1>2, <1>3, FreedEInv

(* A returned buffer enters the free list of its class, or is freed.       *)
LEMMA ReturnToPoolEInv ==
  ASSUME EInv, NEW t \in Threads, ReturnToPool(t)
  PROVE  EInv'
<1> DEFINE b == returning[t]
<1>1. /\ b \in Buffers /\ b \notin Pooled /\ size[b] \in Classes
      /\ \A u \in Threads : b \notin held[u] /\ (returning[u] = b => u = t)
      /\ returning' = [returning EXCEPT ![t] = Nothing]
      /\ UNCHANGED <<held, want>>
  BY DEF ReturnToPool, EInv, OwnershipTypeOK, BuffersExclusive, ReturnedByOne, HeldByOne
<1>2. \A u \in Threads : returning'[u] = IF returning[u] = b THEN Nothing ELSE returning[u]
  BY <1>1 DEF EInv, OwnershipTypeOK
<1>3. CASE PoolFull(size[b])
  <2>1. Free(b) /\ UNCHANGED freeLists
    BY <1>3 DEF ReturnToPool
  <2>2. OwnershipTypeOK'
    BY <1>1, <2>1 DEF Free, EInv, OwnershipTypeOK
  <2>3. \A u \in Threads : held'[u] = held[u] \ {b}
    BY <1>1 DEF EInv, OwnershipTypeOK
  <2> HIDE DEF b
  <2> QED
    BY <1>1, <1>2, <2>1, <2>2, <2>3, FreedEInv
<1>4. CASE ~PoolFull(size[b])
  <2>1. freeLists' = [freeLists EXCEPT ![size[b]] = Append(@, b)] /\ UNCHANGED size
    BY <1>4 DEF ReturnToPool
  <2>2. ListsOK
    BY DEF EInv, OwnershipTypeOK, BuffersExclusive, ListsOK
  <2>3. ListsOK' /\ Pooled' = Pooled \cup {b}
    <3> HIDE DEF b
    <3> QED
      BY <1>1, <2>1, <2>2, Pushed
  <2> HIDE DEF b
  <2>4. OwnershipTypeOK'
    BY <1>1, <2>1, <2>3 DEF EInv, OwnershipTypeOK, ListsOK
  <2>5. HeldByOne'
    BY <1>1, <1>2, <2>1, <2>3, PoolAssumption
       DEF EInv, OwnershipTypeOK, BuffersExclusive, HeldByOne
  <2>6. ReturnedByOne'
    BY <1>1, <1>2, <2>1, <2>3 DEF EInv, BuffersExclusive, ReturnedByOne
  <2>7. NoneLost'
    BY <1>1, <1>2, <2>1, <2>3 DEF EInv, BuffersExclusive, NoneLost
  <2> QED
    BY <2>3, <2>4, <2>5, <2>6, <2>7 DEF EInv, BuffersExclusive, ListsOK
<1> QED
  BY <1>3, <1>4

(* Emptying the pool frees what is pooled and nothing else.                *)
LEMMA ReleaseAllEInv ==
  ASSUME EInv, NEW t \in Threads, ReleaseAll(t)
  PROVE  EInv'
<1>1. /\ size' = [b \in Buffers |-> IF b \in Pooled THEN 0 ELSE size[b]]
      /\ freeLists' = [c \in Classes |-> <<>>]
      /\ UNCHANGED <<held, returning, want>>
  BY DEF ReleaseAll
<1>2. <<>> \in Seq(Buffers) /\ DOMAIN <<>> = {}
  OBVIOUS
<1>3. Pooled' = {}
  BY <1>1 DEF Pooled
<1>4. OwnershipTypeOK'
  BY <1>1, <1>2 DEF EInv, OwnershipTypeOK
<1>5. HeldByOne'
  BY <1>1, <1>3 DEF EInv, OwnershipTypeOK, BuffersExclusive, HeldByOne
<1>6. ReturnedByOne'
  BY <1>1, <1>3 DEF EInv, OwnershipTypeOK, BuffersExclusive, ReturnedByOne
<1>7. ListedOnce'
  BY <1>1, <1>2 DEF ListedOnce
<1>8. NoneLost'
  BY <1>1, <1>3 DEF EInv, OwnershipTypeOK, BuffersExclusive, NoneLost
<1> QED
  BY <1>4, <1>5, <1>6, <1>7, <1>8 DEF EInv, BuffersExclusive

(* Every step preserves the invariant. *)
LEMMA NextEInv == EInv /\ [PoolNext]_poolVars => EInv'
<1> SUFFICES ASSUME EInv, [PoolNext]_poolVars PROVE EInv'
  OBVIOUS
<1>1. ASSUME NEW t \in Threads, NEW n \in Requests, AllocateHit(t, n)
      PROVE  EInv'
  BY <1>1, AllocateHitEInv, PoolAssumption
<1>2. ASSUME NEW t \in Threads, NEW n \in Requests, NEW b \in Buffers, AllocateMiss(t, n, b)
      PROVE  EInv'
  <2>1. n \in Nat /\ FindSizeClass(n) # NoClass /\ SystemAllocate(t, b, FindSizeClass(n), n)
    BY <1>2, PoolAssumption DEF AllocateMiss
  <2> QED
    BY <2>1, FoundClassFits, ClassesPositive, SystemAllocateEInv
<1>3. ASSUME NEW t \in Threads, NEW n \in Requests, NEW b \in Buffers, AllocateOversized(t, n, b)
      PROVE  EInv'
  <2>1. n \in Nat \ {0} /\ SystemAllocate(t, b, n, n)
    BY <1>3, PoolAssumption DEF AllocateOversized
  <2> QED
    BY <2>1, SystemAllocateEInv
<1>4. ASSUME NEW t \in Threads, NEW b \in Buffers, Release(t, b)
      PROVE  EInv'
  BY <1>4, ReleaseEInv
<1>5. ASSUME NEW t \in Threads, NEW b \in Buffers, Drop(t, b)
      PROVE  EInv'
  BY <1>5, DropEInv
<1>6. ASSUME NEW t \in Threads, ReturnToPool(t)
      PROVE  EInv'
  BY <1>6, ReturnToPoolEInv
<1>7. ASSUME NEW t \in Threads, ReleaseAll(t)
      PROVE  EInv'
  BY <1>7, ReleaseAllEInv
<1>8. ASSUME UNCHANGED poolVars
      PROVE  EInv'
  BY <1>8 DEF poolVars, EInv, OwnershipTypeOK, BuffersExclusive, HeldByOne,
     ReturnedByOne, ListedOnce, NoneLost, Pooled
<1> QED
  BY <1>1, <1>2, <1>3, <1>4, <1>5, <1>6, <1>7, <1>8 DEF PoolNext

(* Theorems. *)

(* Whatever the threads do, no buffer has two owners, a thread's buffer is *)
(* alive and large enough, and no memory is lost.                          *)
THEOREM BuffersAlwaysExclusive == PoolSpec => []BuffersExclusive
<1>1. EInv => BuffersExclusive
  BY DEF EInv
<1> QED
  BY <1>1, InitEInv, NextEInv, PTL DEF PoolSpec

(* The byte count. *)

(* The count is that of a finite set of bytes.                             *)
CountOK == IsFiniteSet(PooledMemory) /\ PoolAccounts

MemoryOf(b, n) == {b} \X (1 .. n)

(* A buffer has as many bytes as its size says.                            *)
LEMMA BytesOfBuffer ==
  ASSUME NEW b, NEW n \in Nat
  PROVE  IsFiniteSet(MemoryOf(b, n)) /\ Cardinality(MemoryOf(b, n)) = n
<1>1. IsFiniteSet({b}) /\ Cardinality({b}) = 1
  BY FS_Singleton, Zenon
<1>2. IsFiniteSet(1 .. n) /\ Cardinality(1 .. n) = n
  BY FS_Interval
<1>3. /\ IsFiniteSet({b} \X (1 .. n))
      /\ Cardinality({b} \X (1 .. n)) = Cardinality({b}) * Cardinality(1 .. n)
  BY <1>1, <1>2, FS_Product, Zenon
<1>4. Cardinality({b} \X (1 .. n)) = n
  BY <1>1, <1>2, <1>3
<1> QED
  BY <1>3, <1>4 DEF MemoryOf

(* A buffer less in the pool, or one more, changes the pool's bytes by the *)
(* bytes of that buffer.                                                   *)
LEMMA BytesAdd ==
  ASSUME NEW M, NEW b, NEW n \in Nat, IsFiniteSet(M), M \cap MemoryOf(b, n) = {}
  PROVE  /\ IsFiniteSet(M \cup MemoryOf(b, n)) /\ Cardinality(M) \in Nat
         /\ Cardinality(M \cup MemoryOf(b, n)) = Cardinality(M) + n
<1>1. IsFiniteSet(MemoryOf(b, n)) /\ Cardinality(MemoryOf(b, n)) = n
  BY BytesOfBuffer
<1>2. /\ IsFiniteSet(M \cup MemoryOf(b, n))
      /\ Cardinality(M \cup MemoryOf(b, n)) =
           Cardinality(M) + Cardinality(MemoryOf(b, n)) - Cardinality(M \cap MemoryOf(b, n))
  BY <1>1, FS_Union, Zenon
<1>3. Cardinality(M \cap MemoryOf(b, n)) = 0
  BY FS_EmptySet, Zenon
<1>4. Cardinality(M) \in Nat
  BY FS_CardinalityType, Zenon
<1> QED
  BY <1>1, <1>2, <1>3, <1>4

(* A hit takes the size of a class off the counter, a return adds to it    *)
(* only what still fits.                                                   *)
LEMMA NextCount == EInv /\ CountOK /\ [PoolNext]_poolVars => CountOK'
<1> SUFFICES ASSUME EInv, CountOK, [PoolNext]_poolVars PROVE CountOK'
  OBVIOUS
<1>0. ListsOK
  BY DEF EInv, OwnershipTypeOK, BuffersExclusive, ListsOK
<1>1. ASSUME NEW t \in Threads, NEW n \in Requests, AllocateHit(t, n)
      PROVE  CountOK'
  <2> DEFINE c == FindSizeClass(n)
             b == LastOf(freeLists[c])
  <2>1. /\ c \in Classes /\ c \in Nat /\ pooledBytes' = pooledBytes - c /\ UNCHANGED size
        /\ freeLists[c] # <<>> /\ freeLists' = [freeLists EXCEPT ![c] = FrontOf(@)]
    BY <1>1, PoolAssumption, FoundClassFits, ClassesPositive DEF AllocateHit
  <2>2. b \in Pooled /\ size[b] = c /\ Pooled' = Pooled \ {b}
    BY <1>0, <2>1, Popped
  <2> HIDE DEF b, c
  <2>3. PooledMemory = PooledMemory' \cup MemoryOf(b, c)
    BY <2>1, <2>2 DEF PooledMemory, MemoryOf
  <2>4. PooledMemory' \cap MemoryOf(b, c) = {}
    BY <2>1, <2>2 DEF PooledMemory, MemoryOf
  <2>5. PICK M, N : M = PooledMemory /\ N = PooledMemory'
    OBVIOUS
  <2>6. /\ IsFiniteSet(M) /\ M = N \cup MemoryOf(b, c) /\ N \cap MemoryOf(b, c) = {}
        /\ pooledBytes = Cardinality(M) /\ pooledBytes <= MaxPoolBytes
    BY <2>3, <2>4, <2>5, Zenon DEF CountOK, PoolAccounts
  <2>7. IsFiniteSet(N)
    <3>1. N \in SUBSET M
      BY <2>6
    <3> QED
      BY <2>6, <3>1, FS_Subset, Zenon
  <2>8. Cardinality(M) = Cardinality(N) + c /\ Cardinality(N) \in Nat
    BY <2>1, <2>6, <2>7, BytesAdd, Zenon
  <2>9. pooledBytes' = Cardinality(N) /\ pooledBytes' <= MaxPoolBytes
    BY <2>1, <2>6, <2>8, PoolAssumption
  <2> QED
    BY <2>5, <2>7, <2>9, Zenon DEF CountOK, PoolAccounts
<1>2. ASSUME UNCHANGED <<freeLists, pooledBytes>>, \A b \in Pooled : size'[b] = size[b]
      PROVE  CountOK'
  <2>1. Pooled' = Pooled
    BY <1>2 DEF Pooled
  <2>2. PooledMemory' = PooledMemory
    BY <1>2, <2>1 DEF PooledMemory
  <2> QED
    BY <1>2, <2>2 DEF CountOK, PoolAccounts
<1>3. ASSUME NEW t \in Threads, NEW n \in Requests, NEW b \in Buffers,
             AllocateMiss(t, n, b) \/ AllocateOversized(t, n, b)
      PROVE  CountOK'
  <2>1. PICK bytes : SystemAllocate(t, b, bytes, n)
    BY <1>3 DEF AllocateMiss, AllocateOversized
  <2>2. b \notin Pooled
    BY <2>1, DeadIsNowhere DEF SystemAllocate
  <2>3. UNCHANGED <<freeLists, pooledBytes>> /\ size' = [size EXCEPT ![b] = bytes]
    BY <1>3, <2>1 DEF AllocateMiss, AllocateOversized, SystemAllocate
  <2>4. \A a \in Pooled : size'[a] = size[a]
    BY <2>2, <2>3, PooledInBuffers DEF EInv, OwnershipTypeOK
  <2> QED
    BY <1>2, <2>3, <2>4
<1>4. ASSUME NEW t \in Threads, NEW b \in Buffers, Release(t, b) \/ Drop(t, b)
      PROVE  CountOK'
  <2>1. b \notin Pooled
    BY <1>4 DEF Release, Drop, EInv, BuffersExclusive, HeldByOne
  <2>2. UNCHANGED <<freeLists, pooledBytes>> /\ (size' = size \/ size' = [size EXCEPT ![b] = 0])
    BY <1>4 DEF Release, Drop, Free
  <2>3. \A a \in Pooled : size'[a] = size[a]
    BY <2>1, <2>2, PooledInBuffers DEF EInv, OwnershipTypeOK
  <2> QED
    BY <1>2, <2>2, <2>3
<1>5. ASSUME NEW t \in Threads, ReturnToPool(t)
      PROVE  CountOK'
  <2> DEFINE b == returning[t]
             c == size[b]
  <2>1. b \in Buffers /\ c \in Classes /\ c \in Nat /\ b \notin Pooled
    BY <1>5, ClassesPositive
       DEF ReturnToPool, EInv, OwnershipTypeOK, BuffersExclusive, ReturnedByOne
  <2>2. CASE PoolFull(c)
    <3>1. UNCHANGED <<freeLists, pooledBytes>> /\ size' = [size EXCEPT ![b] = 0]
      BY <1>5, <2>2 DEF ReturnToPool, Free
    <3>2. \A a \in Pooled : size'[a] = size[a]
      BY <2>1, <3>1, PooledInBuffers DEF EInv, OwnershipTypeOK
    <3> QED
      BY <1>2, <3>1, <3>2
  <2>3. CASE ~PoolFull(c)
    <3>1. /\ freeLists' = [freeLists EXCEPT ![c] = Append(@, b)]
          /\ pooledBytes' = pooledBytes + c /\ UNCHANGED size
          /\ pooledBytes + c <= MaxPoolBytes \/ pooledBytes + c \notin Int
      BY <1>5, <2>1, <2>3, PoolAssumption DEF ReturnToPool, PoolFull
    <3>2. PICK a, n : a = b /\ n = c
      OBVIOUS
    <3>3. /\ a \in Buffers /\ a \notin Pooled /\ size[a] \in Classes /\ n = size[a] /\ n \in Nat
          /\ freeLists' = [freeLists EXCEPT ![size[a]] = Append(@, a)]
          /\ pooledBytes' = pooledBytes + n /\ UNCHANGED size
          /\ pooledBytes + n <= MaxPoolBytes \/ pooledBytes + n \notin Int
      BY <2>1, <3>1, <3>2
    <3> HIDE DEF b, c
    <3>4. Pooled' = Pooled \cup {a}
      BY <1>0, <3>3, Pushed
    <3>5. /\ PooledMemory' = PooledMemory \cup MemoryOf(a, n)
          /\ PooledMemory \cap MemoryOf(a, n) = {}
      BY <3>3, <3>4 DEF PooledMemory, MemoryOf
    <3>6. PICK M, N : M = PooledMemory /\ N = PooledMemory'
      OBVIOUS
    <3>7. IsFiniteSet(M) /\ N = M \cup MemoryOf(a, n) /\ M \cap MemoryOf(a, n) = {}
      BY <3>5, <3>6, Zenon DEF CountOK
    <3>8. n \in Nat
      BY <3>3
    <3>9. /\ IsFiniteSet(N)
          /\ Cardinality(N) = Cardinality(M) + n /\ Cardinality(M) \in Nat
      BY <3>7, <3>8, BytesAdd, Zenon
    <3>10. pooledBytes = Cardinality(M) /\ pooledBytes <= MaxPoolBytes
      BY <3>6, Zenon DEF CountOK, PoolAccounts
    <3>11. pooledBytes' = Cardinality(N) /\ pooledBytes' <= MaxPoolBytes
      BY <3>3, <3>9, <3>10, PoolAssumption
    <3> QED
      BY <3>6, <3>9, <3>11, Zenon DEF CountOK, PoolAccounts
  <2> QED
    BY <2>2, <2>3
<1>6. ASSUME NEW t \in Threads, ReleaseAll(t)
      PROVE  CountOK'
  <2>1. /\ freeLists' = [c \in Classes |-> <<>>] /\ pooledBytes' = 0
    BY <1>6 DEF ReleaseAll
  <2>2. DOMAIN <<>> = {}
    OBVIOUS
  <2>3. PooledMemory' = {}
    BY <2>1, <2>2 DEF Pooled, PooledMemory
  <2> QED
    BY <2>1, <2>3, FS_EmptySet, PoolAssumption DEF CountOK, PoolAccounts
<1>7. ASSUME UNCHANGED poolVars
      PROVE  CountOK'
  BY <1>2, <1>7 DEF poolVars
<1> QED
  BY <1>1, <1>3, <1>4, <1>5, <1>6, <1>7 DEF PoolNext

(* An empty pool has no bytes.                                             *)
LEMMA InitCount == PoolInit => CountOK
<1> SUFFICES ASSUME PoolInit PROVE CountOK
  OBVIOUS
<1>1. DOMAIN <<>> = {}
  OBVIOUS
<1>2. PooledMemory = {} /\ pooledBytes = 0
  BY <1>1 DEF PoolInit, Pooled, PooledMemory
<1> QED
  BY <1>2, FS_EmptySet, PoolAssumption DEF CountOK, PoolAccounts

(* The pool's counter is the number of bytes of its buffers, and never more *)
(* than max_pool_bytes, however many threads return buffers at once when it *)
(* is almost full.                                                         *)
THEOREM PoolAlwaysAccounts == PoolSpec => []PoolAccounts
<1>1. CountOK => PoolAccounts
  BY DEF CountOK
<1> QED
  BY <1>1, InitEInv, NextEInv, InitCount, NextCount, PTL DEF PoolSpec

-----------------------------------------------------------------------------
(* FACADE AND SQLITE *)

(* The rows a table may hold.                                              *)
Rows == [key : Records \cup Metrics, n : 1 .. executed]

FacadeTypeOK ==
  /\ initialized \in BOOLEAN /\ overlapped \in BOOLEAN
  /\ generation \in 0 .. MaxGen
  /\ part \in [Parts -> 0 .. generation]
  /\ openParts \subseteq Parts \X (1 .. generation)
  /\ stopper \in [Stoppers -> 0 .. generation]
  /\ executed \in Nat
  /\ rows \subseteq Rows /\ acknowledged \subseteq Rows
  /\ uncommitted \in [1 .. MaxGen -> SUBSET Rows]
  /\ writer \in [Writers -> {NoCall} \cup
                   [pc : {"executed"}, store : 1 .. generation, row : Rows]]

(* As long as no two shutdowns overlap: what is not initialized has no     *)
(* parts, and at most one shutdown is under way, closing the cache that the *)
(* facade still refers to.                                                 *)
ShutdownAlone == ~overlapped =>
  /\ PartsOwned
  /\ initialized \/ \A k \in Parts : part[k] = None
  /\ \A s \in Stoppers : stopper[s] # None =>
       initialized /\ stopper[s] = part["redis_cache"]
  /\ \A s, r \in Stoppers : stopper[s] # None /\ stopper[r] # None => s = r

(* The row of a, or for a replaced key one as new.                         *)
Holds(table, a) == \E r \in table :
  r.key = a.key /\ (IF a.key \in Metrics THEN r.n = a.n ELSE r.n >= a.n)

(* Only one connection has rows to commit, and what it would replace is    *)
(* older.  A method between its statement and its commit finds its row     *)
(* there or on disk, where another thread's commit has put it: unless the  *)
(* connection was closed.                                                  *)
RowsKept ==
  /\ \A g, h \in 1 .. MaxGen : uncommitted[g] # {} /\ uncommitted[h] # {} => g = h
  /\ \A g \in 1 .. MaxGen : \A q \in uncommitted[g], r \in rows :
       q.key = r.key /\ q.key \notin Metrics => r.n <= q.n
  /\ \A t \in Writers : writer[t] # NoCall /\ Connected(writer[t].store) =>
       Holds(rows \cup uncommitted[writer[t].store], writer[t].row)
  /\ \A a \in acknowledged : Holds(rows, a)

FacadeInvariant == FacadeTypeOK /\ ShutdownAlone /\ RowsKept

(* A table that holds the row keeps holding it under newer rows.           *)
LEMMA InsertKeeps ==
  ASSUME FacadeAssumption, executed \in Nat, NEW table \in SUBSET Rows, NEW a \in Rows, Holds(table, a),
         NEW row, row.n = executed + 1
  PROVE  Holds(Inserted(table, row), a)
<1>1. PICK r \in table : r.key = a.key /\ (IF a.key \in Metrics THEN r.n = a.n ELSE r.n >= a.n)
  BY DEF Holds
<1>2. r \in Rows /\ r.n \in Nat /\ a.n \in Nat /\ r.n <= executed /\ a.n <= executed
  BY DEF Rows
<1>3. CASE r \in Inserted(table, row)
  BY <1>1, <1>3 DEF Holds
<1>4. CASE r \notin Inserted(table, row)
  <2>1. r.key \notin Metrics /\ r.key = row.key /\ row \in Inserted(table, row)
    BY <1>1, <1>4 DEF Inserted
  <2>2. row.n >= a.n
    BY <1>2
  <2> QED
    BY <1>1, <2>1, <2>2 DEF Holds
<1> QED
  BY <1>3, <1>4

(* A commit replaces rows only by rows as new, so what is in either table  *)
(* is in the merged one.                                                   *)
LEMMA CommitKeeps ==
  ASSUME FacadeAssumption, executed \in Nat, NEW new \in SUBSET Rows, rows \subseteq Rows,
         \A q \in new, r \in rows : q.key = r.key /\ q.key \notin Metrics => r.n <= q.n,
         NEW a \in Rows, Holds(rows \cup new, a)
  PROVE  Holds(Merged(rows, new), a)
<1>1. PICK r \in rows \cup new :
        r.key = a.key /\ (IF a.key \in Metrics THEN r.n = a.n ELSE r.n >= a.n)
  BY DEF Holds
<1>2. CASE r \in Merged(rows, new)
  BY <1>1, <1>2 DEF Holds
<1>3. CASE r \notin Merged(rows, new)
  <2>1. PICK q \in new : q.key = r.key /\ r.key \notin Metrics /\ r \in rows
    BY <1>3 DEF Merged
  <2>2. q.n \in Nat /\ r.n \in Nat /\ a.n \in Nat /\ r.n <= q.n
    BY <2>1 DEF Rows
  <2>3. q.n >= a.n /\ q \in Merged(rows, new)
    BY <1>1, <2>1, <2>2 DEF Merged
  <2> QED
    BY <1>1, <2>1, <2>3 DEF Holds
<1> QED
  BY <1>2, <1>3

(* A facade that was never initialized satisfies its invariant.            *)
LEMMA InitFacade == FacadeInit => FacadeInvariant
<1> SUFFICES ASSUME FacadeInit PROVE FacadeInvariant
  OBVIOUS
<1> USE FacadeAssumption DEF FacadeInit
<1>1. FacadeTypeOK
  <2>1. generation \in 0 .. MaxGen /\ part \in [Parts -> 0 .. generation]
        /\ stopper \in [Stoppers -> 0 .. generation]
    BY DEF None, FacadeAssumption
  <2>2. uncommitted \in [1 .. MaxGen -> SUBSET Rows]
    OBVIOUS
  <2>3. writer \in [Writers -> {NoCall} \cup
                   [pc : {"executed"}, store : 1 .. generation, row : Rows]]
    BY Zenon
  <2> QED
    BY <2>1, <2>2, <2>3 DEF FacadeTypeOK
<1>2. ShutdownAlone
  BY DEF ShutdownAlone, PartsOwned, None
<1>3. RowsKept
  BY DEF RowsKept
<1> QED
  BY <1>1, <1>2, <1>3 DEF FacadeInvariant

(* Every step of initialize, shutdown, the connections and the writers     *)
(* keeps the facade's invariant, and so does a crash.                      *)
LEMMA NextFacade ==
  ASSUME FacadeInvariant, [FacadeNext]_facadeVars
  PROVE  FacadeInvariant'
<1> USE FacadeAssumption DEF FacadeAssumption
<1>1. FacadeTypeOK /\ ShutdownAlone /\ RowsKept
  BY DEF FacadeInvariant
<1>2. ASSUME NEW constructed \in SUBSET Parts, Initialize(constructed)
      PROVE  FacadeInvariant'
  <2>1. /\ ~initialized /\ initialized' /\ generation' = generation + 1
        /\ generation < MaxGen
        /\ part' = [k \in Parts |-> IF k \in constructed THEN generation + 1 ELSE part[k]]
        /\ openParts' = openParts \cup {<<k, generation + 1>> : k \in constructed}
        /\ UNCHANGED <<stopper, overlapped, storeVars>>
    BY <1>2 DEF Initialize
  <2>2. FacadeTypeOK'
    <3>1. /\ generation' \in 0 .. MaxGen /\ generation \in Nat
          /\ 0 .. generation \subseteq 0 .. generation'
          /\ 1 .. generation \subseteq 1 .. generation'
          /\ generation + 1 \in 1 .. generation' /\ generation + 1 \in 0 .. generation'
      BY <1>1, <2>1 DEF FacadeTypeOK
    <3>2. part' \in [Parts -> 0 .. generation']
      BY <1>1, <2>1, <3>1 DEF FacadeTypeOK
    <3>3. openParts' \subseteq Parts \X (1 .. generation')
      BY <1>1, <2>1, <3>1 DEF FacadeTypeOK
    <3>4. stopper' \in [Stoppers -> 0 .. generation']
      BY <1>1, <2>1, <3>1 DEF FacadeTypeOK
    <3>5. writer' \in [Writers -> {NoCall} \cup
                   [pc : {"executed"}, store : 1 .. generation', row : Rows']]
      BY <1>1, <2>1, <3>1 DEF FacadeTypeOK, storeVars, Rows
    <3> QED
      BY <1>1, <2>1, <3>1, <3>2, <3>3, <3>4, <3>5 DEF FacadeTypeOK, storeVars, Rows
  <2>3. ShutdownAlone'
    <3>1. SUFFICES ASSUME ~overlapped PROVE ShutdownAlone'
      BY <2>1 DEF ShutdownAlone
    <3>2. /\ \A k \in Parts : part[k] = None
          /\ openParts = {}
          /\ \A s \in Stoppers : stopper[s] = None
      BY <1>1, <2>1, <3>1 DEF ShutdownAlone, PartsOwned
    <3>3. \A k \in Parts : part'[k] = IF k \in constructed THEN generation + 1 ELSE None
      BY <2>1, <3>2
    <3>4. generation + 1 # None
      BY <1>1 DEF FacadeTypeOK, None
    <3>5. openParts' = {<<k, part'[k]>> : k \in {k \in Parts : part'[k] # None}}
      BY <2>1, <3>2, <3>3, <3>4
    <3> QED
      BY <2>1, <3>2, <3>5 DEF ShutdownAlone, PartsOwned
  <2>4. ASSUME NEW t \in Writers, writer[t] # NoCall, Connected(writer[t].store)'
        PROVE  Connected(writer[t].store)
    <3>1. writer[t].store \in 1 .. generation
      BY <1>1, <2>4 DEF FacadeTypeOK
    <3> QED
      BY <1>1, <2>1, <2>4, <3>1 DEF Connected, FacadeTypeOK, storeVars
  <2>5. RowsKept'
    BY <1>1, <2>1, <2>4 DEF RowsKept, storeVars, Holds
  <2> QED
    BY <2>2, <2>3, <2>5 DEF FacadeInvariant
<1>3. ASSUME NEW cache \in 0 .. generation, CloseParts(cache),
             stopper' \in [Stoppers -> 0 .. generation], overlapped' = overlapped,
             ~overlapped => cache = part["redis_cache"] /\ \A s \in Stoppers : stopper'[s] = None
      PROVE  FacadeInvariant'
  <2> DEFINE g == part["sqlite_store"]
  <2>1. /\ openParts' = (openParts \ {<<k, part[k]>> : k \in Parts \ {"redis_cache"}})
                          \ {<<"redis_cache", cache>>}
        /\ uncommitted' = IF g = None THEN uncommitted ELSE [uncommitted EXCEPT ![g] = {}]
        /\ part' = [k \in Parts |-> None] /\ initialized' = FALSE
        /\ UNCHANGED <<generation, rows, executed, writer, acknowledged>>
    BY <1>3 DEF CloseParts, Disconnect
  <2>2. /\ generation \in 0 .. MaxGen
        /\ g \in 0 .. generation /\ "sqlite_store" \in Parts \ {"redis_cache"}
        /\ \A h \in 1 .. MaxGen : uncommitted[h] \subseteq Rows
    BY <1>1 DEF FacadeTypeOK, Parts
  <2>3. /\ uncommitted' \in [1 .. MaxGen -> SUBSET Rows]
        /\ \A h \in 1 .. MaxGen : uncommitted'[h] = IF h = g THEN {} ELSE uncommitted[h]
    BY <1>1, <2>1, <2>2 DEF FacadeTypeOK, None
  <2>4. FacadeTypeOK'
    <3>1. part' \in [Parts -> 0 .. generation] /\ initialized' \in BOOLEAN
          /\ openParts' \subseteq Parts \X (1 .. generation)
      <4>1. None \in 0 .. generation
        BY <2>2 DEF None
      <4>2. part' \in [Parts -> 0 .. generation] /\ initialized' \in BOOLEAN
        BY <2>1, <4>1
      <4>3. openParts' \subseteq openParts
        BY <2>1
      <4> QED
        BY <1>1, <4>2, <4>3 DEF FacadeTypeOK
    <3>2. Rows' = Rows
      BY <2>1 DEF Rows
    <3> QED
      BY <1>1, <1>3, <2>1, <2>2, <2>3, <3>1, <3>2 DEF FacadeTypeOK
  <2>5. ShutdownAlone'
    <3>1. SUFFICES ASSUME ~overlapped PROVE ShutdownAlone'
      BY <1>3 DEF ShutdownAlone
    <3>2. openParts = {<<k, part[k]>> : k \in {k \in Parts : part[k] # None}}
      BY <1>1, <3>1 DEF ShutdownAlone, PartsOwned
    <3>3. openParts' = {}
      BY <1>3, <2>1, <3>1, <3>2
    <3>4. \A k \in Parts : part'[k] = None
      BY <2>1
    <3> QED
      BY <1>3, <2>1, <3>1, <3>3, <3>4 DEF ShutdownAlone, PartsOwned
  <2>6. ASSUME NEW t \in Writers, writer[t] # NoCall, Connected(writer[t].store)'
        PROVE  Connected(writer[t].store) /\ writer[t].store # g
    BY <2>1, <2>2, <2>6 DEF Connected
  <2>7. \A t \in Writers : writer[t] # NoCall => writer[t].store \in 1 .. MaxGen
    BY <1>1, <2>2 DEF FacadeTypeOK
  <2>8. RowsKept'
    <3>1. \A t \in Writers : writer[t] # NoCall /\ Connected(writer[t].store)' =>
            Holds(rows \cup uncommitted'[writer[t].store], writer[t].row)
      BY <1>1, <2>3, <2>6, <2>7 DEF RowsKept
    <3> QED
      BY <1>1, <2>1, <2>3, <3>1 DEF RowsKept, Holds
  <2> QED
    BY <2>4, <2>5, <2>8 DEF FacadeInvariant
<1>4. ASSUME NEW s \in Stoppers, ShutdownWithoutCache(s)
      PROVE  FacadeInvariant'
  <2>1. /\ part["redis_cache"] = None /\ CloseParts(None) /\ UNCHANGED <<stopper, overlapped>>
    BY <1>4 DEF ShutdownWithoutCache
  <2>2. ~overlapped => \A r \in Stoppers : stopper[r] = None
    BY <1>1, <2>1 DEF ShutdownAlone
  <2>3. None \in 0 .. generation /\ stopper \in [Stoppers -> 0 .. generation]
    BY <1>1 DEF FacadeTypeOK, None
  <2> QED
    BY <1>3, <2>1, <2>2, <2>3
<1>5. ASSUME NEW s \in Stoppers, BeginShutdown(s)
      PROVE  FacadeInvariant'
  <2>1. /\ stopper[s] = None /\ initialized /\ part["redis_cache"] # None
        /\ stopper' = [stopper EXCEPT ![s] = part["redis_cache"]]
        /\ overlapped' = (overlapped \/ \E r \in Stoppers : stopper[r] # None)
        /\ initialized' = initialized
        /\ UNCHANGED <<part, generation, openParts, storeVars>>
    BY <1>5 DEF BeginShutdown, FlagDuringClose
  <2>2. part["redis_cache"] \in 0 .. generation
    BY <1>1 DEF FacadeTypeOK, Parts
  <2>3. FacadeTypeOK'
    <3>1. overlapped' \in BOOLEAN
      BY <2>1
    <3> QED
      BY <1>1, <2>1, <2>2, <3>1 DEF FacadeTypeOK, storeVars, Rows
  <2>4. ShutdownAlone'
    <3>1. SUFFICES ASSUME ~overlapped' PROVE ShutdownAlone'
      BY DEF ShutdownAlone
    <3>2. ~overlapped /\ \A r \in Stoppers : stopper[r] = None
      BY <2>1, <3>1
    <3>3. \A r \in Stoppers : stopper'[r] # None => r = s /\ stopper'[r] = part["redis_cache"]
      BY <1>1, <2>1, <3>2 DEF FacadeTypeOK
    <3> QED
      BY <1>1, <2>1, <3>2, <3>3 DEF ShutdownAlone, PartsOwned
  <2>5. RowsKept'
    BY <1>1, <2>1 DEF RowsKept, storeVars, Holds, Connected
  <2> QED
    BY <2>3, <2>4, <2>5 DEF FacadeInvariant
<1>6. ASSUME NEW s \in Stoppers, EndShutdown(s)
      PROVE  FacadeInvariant'
  <2>1. /\ stopper[s] # None /\ CloseParts(stopper[s])
        /\ stopper' = [stopper EXCEPT ![s] = None] /\ UNCHANGED overlapped
    BY <1>6 DEF EndShutdown
  <2>2. stopper[s] \in 0 .. generation /\ stopper' \in [Stoppers -> 0 .. generation]
    BY <1>1, <2>1 DEF FacadeTypeOK, None
  <2>3. ~overlapped => stopper[s] = part["redis_cache"]
                       /\ \A r \in Stoppers : stopper'[r] = None
    BY <1>1, <2>1 DEF FacadeTypeOK, ShutdownAlone
  <2> QED
    BY <1>3, <2>1, <2>2, <2>3
<1>7. ASSUME NEW t \in Writers, NEW key \in Records \cup Metrics, ExecuteInsert(t, key)
      PROVE  FacadeInvariant'
  <2> DEFINE g == part["sqlite_store"]
             row == [key |-> key, n |-> executed + 1]
  <2>1. /\ writer[t] = NoCall /\ g # None /\ Connected(g) /\ ~Locked(g)
        /\ executed' = executed + 1
        /\ uncommitted' = [uncommitted EXCEPT ![g] = Inserted(@, row)]
        /\ writer' = [writer EXCEPT ![t] = [pc |-> "executed", store |-> g, row |-> row]]
        /\ UNCHANGED <<initialized, part, generation, openParts, stopper, overlapped, rows,
                       acknowledged>>
    BY <1>7 DEF ExecuteInsert
  <2>2. /\ g \in 1 .. generation /\ g \in 1 .. MaxGen
        /\ uncommitted[g] \subseteq Rows /\ executed \in Nat
    BY <1>1, <2>1 DEF FacadeTypeOK, Parts, None
  <2>3. Rows \subseteq Rows' /\ row \in Rows'
    BY <2>1, <2>2 DEF Rows
  <2>4. /\ \A h \in 1 .. MaxGen : h # g => uncommitted'[h] = uncommitted[h] /\ uncommitted[h] = {}
        /\ uncommitted'[g] = Inserted(uncommitted[g], row)
        /\ uncommitted' \in [1 .. MaxGen -> SUBSET Rows']
    <3>1. Inserted(uncommitted[g], row) \subseteq Rows'
      BY <2>2, <2>3 DEF Inserted
    <3> QED
      BY <1>1, <2>1, <2>2, <2>3, <3>1 DEF FacadeTypeOK, Locked
  <2>5. /\ writer'[t] = [pc |-> "executed", store |-> g, row |-> row]
        /\ \A u \in Writers : u # t => writer'[u] = writer[u]
    BY <1>1, <2>1 DEF FacadeTypeOK
  <2> HIDE DEF row, g
  <2>6. FacadeTypeOK'
    <3>1. writer' \in [Writers -> {NoCall} \cup
                   [pc : {"executed"}, store : 1 .. generation', row : Rows']]
      <4>1. writer'[t] \in [pc : {"executed"}, store : 1 .. generation', row : Rows']
        BY <2>1, <2>2, <2>3, <2>5
      <4>2. \A u \in Writers : u # t =>
              writer'[u] \in {NoCall} \cup [pc : {"executed"}, store : 1 .. generation', row : Rows']
        BY <1>1, <2>1, <2>3, <2>5 DEF FacadeTypeOK
      <4> QED
        BY <1>1, <2>1, <4>1, <4>2 DEF FacadeTypeOK
    <3> QED
      BY <1>1, <2>1, <2>2, <2>3, <2>4, <3>1 DEF FacadeTypeOK
  <2>7. ShutdownAlone'
    BY <1>1, <2>1 DEF ShutdownAlone, PartsOwned
  <2>8. row.key = key /\ row.n = executed + 1
    BY DEF row
  <2>9. ASSUME NEW h \in 1 .. MaxGen, NEW q \in uncommitted'[h], NEW r \in rows,
               q.key = r.key, q.key \notin Metrics
        PROVE  r.n <= q.n
    <3>1. h = g
      BY <2>4
    <3>2. CASE q \in uncommitted[g]
      BY <1>1, <2>2, <2>9, <3>2 DEF RowsKept
    <3>3. CASE q = row
      <4>1. r.n \in 1 .. executed
        BY <1>1 DEF FacadeTypeOK, Rows
      <4> QED
        BY <2>2, <2>8, <3>3, <4>1
    <3> QED
      BY <2>4, <3>1, <3>2, <3>3 DEF Inserted
  <2>10. ASSUME NEW u \in Writers, writer'[u] # NoCall, Connected(writer[u].store)'
         PROVE  Holds(rows \cup uncommitted'[writer'[u].store], writer'[u].row)
    <3>1. CASE u = t
      <4>1. row \in uncommitted'[g]
        BY <2>4 DEF Inserted
      <4> QED
        BY <2>2, <2>5, <2>8, <3>1, <4>1 DEF Holds
    <3>2. CASE u # t
      <4> DEFINE h == writer[u].store
                 a == writer[u].row
      <4>1. /\ h \in 1 .. MaxGen /\ a \in Rows /\ writer'[u] = writer[u]
            /\ Holds(rows \cup uncommitted[h], a)
        <5>1. writer'[u] = writer[u] /\ writer[u] # NoCall
          BY <2>5, <2>10, <3>2
        <5>2. Connected(writer[u].store)
          BY <2>1, <2>10, <5>1 DEF Connected
        <5>3. h \in 1 .. generation /\ generation \in 0 .. MaxGen /\ a \in Rows
          BY <1>1, <5>1 DEF FacadeTypeOK
        <5> QED
          BY <1>1, <5>1, <5>2, <5>3 DEF RowsKept
      <4> HIDE DEF h, a
      <4>2. CASE h # g
        BY <2>4, <4>1, <4>2 DEF h, a
      <4>3. CASE h = g
        <5>1. CASE Holds(rows, a)
          BY <4>1, <5>1 DEF Holds, h, a
        <5>2. CASE Holds(uncommitted[g], a)
          <6>1. Holds(uncommitted'[g], a)
            BY <2>2, <2>4, <2>8, <4>1, <5>2, InsertKeeps
          <6> QED
            BY <4>1, <4>3, <6>1 DEF Holds, h, a
        <5> QED
          BY <4>1, <4>3, <5>1, <5>2 DEF Holds
      <4> QED
        BY <4>2, <4>3
    <3> QED
      BY <3>1, <3>2
  <2>11. RowsKept'
    BY <1>1, <2>1, <2>4, <2>9, <2>10 DEF RowsKept, Holds
  <2> QED
    BY <2>6, <2>7, <2>11 DEF FacadeInvariant
<1>8. ASSUME NEW t \in Writers, FinishInsert(t), ~Connected(writer[t].store)
      PROVE  FacadeInvariant'
  <2>1. /\ writer' = [writer EXCEPT ![t] = NoCall]
        /\ UNCHANGED <<initialized, part, generation, openParts, stopper, overlapped, executed,
                       rows, uncommitted, acknowledged>>
    BY <1>8 DEF FinishInsert
  <2>2. writer'[t] = NoCall /\ \A u \in Writers : u # t => writer'[u] = writer[u]
    BY <1>1, <2>1 DEF FacadeTypeOK
  <2>3. FacadeTypeOK'
    BY <1>1, <2>1 DEF FacadeTypeOK, Rows
  <2>4. ShutdownAlone'
    BY <1>1, <2>1 DEF ShutdownAlone, PartsOwned
  <2>5. RowsKept'
    BY <1>1, <2>1, <2>2 DEF RowsKept, Holds, Connected
  <2> QED
    BY <2>3, <2>4, <2>5 DEF FacadeInvariant
<1>9. ASSUME NEW t \in Writers, FinishInsert(t), Connected(writer[t].store)
      PROVE  FacadeInvariant'
  <2> DEFINE g == writer[t].store
             new == uncommitted[g]
  <2>1. /\ writer[t] # NoCall
        /\ writer' = [writer EXCEPT ![t] = NoCall]
        /\ rows' = Merged(rows, new)
        /\ uncommitted' = [uncommitted EXCEPT ![g] = {}]
        /\ acknowledged' = acknowledged \cup {writer[t].row}
        /\ UNCHANGED <<initialized, part, generation, openParts, stopper, overlapped, executed>>
    BY <1>9 DEF FinishInsert, Commit
  <2>2. writer'[t] = NoCall /\ \A u \in Writers : u # t => writer'[u] = writer[u]
    BY <1>1, <2>1 DEF FacadeTypeOK
  <2>3. /\ g \in 1 .. MaxGen /\ new \in SUBSET Rows /\ writer[t].row \in Rows
        /\ rows \subseteq Rows /\ executed \in Nat
        /\ \A u \in Writers : u # t /\ writer[u] # NoCall =>
             writer[u].row \in Rows /\ writer[u].store \in 1 .. MaxGen
    BY <1>1, <2>1 DEF FacadeTypeOK
  <2>4. /\ uncommitted'[g] = {}
        /\ \A h \in 1 .. MaxGen : h # g => uncommitted'[h] = uncommitted[h]
    BY <1>1, <2>1, <2>3 DEF FacadeTypeOK
  <2>5. Holds(rows \cup new, writer[t].row)
    BY <1>1, <1>9, <2>1 DEF RowsKept
  <2> HIDE DEF new, g
  <2>6. \A q \in new, r \in rows : q.key = r.key /\ q.key \notin Metrics => r.n <= q.n
    BY <1>1, <2>3 DEF RowsKept, new
  <2>7. rows' \subseteq Rows
    BY <2>1, <2>3 DEF Merged
  <2>8. FacadeTypeOK'
    BY <1>1, <2>1, <2>3, <2>7 DEF FacadeTypeOK, Rows
  <2>9. ShutdownAlone'
    BY <1>1, <2>1 DEF ShutdownAlone, PartsOwned
  <2>10. \A a \in Rows : Holds(rows, a) => Holds(rows', a)
    <3>1. \A a \in Rows : Holds(rows, a) => Holds(rows \cup new, a)
      BY DEF Holds
    <3> QED
      BY <2>1, <2>3, <2>6, <3>1, CommitKeeps
  <2>11. Holds(rows', writer[t].row)
    BY <2>1, <2>3, <2>5, <2>6, CommitKeeps
  <2>12. \A a \in acknowledged' : Holds(rows', a)
    <3>1. acknowledged \subseteq Rows
      BY <1>1 DEF FacadeTypeOK
    <3>2. \A a \in acknowledged : Holds(rows, a)
      BY <1>1 DEF RowsKept
    <3> QED
      BY <2>1, <2>10, <2>11, <3>1, <3>2
  <2>13. ASSUME NEW u \in Writers, writer'[u] # NoCall, Connected(writer[u].store)'
         PROVE  Holds(rows' \cup uncommitted'[writer'[u].store], writer'[u].row)
    <3> DEFINE h == writer[u].store
               a == writer[u].row
    <3>1. /\ h \in 1 .. MaxGen /\ a \in Rows /\ writer'[u] = writer[u]
          /\ Holds(rows \cup uncommitted[h], a)
      <4>1. u # t /\ writer'[u] = writer[u] /\ writer[u] # NoCall
        BY <2>2, <2>13
      <4>2. Connected(writer[u].store)
        BY <2>1, <2>13 DEF Connected
      <4>3. Holds(rows \cup uncommitted[writer[u].store], writer[u].row)
        BY <1>1, <4>1, <4>2 DEF RowsKept
      <4> QED
        BY <2>3, <4>1, <4>3
    <3> HIDE DEF h, a
    <3>2. CASE h = g
      <4>1. Holds(rows', a)
        BY <2>1, <2>3, <2>6, <3>1, <3>2, CommitKeeps DEF new
      <4> QED
        BY <3>1, <4>1 DEF Holds, h, a
    <3>3. CASE h # g
      <4>1. CASE Holds(rows, a)
        <5>1. Holds(rows', a)
          BY <2>10, <3>1, <4>1
        <5> QED
          BY <3>1, <5>1 DEF Holds, h, a
      <4>2. CASE Holds(uncommitted[h], a)
        <5>1. Holds(uncommitted'[h], a)
          BY <2>4, <3>1, <3>3, <4>2
        <5> QED
          BY <3>1, <5>1 DEF Holds, h, a
      <4> QED
        BY <3>1, <4>1, <4>2 DEF Holds
    <3> QED
      BY <3>2, <3>3
  <2>14. ASSUME NEW h \in 1 .. MaxGen, NEW q \in uncommitted'[h], NEW r \in rows',
                q.key = r.key, q.key \notin Metrics
         PROVE  r.n <= q.n
    <3>1. h # g /\ q \in uncommitted[h]
      BY <2>4
    <3>2. new = {}
      BY <1>1, <2>3, <3>1 DEF RowsKept, new
    <3>3. r \in rows
      BY <2>1, <3>2 DEF Merged
    <3> QED
      BY <1>1, <2>14, <3>1, <3>3 DEF RowsKept
  <2>15. \A h, k \in 1 .. MaxGen : uncommitted'[h] # {} /\ uncommitted'[k] # {} => h = k
    BY <1>1, <2>4 DEF RowsKept
  <2>16. RowsKept'
    BY <2>12, <2>13, <2>14, <2>15 DEF RowsKept
  <2> QED
    BY <2>8, <2>9, <2>16 DEF FacadeInvariant
<1>10. ASSUME Crash
       PROVE  FacadeInvariant'
  <2>1. FacadeTypeOK'
    <3>1. /\ part' \in [Parts -> 0 .. generation] /\ stopper' \in [Stoppers -> 0 .. generation]
          /\ initialized' \in BOOLEAN /\ openParts' = {} /\ overlapped' \in BOOLEAN
          /\ generation' = generation /\ generation \in 0 .. MaxGen
      <4>1. generation' = generation /\ generation \in 0 .. MaxGen
            /\ overlapped' \in BOOLEAN
        BY <1>1, <1>10 DEF Crash, FacadeTypeOK
      <4>2. None \in 0 .. generation
        BY <4>1 DEF None
      <4> QED
        BY <1>10, <4>1, <4>2 DEF Crash
    <3>2. Rows' = Rows /\ rows' = rows /\ executed' = executed /\ acknowledged' = acknowledged
      BY <1>10 DEF Crash, Rows
    <3>3. uncommitted' \in [1 .. MaxGen -> SUBSET Rows]
      BY <1>10 DEF Crash
    <3>4. writer' \in [Writers -> {NoCall} \cup
                         [pc : {"executed"}, store : 1 .. generation, row : Rows]]
      BY <1>10, Zenon DEF Crash
    <3> QED
      BY <1>1, <3>1, <3>2, <3>3, <3>4 DEF FacadeTypeOK
  <2>2. ShutdownAlone'
    BY <1>10 DEF Crash, ShutdownAlone, PartsOwned
  <2>3. RowsKept'
    BY <1>1, <1>10 DEF Crash, RowsKept, Holds
  <2> QED
    BY <2>1, <2>2, <2>3 DEF FacadeInvariant
<1>11. ASSUME UNCHANGED facadeVars
       PROVE  FacadeInvariant'
  <2>1. FacadeTypeOK'
    BY <1>1, <1>11 DEF facadeVars, storeVars, FacadeTypeOK, Rows
  <2>2. ShutdownAlone'
    BY <1>1, <1>11 DEF facadeVars, storeVars, ShutdownAlone, PartsOwned
  <2>3. RowsKept'
    BY <1>1, <1>11 DEF facadeVars, storeVars, RowsKept, Holds, Connected
  <2> QED
    BY <2>1, <2>2, <2>3 DEF FacadeInvariant
<1> QED
  BY <1>2, <1>4, <1>5, <1>6, <1>7, <1>8, <1>9, <1>10, <1>11 DEF FacadeNext

(* The facade's invariant holds in every reachable state.                  *)
THEOREM FacadeInvariance == FacadeSpec => []FacadeInvariant
BY InitFacade, NextFacade, PTL DEF FacadeSpec

(* Unless two shutdowns overlapped, the open parts are those the facade    *)
(* refers to, and after a shutdown nothing is open.                        *)
THEOREM PartsAlwaysOwned == FacadeSpec => []PartsOwned
<1>1. FacadeInvariant => PartsOwned
  BY DEF FacadeInvariant, ShutdownAlone, PartsOwned
<1> QED
  BY <1>1, FacadeInvariance, PTL

(* A row whose write has returned, or one that replaced it, is on disk,    *)
(* through any number of closes and crashes.                               *)
THEOREM RowsAlwaysSurvive == FacadeSpec => []AcknowledgedRowsSurvive
<1>1. FacadeInvariant => AcknowledgedRowsSurvive
  BY DEF FacadeInvariant, RowsKept, AcknowledgedRowsSurvive, Holds
<1> QED
  BY <1>1, FacadeInvariance, PTL

-----------------------------------------------------------------------------
(* REDIS CACHE *)

(* The write w of the key k has completed.                                 *)
Completed(w, k) == \E d \in done : d.write = w /\ d.key = k
DoneWrites      == {d.write : d \in done}

Entries      == [value : 0 .. writes, expiry : Nat]
SentGets     == [kind : {"get"}, key : Keys, stale : SUBSET Nat, pc : {"sent"}]
ExecutedGets == [kind : {"get"}, key : Keys, stale : SUBSET Nat, pc : {"executed"},
                 value : 0 .. writes]
WriteOps     == [kind : {"put", "invalidate"}, key : Keys, ttl : Nat, write : 1 .. writes,
                 before : SUBSET Nat, pc : {"sent", "executed"}]

CacheTypeOK ==
  /\ writes \in Nat /\ clock \in Nat
  /\ usingFallback \in BOOLEAN
  /\ done \subseteq [write : 1 .. writes, key : Keys, until : Nat]
  /\ redis \in [Keys -> Entries] /\ store \in [Keys -> Entries]
  /\ op \in [Tasks -> {NoOp} \cup SentGets \cup ExecutedGets \cup WriteOps]

(* If the write whose bytes an entry holds has completed, it is one of the *)
(* entry's key, and the entry dies no later than the write may be served.  *)
Dated(table) == \A k \in Keys : \A d \in done :
  d.write = table[k].value => d.key = k /\ table[k].expiry <= d.until

Without(table, old) == \A k \in Keys : table[k].value \notin old

(* A get on its way: what it must not answer had completed before it began, *)
(* so Redis cannot come to hold that now; what Redis holds of it is dead.  *)
GetOK(o) ==
  /\ o.stale \subseteq DoneWrites
  /\ o.pc = "sent" => (redis[o.key].value \in o.stale => redis[o.key].expiry <= clock)
  /\ o.pc = "executed" => o.value \notin o.stale
  /\ Without(store, o.stale)

(* A write on its way: once executed, Redis has nothing any more of the    *)
(* writes it supersedes, and the fallback never had.                       *)
WriteOK(o) ==
  /\ o.write \notin DoneWrites
  /\ \A w \in o.before : Completed(w, o.key)
  /\ \A k \in Keys : redis[k].value = o.write =>
       o.pc = "executed" /\ k = o.key /\ redis[k].expiry <= clock + o.ttl
  /\ o.pc = "executed" => redis[o.key].value \notin o.before
  /\ Without(store, o.before \cup {o.write})

CallsOK == \A t \in Tasks :
  /\ op[t] \in SentGets \cup ExecutedGets => GetOK(op[t])
  /\ op[t] \in WriteOps => WriteOK(op[t])

OneCallEach == \A t, u \in Tasks :
  op[t] \in WriteOps /\ op[u] \in WriteOps /\ op[t].write = op[u].write => t = u

CacheInvariant ==
  /\ CacheTypeOK /\ CallsOK /\ OneCallEach
  /\ Dated(redis) /\ Dated(store)
  /\ superseded \subseteq DoneWrites
  /\ Without(store, superseded)
  /\ ~usingFallback =>
       Without(redis, superseded) /\ \A k \in Keys : store[k] = NoEntry
  /\ servedStale = {}

(* The three shapes of a call are told apart by their fields.              *)
LEMMA Shapes ==
  ASSUME NEW o
  PROVE  /\ o \in SentGets => o.kind = "get" /\ o.pc = "sent" /\ o # NoOp
         /\ o \in ExecutedGets => o.kind = "get" /\ o.pc = "executed" /\ o # NoOp
         /\ o \in WriteOps => o.kind \in {"put", "invalidate"} /\ o # NoOp
BY DEF SentGets, ExecutedGets, WriteOps, NoOp

(* A cache that was just made satisfies its invariant.                     *)
LEMMA InitCache == CacheInit => CacheInvariant
<1> SUFFICES ASSUME CacheInit PROVE CacheInvariant
  OBVIOUS
<1>1. /\ writes = 0 /\ done = {} /\ superseded = {} /\ servedStale = {} /\ clock = 0
      /\ usingFallback \in BOOLEAN
      /\ redis = [k \in Keys |-> NoEntry] /\ store = [k \in Keys |-> NoEntry]
      /\ op = [t \in Tasks |-> NoOp]
  BY DEF CacheInit
<1>2. CacheTypeOK
  BY <1>1 DEF CacheTypeOK, Entries, NoEntry, Nil
<1>3. CallsOK /\ OneCallEach
  BY <1>1, Shapes DEF CallsOK, OneCallEach
<1> QED
  BY <1>1, <1>2, <1>3 DEF CacheInvariant, Dated, Without

(* A completed write is known by a number the model has given out.         *)
LEMMA DoneNumbers ==
  ASSUME CacheTypeOK
  PROVE  /\ DoneWrites \subseteq 1 .. writes
         /\ \A w, k : Completed(w, k) => w \in DoneWrites
BY DEF CacheTypeOK, DoneWrites, Completed


(* What an operation that begins, or is served at once, may count on.      *)
NewWrite(o) ==
  /\ o.key \in Keys /\ o.ttl \in Nat /\ o.write \in 1 .. writes' /\ o.write \notin DoneWrites
  /\ \A w \in o.before : Completed(w, o.key)
  /\ \A k \in Keys : redis[k].value = o.write =>
       k = o.key /\ redis[k].expiry <= clock + o.ttl
  /\ \A k \in Keys : store[k].value # o.write
  /\ \A u \in Tasks : op'[u] # NoOp /\ op[u] \in WriteOps => op[u].write # o.write

(* The calls still on their way are those there were, without this one.    *)
OthersStay ==
  /\ op' \in [Tasks -> {op[u] : u \in Tasks} \cup {NoOp}]
  /\ \A u \in Tasks : op'[u] # NoOp => op'[u] = op[u]

(* The completion of write o, through Redis or through the fallback.       *)
LEMMA CompletionKeeps ==
  ASSUME CacheInvariant, NEW o, NewWrite(o), Complete(o), OthersStay,
         UNCHANGED <<redis, clock>>,
         writes' \in Nat, writes <= writes',
         store' \in [Keys -> Entries'],
         \A k \in Keys : store'[k] = store[k] \/
           (k = o.key /\ store'[k] \in {NoEntry, [value |-> o.write, expiry |-> clock + o.ttl]}),
         Without(store', o.before),
         usingFallback' \in BOOLEAN,
         ~usingFallback' => /\ ~usingFallback /\ store' = store
                            /\ redis[o.key].value \notin o.before
  PROVE  CacheInvariant'
<1> DEFINE d == [write |-> o.write, key |-> o.key, until |-> clock + o.ttl]
<1>1. /\ CacheTypeOK /\ CallsOK /\ OneCallEach /\ Dated(redis) /\ Dated(store)
      /\ superseded \subseteq DoneWrites /\ Without(store, superseded) /\ servedStale = {}
      /\ DoneWrites \subseteq 1 .. writes
  BY DoneNumbers DEF CacheInvariant
<1>2. /\ done' = done \cup {d} /\ superseded' = superseded \cup o.before
      /\ servedStale' = {} /\ redis' = redis /\ clock' = clock
  BY <1>1 DEF Complete
<1>3. /\ o.key \in Keys /\ o.ttl \in Nat /\ o.write \in 1 .. writes' /\ o.write \notin DoneWrites
      /\ \A w \in o.before : Completed(w, o.key)
      /\ \A k \in Keys : redis[k].value = o.write =>
           k = o.key /\ redis[k].expiry <= clock + o.ttl
      /\ \A k \in Keys : store[k].value # o.write
      /\ \A u \in Tasks : op'[u] # NoOp /\ op[u] \in WriteOps => op[u].write # o.write
  BY DEF NewWrite
<1>4. /\ DoneWrites' = DoneWrites \cup {o.write}
      /\ \A w, k : Completed(w, k) => Completed(w, k)'
  <2>1. d.write = o.write
    OBVIOUS
  <2> HIDE DEF d
  <2>2. DoneWrites' = DoneWrites \cup {o.write}
    BY <1>2, <2>1 DEF DoneWrites
  <2>3. \A w, k : Completed(w, k) => Completed(w, k)'
    BY <1>2 DEF Completed
  <2> QED
    BY <2>2, <2>3
<1>5. o.before \subseteq DoneWrites
  BY <1>3, DoneNumbers, <1>1
<1>6. /\ writes \in Nat /\ clock \in Nat /\ 1 .. writes \subseteq 1 .. writes'
      /\ 0 .. writes \subseteq 0 .. writes'
      /\ redis \in [Keys -> Entries] /\ store \in [Keys -> Entries]
      /\ op \in [Tasks -> {NoOp} \cup SentGets \cup ExecutedGets \cup WriteOps]
      /\ done \subseteq [write : 1 .. writes, key : Keys, until : Nat]
  BY <1>1 DEF CacheTypeOK
<1>7. \A k \in Keys : store'[k].value = store[k].value \/ store'[k].value \in {0, o.write}
  BY DEF NoEntry, Nil
<1>8. CacheTypeOK'
  <2>1. d \in [write : 1 .. writes', key : Keys, until : Nat]
    BY <1>3, <1>6
  <2>2. done' \subseteq [write : 1 .. writes', key : Keys, until : Nat]
    BY <1>2, <1>6, <2>1
  <2>3. redis' \in [Keys -> Entries']
    BY <1>2, <1>6 DEF Entries
  <2>4. /\ SentGets' = SentGets /\ ExecutedGets \subseteq ExecutedGets' /\ WriteOps \subseteq WriteOps'
    BY <1>6 DEF SentGets, ExecutedGets, WriteOps
  <2>5. op' \in [Tasks -> {NoOp} \cup SentGets' \cup ExecutedGets' \cup WriteOps']
    BY <1>6, <2>4 DEF OthersStay
  <2> QED
    BY <1>2, <1>6, <2>2, <2>3, <2>5 DEF CacheTypeOK
<1> HIDE DEF d
<1>9. ASSUME NEW u \in Tasks, op'[u] # NoOp
      PROVE  /\ op'[u] = op[u]
             /\ op[u] \in SentGets \cup ExecutedGets \cup WriteOps
             /\ op[u] \in SentGets \cup ExecutedGets => GetOK(op[u])
             /\ op[u] \in WriteOps => WriteOK(op[u]) /\ op[u].write # o.write
  BY <1>1, <1>3, <1>6, <1>9 DEF OthersStay, CallsOK
<1>10. ASSUME NEW p, p \in SentGets \cup ExecutedGets, GetOK(p)
       PROVE  GetOK(p)'
  <2>1. Without(store', p.stale)
    BY <1>1, <1>3, <1>7, <1>10 DEF GetOK, Without
  <2> QED
    BY <1>2, <1>4, <1>10, <2>1 DEF GetOK, Without
<1>11. ASSUME NEW p \in WriteOps, WriteOK(p), p.write # o.write
       PROVE  WriteOK(p)'
  <2>1. p.before \subseteq DoneWrites /\ p.write \in 1 .. writes
    BY <1>1, <1>11, DoneNumbers DEF WriteOK, WriteOps
  <2>2. Without(store', p.before \cup {p.write})
    BY <1>1, <1>3, <1>7, <1>11, <2>1 DEF WriteOK, Without
  <2> QED
    BY <1>2, <1>4, <1>11, <2>2 DEF WriteOK, Without
<1>12. CallsOK'
  <2>1. ASSUME NEW u \in Tasks, (op[u] \in SentGets \cup ExecutedGets)'
        PROVE  GetOK(op[u])'
    <3>1. op'[u] # NoOp
      BY <2>1, Shapes DEF SentGets, ExecutedGets, NoOp
    <3>2. op'[u] = op[u] /\ op[u] \in SentGets \cup ExecutedGets /\ GetOK(op[u])
      BY <1>9, <2>1, <3>1, Shapes DEF SentGets, ExecutedGets
    <3> QED
      BY <1>10, <3>2
  <2>2. ASSUME NEW u \in Tasks, (op[u] \in WriteOps)'
        PROVE  WriteOK(op[u])'
    <3>1. op'[u] # NoOp
      BY <2>2 DEF WriteOps, NoOp
    <3>2. op'[u] = op[u] /\ op[u] \in WriteOps /\ WriteOK(op[u]) /\ op[u].write # o.write
      BY <1>9, <2>2, <3>1, Shapes DEF WriteOps
    <3> QED
      BY <1>11, <3>2
  <2> QED
    BY <2>1, <2>2 DEF CallsOK
<1>13. OneCallEach'
  <2>1. ASSUME NEW u \in Tasks, (op[u] \in WriteOps)'
        PROVE  op'[u] = op[u] /\ op[u] \in WriteOps
    <3>1. op'[u] # NoOp
      BY <2>1 DEF WriteOps, NoOp
    <3> QED
      BY <1>9, <2>1, <3>1, Shapes DEF WriteOps
  <2> QED
    BY <1>1, <2>1 DEF OneCallEach
<1>14. Dated(redis)'
  BY <1>1, <1>2, <1>3 DEF Dated, d
<1>15. Dated(store)'
  <2>1. ASSUME NEW k \in Keys, NEW e \in done', e.write = store'[k].value
        PROVE  e.key = k /\ store'[k].expiry <= e.until
    <3>1. CASE store'[k] = store[k] /\ e \in done
      BY <1>1, <2>1, <3>1 DEF Dated
    <3>2. CASE store'[k] = store[k] /\ e = d
      BY <1>3, <2>1, <3>2 DEF d
    <3>3. CASE k = o.key /\ store'[k] = NoEntry
      <4>1. e.write \in 1 .. writes'
        BY <1>8 DEF CacheTypeOK
      <4> QED
        BY <2>1, <3>3, <4>1 DEF NoEntry, Nil
    <3>4. CASE k = o.key /\ store'[k] = [value |-> o.write, expiry |-> clock + o.ttl] /\ e \in done
      <4>1. e.write \in DoneWrites
        BY <3>4 DEF DoneWrites
      <4> QED
        BY <1>3, <2>1, <3>4, <4>1
    <3>5. CASE k = o.key /\ store'[k] = [value |-> o.write, expiry |-> clock + o.ttl] /\ e = d
      BY <1>3, <1>6, <3>5 DEF d
    <3> QED
      BY <1>2, <3>1, <3>2, <3>3, <3>4, <3>5
  <2> QED
    BY <2>1 DEF Dated
<1>16. superseded' \subseteq DoneWrites'
  BY <1>1, <1>2, <1>4, <1>5
<1>17. Without(store, superseded)'
  <2>1. ASSUME NEW k \in Keys
        PROVE  store'[k].value \notin superseded
    BY <1>1, <1>3, <1>7 DEF Without
  <2> QED
    BY <1>2, <2>1 DEF Without
<1>18. ASSUME ~usingFallback'
       PROVE  Without(redis, superseded)' /\ \A k \in Keys : store'[k] = NoEntry
  <2>1. ~usingFallback /\ store' = store /\ redis[o.key].value \notin o.before
    BY <1>18
  <2>2. Without(redis, superseded) /\ \A k \in Keys : store[k] = NoEntry
    BY <2>1 DEF CacheInvariant
  <2>3. ASSUME NEW k \in Keys, redis[k].value \in o.before
        PROVE  FALSE
    <3>1. PICK e \in done : e.write = redis[k].value /\ e.key = o.key
      BY <1>3, <2>3 DEF Completed
    <3>2. k = o.key
      BY <1>1, <3>1 DEF Dated
    <3> QED
      BY <2>1, <2>3, <3>2
  <2> QED
    BY <1>2, <2>1, <2>2, <2>3 DEF Without
<1> QED
  BY <1>2, <1>8, <1>12, <1>13, <1>14, <1>15, <1>16, <1>17, <1>18 DEF CacheInvariant

(* The end of a get with an answer that is not stale to it.                *)
LEMMA AnswerKeeps ==
  ASSUME CacheInvariant, NEW v, NEW o, v \notin o.stale, Answer(o, v),
         UNCHANGED <<redis, clock, writes>>,
         op' \in [Tasks -> {op[u] : u \in Tasks} \cup {NoOp}],
         \A u \in Tasks : op'[u] # NoOp => op'[u] = op[u],
         store' \in [Keys -> Entries],
         \A k \in Keys : store'[k] = store[k] \/ store'[k] = NoEntry,
         usingFallback' \in BOOLEAN,
         ~usingFallback' => ~usingFallback
  PROVE  CacheInvariant'
<1>1. /\ CacheTypeOK /\ CallsOK /\ OneCallEach /\ Dated(redis) /\ Dated(store)
      /\ superseded \subseteq DoneWrites /\ Without(store, superseded) /\ servedStale = {}
      /\ DoneWrites \subseteq 1 .. writes
  BY DoneNumbers DEF CacheInvariant
<1>2. /\ done' = done /\ superseded' = superseded
      /\ servedStale' = {} /\ redis' = redis /\ clock' = clock /\ writes' = writes
  BY <1>1 DEF Answer
<1>3. /\ DoneWrites' = DoneWrites
      /\ \A w, k : Completed(w, k)' <=> Completed(w, k)
  BY <1>2 DEF DoneWrites, Completed
<1>4. SentGets' = SentGets /\ ExecutedGets' = ExecutedGets /\ WriteOps' = WriteOps
      /\ Entries' = Entries
  BY <1>2 DEF SentGets, ExecutedGets, WriteOps, Entries
<1>5. \A k \in Keys : store'[k].value = store[k].value \/ store'[k].value = 0
  BY DEF NoEntry, Nil
<1>6. CacheTypeOK'
  BY <1>1, <1>2, <1>4 DEF CacheTypeOK
<1>7. ASSUME NEW u \in Tasks, op'[u] \in SentGets \cup ExecutedGets
      PROVE  GetOK(op[u])'
  <2>1. op'[u] = op[u] /\ GetOK(op[u])
    BY <1>1, <1>7, Shapes DEF CallsOK
  <2>2. Without(store', op[u].stale)
    BY <1>1, <1>5, <2>1 DEF GetOK, Without
  <2> QED
    BY <1>2, <1>3, <2>1, <2>2 DEF GetOK, Without
<1>8. ASSUME NEW u \in Tasks, op'[u] \in WriteOps
      PROVE  op'[u] = op[u] /\ WriteOK(op[u])'
  <2>1. op'[u] = op[u] /\ WriteOK(op[u]) /\ op[u].write \in 1 .. writes
    BY <1>1, <1>8, Shapes DEF CallsOK, WriteOps
  <2>2. op[u].before \subseteq DoneWrites
    BY <1>1, <2>1, DoneNumbers DEF WriteOK
  <2>3. Without(store', op[u].before \cup {op[u].write})
    BY <1>1, <1>5, <2>1, <2>2 DEF WriteOK, Without
  <2> QED
    BY <1>2, <1>3, <2>1, <2>3 DEF WriteOK, Without
<1>9. CallsOK' /\ OneCallEach'
  BY <1>1, <1>4, <1>7, <1>8 DEF CallsOK, OneCallEach
<1>10. Dated(store)' /\ Dated(redis)'
  <2>1. \A e \in done : e.write # 0
    BY <1>1 DEF CacheTypeOK
  <2>2. ASSUME NEW k \in Keys, NEW e \in done, e.write = store'[k].value
        PROVE  e.key = k /\ store'[k].expiry <= e.until
    <3>1. store'[k] = store[k]
      BY <2>1, <2>2 DEF NoEntry, Nil
    <3> QED
      BY <1>1, <2>2, <3>1 DEF Dated
  <2>3. Dated(redis)'
    BY <1>1, <1>2 DEF Dated
  <2> QED
    BY <1>2, <2>2, <2>3 DEF Dated
<1>11. Without(store, superseded)'
  BY <1>1, <1>2, <1>5 DEF Without
<1>12. ~usingFallback' => Without(redis, superseded)' /\ \A k \in Keys : store'[k] = NoEntry
  BY <1>2 DEF CacheInvariant, Without
<1> QED
  BY <1>1, <1>2, <1>3, <1>6, <1>9, <1>10, <1>11, <1>12 DEF CacheInvariant

(* A call that begins in fallback mode, or that falls back.                *)
LEMMA FallbackKeeps ==
  ASSUME CacheInvariant, NEW o, Fallback(o), SwitchToFallback, OthersStay,
         UNCHANGED <<redis, clock>>, writes' \in Nat, writes <= writes', o.key \in Keys,
         o.kind = "get" => /\ UNCHANGED writes /\ o.stale \subseteq DoneWrites
                           /\ \/ Without(store, o.stale)
                              \/ o.stale = StaleNow,
         o.kind \in {"put", "invalidate"} => NewWrite(o)
  PROVE  CacheInvariant'
<1>1. /\ CacheTypeOK /\ Dated(store) /\ Without(store, superseded)
      /\ DoneWrites \subseteq 1 .. writes
  BY DoneNumbers DEF CacheInvariant
<1>2. /\ store \in [Keys -> Entries] /\ Entries \subseteq Entries'
      /\ NoEntry \in Entries /\ clock \in Nat /\ writes \in Nat
  BY <1>1 DEF CacheTypeOK, Entries, NoEntry, Nil
<1>3. usingFallback' = TRUE
  BY DEF SwitchToFallback
<1>4. CASE o.kind = "get" /\ FallbackGet(o)
  <2> DEFINE e == store[o.key]
  <2>1. e \in Entries /\ e.value \in 0 .. writes /\ e.expiry \in Nat
    BY <1>2 DEF Entries
  <2>2. op' \in [Tasks -> {op[u] : u \in Tasks} \cup {NoOp}]
        /\ \A u \in Tasks : op'[u] # NoOp => op'[u] = op[u]
    BY DEF OthersStay
  <2>3. CASE e = NoEntry \/ Expired(e)
    <3>1. store' = [store EXCEPT ![o.key] = NoEntry] /\ Answer(o, 0)
      BY <1>4, <2>3 DEF FallbackGet, Nil
    <3>2. 0 \notin o.stale
      BY <1>1, <1>4
    <3> QED
      BY <1>2, <1>3, <1>4, <2>2, <3>1, <3>2, AnswerKeeps
  <2>4. CASE ~(e = NoEntry \/ Expired(e))
    <3>1. UNCHANGED store /\ Answer(o, e.value)
      BY <1>4, <2>4 DEF FallbackGet
    <3>2. e.value \notin o.stale
      <4>1. CASE Without(store, o.stale)
        BY <4>1 DEF Without
      <4>2. CASE o.stale = StaleNow
        <5>1. e.value \notin superseded
          BY <1>1 DEF Without
        <5>2. ASSUME NEW d \in done, d.write = e.value, d.until < clock
              PROVE  FALSE
          <6>1. e.expiry <= d.until /\ d.until \in Nat
            BY <1>1, <5>2 DEF Dated, CacheTypeOK
          <6>2. clock > e.expiry
            BY <1>2, <2>1, <5>2, <6>1
          <6> QED
            BY <2>4, <6>2 DEF Expired
        <5> QED
          BY <4>2, <5>1, <5>2 DEF StaleNow, ExpiredWrites
      <4> QED
        BY <1>4, <4>1, <4>2
    <3> QED
      BY <1>2, <1>3, <1>4, <2>2, <3>1, <3>2, AnswerKeeps
  <2> QED
    BY <2>3, <2>4
<1>5. ASSUME o.kind \in {"put", "invalidate"}, Complete(o),
             NEW e \in {NoEntry, [value |-> o.write, expiry |-> clock + o.ttl]},
             store' = [store EXCEPT ![o.key] = e]
      PROVE  CacheInvariant'
  <2>1. NewWrite(o)
    BY <1>5
  <2>2. e \in Entries' /\ (e.value = 0 \/ e.value = o.write)
    BY <1>2, <1>5, <2>1 DEF NewWrite, Entries, NoEntry, Nil
  <2>3. store' \in [Keys -> Entries']
    BY <1>2, <1>5, <2>2
  <2>4. \A k \in Keys : store'[k] = IF k = o.key THEN e ELSE store[k]
    BY <1>2, <1>5
  <2>5. ASSUME NEW k \in Keys, store'[k].value \in o.before
        PROVE  FALSE
    <3>1. PICK d \in done : d.write = store'[k].value /\ d.key = o.key
      BY <2>1, <2>5 DEF NewWrite, Completed
    <3>2. d.write \in DoneWrites
      BY <3>1 DEF DoneWrites
    <3>3. k = o.key
      <4>1. SUFFICES ASSUME k # o.key PROVE FALSE
        OBVIOUS
      <4>2. d.write = store[k].value
        BY <2>4, <3>1, <4>1
      <4> QED
        BY <1>1, <3>1, <4>1, <4>2 DEF Dated
    <3>4. store'[k].value = 0 \/ store'[k].value = o.write
      BY <2>2, <2>4, <3>3
    <3> QED
      BY <1>1, <2>1, <3>1, <3>2, <3>4 DEF NewWrite
  <2>6. Without(store', o.before)
    BY <2>5 DEF Without
  <2>7. \A k \in Keys : store'[k] = store[k] \/
           (k = o.key /\ store'[k] \in {NoEntry, [value |-> o.write, expiry |-> clock + o.ttl]})
    BY <1>5, <2>4
  <2> QED
    BY <1>3, <1>5, <2>1, <2>3, <2>6, <2>7, CompletionKeeps
<1>6. CASE o.kind = "put" /\ FallbackPut(o)
  BY <1>5, <1>6 DEF FallbackPut
<1>7. CASE o.kind = "invalidate" /\ FallbackInvalidate(o)
  BY <1>5, <1>7 DEF FallbackInvalidate
<1> QED
  BY <1>4, <1>6, <1>7 DEF Fallback

(* A call: what it asks for, what it must not answer and what it supersedes *)
(* is fixed here, before it is sent.                                       *)
LEMMA CallKeeps ==
  ASSUME CacheInvariant, NEW t \in Tasks, NEW o, Call(t, o),
         \/ o \in SentGets /\ o.stale = StaleNow /\ UNCHANGED writes
         \/ /\ o \in WriteOps' /\ o.pc = "sent" /\ o.write = writes + 1 /\ writes' = writes + 1
            /\ o.before = {d.write : d \in {e \in done : e.key = o.key}}
  PROVE  CacheInvariant'
<1>1. /\ CacheTypeOK /\ CallsOK /\ OneCallEach /\ Dated(redis) /\ Dated(store)
      /\ superseded \subseteq DoneWrites /\ Without(store, superseded) /\ servedStale = {}
      /\ DoneWrites \subseteq 1 .. writes
  BY DoneNumbers DEF CacheInvariant
<1>2. /\ writes \in Nat /\ writes' \in Nat /\ writes <= writes' /\ clock \in Nat
      /\ redis \in [Keys -> Entries] /\ store \in [Keys -> Entries]
      /\ op \in [Tasks -> {NoOp} \cup SentGets \cup ExecutedGets \cup WriteOps]
      /\ done \subseteq [write : 1 .. writes, key : Keys, until : Nat]
  BY <1>1 DEF CacheTypeOK
<1>3. StaleNow \subseteq DoneWrites
  BY <1>1 DEF StaleNow, ExpiredWrites, DoneWrites
<1>4. \A k \in Keys : redis[k].value \in 0 .. writes /\ store[k].value \in 0 .. writes
                      /\ redis[k].expiry \in Nat
  BY <1>2 DEF Entries
<1>5. \A u \in Tasks : op[u] \in WriteOps => op[u].write \in 1 .. writes
  BY DEF WriteOps
<1>6. /\ o.key \in Keys
      /\ o \in SentGets => o.kind = "get"
      /\ o \in WriteOps' => o.kind \in {"put", "invalidate"}
  BY DEF SentGets, WriteOps
<1>7. CASE usingFallback \/ ~clientOpen
  <2>1. /\ Fallback(o) /\ SwitchToFallback /\ UNCHANGED <<op, redis, clock>>
    BY <1>7 DEF Call
  <2>2. OthersStay
    BY <1>2, <2>1 DEF OthersStay
  <2>3. CASE o \in SentGets /\ o.stale = StaleNow /\ UNCHANGED writes
    BY <1>2, <1>3, <1>6, <2>1, <2>2, <2>3, FallbackKeeps
  <2>4. CASE /\ o \in WriteOps' /\ o.write = writes + 1 /\ writes' = writes + 1
             /\ o.before = {d.write : d \in {e \in done : e.key = o.key}}
    <3>1. o.ttl \in Nat /\ o.write \in 1 .. writes' /\ o.write > writes
      BY <1>2, <2>4 DEF WriteOps
    <3>2. o.write \notin DoneWrites /\ \A w \in o.before : Completed(w, o.key)
      BY <1>1, <1>2, <2>4, <3>1 DEF Completed
    <3>3. NewWrite(o)
      BY <1>2, <1>4, <1>5, <1>6, <3>1, <3>2 DEF NewWrite
    <3> QED
      BY <1>2, <1>6, <2>1, <2>2, <2>4, <3>3, FallbackKeeps
  <2> QED
    BY <2>3, <2>4
<1>8. CASE ~(usingFallback \/ ~clientOpen)
  <2>1. /\ op' = [op EXCEPT ![t] = o]
        /\ UNCHANGED <<usingFallback, store, done, superseded, servedStale, redis, clock>>
        /\ ~usingFallback
    BY <1>8 DEF Call
  <2>2. /\ \A k \in Keys : store[k] = NoEntry
        /\ Without(redis, superseded)
    BY <2>1 DEF CacheInvariant
  <2>3. op'[t] = o /\ \A u \in Tasks : u # t => op'[u] = op[u]
    BY <1>2, <2>1
  <2>4. /\ SentGets' = SentGets /\ ExecutedGets \subseteq ExecutedGets' /\ WriteOps \subseteq WriteOps'
        /\ Entries \subseteq Entries'
    BY <1>2 DEF SentGets, ExecutedGets, WriteOps, Entries
  <2>5. CacheTypeOK'
    <3>1. op' \in [Tasks -> {NoOp} \cup SentGets' \cup ExecutedGets' \cup WriteOps']
      BY <1>2, <2>1, <2>4
    <3>2. redis' \in [Keys -> Entries'] /\ store' \in [Keys -> Entries']
      BY <1>2, <2>1, <2>4
    <3>3. done' \subseteq [write : 1 .. writes', key : Keys, until : Nat]
      BY <1>2, <2>1
    <3>4. usingFallback' \in BOOLEAN
      BY <1>1, <2>1 DEF CacheTypeOK
    <3> QED
      BY <1>2, <2>1, <3>1, <3>2, <3>3, <3>4 DEF CacheTypeOK
  <2>6. /\ DoneWrites' = DoneWrites
        /\ \A w, k : Completed(w, k)' <=> Completed(w, k)
    BY <2>1 DEF DoneWrites, Completed
  <2>7. /\ \A p : GetOK(p)' <=> GetOK(p)
        /\ \A p : WriteOK(p)' <=> WriteOK(p)
    BY <2>1, <2>6 DEF GetOK, WriteOK, Without
  <2>8. \A k \in Keys : store[k].value = 0
    BY <2>2 DEF NoEntry, Nil
  <2>9. o \in SentGets => GetOK(o)
    <3>1. SUFFICES ASSUME o \in SentGets PROVE GetOK(o)
      OBVIOUS
    <3>2. o.stale = StaleNow /\ o.pc = "sent"
      BY <3>1, <1>6, Shapes DEF WriteOps
    <3>3. ASSUME redis[o.key].value \in o.stale
          PROVE  redis[o.key].expiry <= clock
      <4>1. PICK d \in done : d.write = redis[o.key].value /\ d.until < clock
        BY <1>6, <2>2, <3>2, <3>3 DEF StaleNow, ExpiredWrites, Without
      <4>2. redis[o.key].expiry <= d.until /\ d.until \in Nat
        BY <1>1, <1>2, <1>6, <4>1 DEF Dated
      <4> QED
        BY <1>2, <1>4, <1>6, <4>1, <4>2
    <3> QED
      BY <1>1, <1>3, <2>8, <3>2, <3>3 DEF GetOK, Without
  <2>10. o \in WriteOps' => WriteOK(o) /\ o.write > writes
    <3>1. SUFFICES ASSUME o \in WriteOps' PROVE WriteOK(o) /\ o.write > writes
      OBVIOUS
    <3>2. /\ o.pc = "sent" /\ o.write = writes + 1
          /\ o.before = {d.write : d \in {e \in done : e.key = o.key}}
      BY <1>6, <3>1
    <3>3. o.write \notin DoneWrites /\ o.before \subseteq DoneWrites
          /\ \A w \in o.before : Completed(w, o.key)
      BY <1>1, <1>2, <3>2 DEF Completed, DoneWrites
    <3>4. \A k \in Keys : redis[k].value # o.write
      BY <1>2, <1>4, <3>2
    <3>5. Without(store, o.before \cup {o.write})
      BY <1>1, <1>2, <2>8, <3>2, <3>3 DEF Without
    <3> QED
      BY <1>2, <3>2, <3>3, <3>4, <3>5 DEF WriteOK
  <2>11. ASSUME NEW u \in Tasks, u # t
         PROVE  /\ (op[u] \in SentGets \cup ExecutedGets)' => op[u] \in SentGets \cup ExecutedGets
                /\ (op[u] \in WriteOps)' => op[u] \in WriteOps
    <3>1. op'[u] = op[u] /\ op[u] \in {NoOp} \cup SentGets \cup ExecutedGets \cup WriteOps
      BY <1>2, <2>3, <2>11
    <3> QED
      BY <3>1 DEF SentGets, ExecutedGets, WriteOps, NoOp
  <2>12. CallsOK'
    <3>1. /\ (op[t] \in SentGets \cup ExecutedGets)' => GetOK(op[t])'
          /\ (op[t] \in WriteOps)' => WriteOK(op[t])'
      <4>1. ASSUME (op[t] \in SentGets \cup ExecutedGets)' PROVE GetOK(o)'
        <5>1. o \in SentGets
          BY <1>6, <2>3, <4>1 DEF SentGets, ExecutedGets
        <5> QED
          BY <2>7, <2>9, <5>1
      <4>2. ASSUME (op[t] \in WriteOps)' PROVE WriteOK(o)'
        BY <2>3, <2>7, <2>10, <4>2
      <4> QED
        BY <2>3, <4>1, <4>2
    <3>2. ASSUME NEW u \in Tasks, u # t
          PROVE  /\ (op[u] \in SentGets \cup ExecutedGets)' => GetOK(op[u])'
                 /\ (op[u] \in WriteOps)' => WriteOK(op[u])'
      BY <1>1, <2>3, <2>7, <2>11, <3>2 DEF CallsOK
    <3> QED
      BY <3>1, <3>2 DEF CallsOK
  <2>13. OneCallEach'
    <3>1. ASSUME NEW u \in Tasks, u # t, (op[u] \in WriteOps)'
          PROVE  op'[u] = op[u] /\ op[u] \in WriteOps /\ op[u].write \in 1 .. writes
      BY <1>5, <2>3, <2>11, <3>1
    <3>2. (op[t] \in WriteOps)' => op'[t].write > writes
      BY <2>3, <2>10
    <3>3. ASSUME NEW u \in Tasks, NEW v \in Tasks, (op[u] \in WriteOps)', (op[v] \in WriteOps)',
                 op'[u].write = op'[v].write
          PROVE  u = v
      <4>1. CASE u = t /\ v # t
        BY <1>2, <3>1, <3>2, <3>3, <4>1
      <4>2. CASE u # t /\ v = t
        BY <1>2, <3>1, <3>2, <3>3, <4>2
      <4>3. CASE u # t /\ v # t
        BY <1>1, <3>1, <3>3, <4>3 DEF OneCallEach
      <4> QED
        BY <4>1, <4>2, <4>3
    <3> QED
      BY <3>3 DEF OneCallEach
  <2>14. /\ Dated(redis)' /\ Dated(store)' /\ superseded' \subseteq DoneWrites'
         /\ Without(store, superseded)' /\ Without(redis, superseded)'
         /\ \A k \in Keys : store'[k] = NoEntry
         /\ servedStale' = {}
    BY <1>1, <2>1, <2>2, <2>6 DEF Dated, Without
  <2> QED
    BY <2>5, <2>12, <2>13, <2>14 DEF CacheInvariant
<1> QED
  BY <1>7, <1>8

(* What an operation on its way may count on when it ends.                 *)
LEMMA OnItsWay ==
  ASSUME CacheInvariant, NEW t \in Tasks, ~Idle(t), op' = [op EXCEPT ![t] = NoOp],
         UNCHANGED writes
  PROVE  /\ OthersStay
         /\ op[t] \in SentGets \cup ExecutedGets \cup WriteOps
         /\ op[t] \in SentGets \cup ExecutedGets => op[t].kind = "get" /\ GetOK(op[t])
         /\ op[t] \in WriteOps => /\ op[t].kind \in {"put", "invalidate"} /\ WriteOK(op[t])
                                 /\ NewWrite(op[t])
<1>1. /\ CacheTypeOK /\ CallsOK /\ OneCallEach
      /\ op \in [Tasks -> {NoOp} \cup SentGets \cup ExecutedGets \cup WriteOps]
      /\ clock \in Nat
  BY DEF CacheInvariant, CacheTypeOK
<1>2. op[t] \in SentGets \cup ExecutedGets \cup WriteOps
  BY <1>1 DEF Idle
<1>3. OthersStay
  BY <1>1 DEF OthersStay
<1>4. op[t] \in SentGets \cup ExecutedGets => op[t].kind = "get" /\ GetOK(op[t])
  BY <1>1, Shapes DEF CallsOK
<1>5. ASSUME op[t] \in WriteOps
      PROVE  /\ op[t].kind \in {"put", "invalidate"} /\ WriteOK(op[t])
             /\ NewWrite(op[t])
  <2>1. op[t].kind \in {"put", "invalidate"} /\ WriteOK(op[t])
    BY <1>1, <1>5, Shapes DEF CallsOK
  <2>2. op[t].key \in Keys /\ op[t].ttl \in Nat /\ op[t].write \in 1 .. writes
    BY <1>5 DEF WriteOps
  <2>3. \A k \in Keys : store[k].value # op[t].write
    BY <2>1 DEF WriteOK, Without
  <2>4. ASSUME NEW u \in Tasks, op'[u] # NoOp, op[u] \in WriteOps
        PROVE  op[u].write # op[t].write
    <3>1. u # t
      BY <1>1, <2>4
    <3> QED
      BY <1>1, <1>5, <2>4, <3>1 DEF OneCallEach
  <2> QED
    BY <2>1, <2>2, <2>3, <2>4 DEF NewWrite, WriteOK
<1> QED
  BY <1>2, <1>3, <1>4, <1>5

(* The exception of an await, whatever became of the command.              *)
LEMMA FailureKeeps ==
  ASSUME CacheInvariant, NEW t \in Tasks, RedisFails(t)
  PROVE  CacheInvariant'
<1> DEFINE o == op[t]
<1>1. /\ ~Idle(t) /\ SwitchToFallback /\ Fallback(o)
      /\ op' = [op EXCEPT ![t] = NoOp]
      /\ UNCHANGED <<redis, clock, writes>>
  BY DEF RedisFails
<1>2. /\ OthersStay
      /\ o \in SentGets \cup ExecutedGets \cup WriteOps
      /\ o \in SentGets \cup ExecutedGets => o.kind = "get" /\ GetOK(o)
      /\ o \in WriteOps => o.kind \in {"put", "invalidate"} /\ NewWrite(o)
  BY <1>1, OnItsWay
<1>3. writes \in Nat /\ writes' \in Nat /\ writes <= writes'
  BY <1>1 DEF CacheInvariant, CacheTypeOK
<1>4. o.key \in Keys
  BY <1>2 DEF SentGets, ExecutedGets, WriteOps
<1> HIDE DEF o
<1>5. o.kind = "get" => o.stale \subseteq DoneWrites /\ Without(store, o.stale)
  BY <1>2 DEF GetOK
<1>6. o.kind \in {"put", "invalidate"} => NewWrite(o)
  BY <1>2
<1> QED
  BY <1>1, <1>2, <1>3, <1>4, <1>5, <1>6, FallbackKeeps

(* The answer of Redis.                                                    *)
LEMMA ReplyKeeps ==
  ASSUME CacheInvariant, NEW t \in Tasks, RedisAnswers(t)
  PROVE  CacheInvariant'
<1> DEFINE o == op[t]
<1>1. /\ ~Idle(t) /\ o.pc = "executed"
      /\ IF o.kind = "get" THEN Answer(o, o.value) ELSE Complete(o)
      /\ op' = [op EXCEPT ![t] = NoOp]
      /\ UNCHANGED <<usingFallback, store, redis, clock, writes>>
  BY DEF RedisAnswers
<1>2. /\ OthersStay
      /\ o \in SentGets \cup ExecutedGets \cup WriteOps
      /\ o \in SentGets \cup ExecutedGets => o.kind = "get" /\ GetOK(o)
      /\ o \in WriteOps => o.kind \in {"put", "invalidate"} /\ WriteOK(o) /\ NewWrite(o)
  BY <1>1, OnItsWay
<1>3. /\ writes \in Nat /\ writes' \in Nat /\ writes <= writes'
      /\ store' \in [Keys -> Entries] /\ Entries' = Entries /\ usingFallback' \in BOOLEAN
  BY <1>1 DEF CacheInvariant, CacheTypeOK, Entries
<1> HIDE DEF o
<1>4. CASE o \in SentGets \cup ExecutedGets
  <2>1. o.value \notin o.stale /\ Answer(o, o.value)
    BY <1>1, <1>2, <1>4 DEF GetOK
  <2>2. /\ op' \in [Tasks -> {op[u] : u \in Tasks} \cup {NoOp}]
        /\ \A u \in Tasks : op'[u] # NoOp => op'[u] = op[u]
    BY <1>2 DEF OthersStay
  <2>3. PICK v : v = o.value
    OBVIOUS
  <2>4. v \notin o.stale /\ Answer(o, v)
    BY <2>1, <2>3
  <2> QED
    BY <1>1, <1>3, <2>2, <2>4, AnswerKeeps
<1>5. CASE o \in WriteOps
  <2>1. NewWrite(o) /\ WriteOK(o) /\ Complete(o)
    BY <1>1, <1>2, <1>5
  <2>2. Without(store', o.before)
    BY <1>1, <2>1 DEF WriteOK, Without
  <2>3. redis[o.key].value \notin o.before
    BY <1>1, <2>1 DEF WriteOK
  <2> QED
    BY <1>1, <1>2, <1>3, <2>1, <2>2, <2>3, CompletionKeeps
<1> QED
  BY <1>2, <1>4, <1>5

(* A step that replaces the record of one operation on its way by another  *)
(* of its kind, and what Redis holds for one key by nothing completed.     *)
LEMMA ExecutionKeeps ==
  ASSUME CacheInvariant, NEW t \in Tasks, NEW n,
         op' = [op EXCEPT ![t] = n],
         UNCHANGED <<usingFallback, store, clock, writes, done, superseded, servedStale>>,
         redis' \in [Keys -> Entries],
         \A k \in Keys : redis'[k] # redis[k] => redis'[k].value \notin DoneWrites,
         \A u \in Tasks : u # t /\ op[u] \in WriteOps =>
           \A k \in Keys : redis'[k].value = op[u].write => redis'[k] = redis[k],
         \/ n \in ExecutedGets /\ GetOK(n)'
         \/ n \in WriteOps /\ WriteOK(n)' /\ op[t] \in WriteOps /\ n.write = op[t].write
  PROVE  CacheInvariant'
<1>1. /\ CacheTypeOK /\ CallsOK /\ OneCallEach /\ Dated(redis) /\ Dated(store)
      /\ superseded \subseteq DoneWrites /\ Without(store, superseded) /\ servedStale = {}
      /\ DoneWrites \subseteq 1 .. writes
  BY DoneNumbers DEF CacheInvariant
<1>2. /\ SentGets' = SentGets /\ ExecutedGets' = ExecutedGets /\ WriteOps' = WriteOps
      /\ Entries' = Entries
  BY DEF SentGets, ExecutedGets, WriteOps, Entries
<1>3. /\ DoneWrites' = DoneWrites
      /\ \A w, k : Completed(w, k)' <=> Completed(w, k)
  BY DEF DoneWrites, Completed
<1>4. /\ op'[t] = n /\ \A u \in Tasks : u # t => op'[u] = op[u]
      /\ op' \in [Tasks -> {NoOp} \cup SentGets \cup ExecutedGets \cup WriteOps]
  BY <1>1 DEF CacheTypeOK
<1>5. CacheTypeOK'
  BY <1>1, <1>2, <1>4 DEF CacheTypeOK
<1>6. ASSUME NEW u \in Tasks, u # t, op[u] \in SentGets \cup ExecutedGets
      PROVE  GetOK(op[u])'
  <2>1. GetOK(op[u]) /\ op[u].key \in Keys /\ op'[u] = op[u]
    BY <1>1, <1>4, <1>6 DEF CallsOK, SentGets, ExecutedGets
  <2> QED
    BY <1>3, <1>4, <1>6, <2>1 DEF GetOK, Without
<1>7. ASSUME NEW u \in Tasks, u # t, op[u] \in WriteOps
      PROVE  WriteOK(op[u])'
  <2>1. WriteOK(op[u]) /\ op[u].key \in Keys /\ op'[u] = op[u]
    BY <1>1, <1>4, <1>7 DEF CallsOK, WriteOps
  <2>2. op[u].before \subseteq DoneWrites
    BY <1>1, <2>1, DoneNumbers DEF WriteOK
  <2>3. op[u].pc = "executed" => redis'[op[u].key].value \notin op[u].before
    BY <2>1, <2>2 DEF WriteOK
  <2>4. \A k \in Keys : redis'[k].value = op[u].write =>
          op[u].pc = "executed" /\ k = op[u].key /\ redis'[k].expiry <= clock + op[u].ttl
    BY <1>7, <2>1 DEF WriteOK
  <2> QED
    BY <1>3, <2>1, <2>3, <2>4 DEF WriteOK, Without
<1>8. CallsOK'
  <2>1. \A u \in Tasks : (op[u] \in SentGets \cup ExecutedGets)' => GetOK(op[u])'
    <3>1. n \in WriteOps => n \notin SentGets \cup ExecutedGets
      BY Shapes
    <3> QED
      BY <1>2, <1>4, <1>6, <3>1
  <2>2. \A u \in Tasks : (op[u] \in WriteOps)' => WriteOK(op[u])'
    <3>1. n \in ExecutedGets => n \notin WriteOps
      BY Shapes
    <3> QED
      BY <1>2, <1>4, <1>7, <3>1
  <2> QED
    BY <2>1, <2>2 DEF CallsOK
<1>9. OneCallEach'
  <2>1. \A u \in Tasks : (op[u] \in WriteOps)' => op[u] \in WriteOps /\ op'[u].write = op[u].write
    BY <1>2, <1>4, Shapes
  <2> QED
    BY <1>1, <2>1 DEF OneCallEach
<1>10. Dated(redis)' /\ Dated(store)'
  <2>1. ASSUME NEW k \in Keys, NEW d \in done, d.write = redis'[k].value
        PROVE  d.key = k /\ redis'[k].expiry <= d.until
    BY <1>1, <2>1 DEF Dated, DoneWrites
  <2> QED
    BY <1>1, <2>1 DEF Dated
<1>11. Without(store, superseded)'
  BY <1>1 DEF Without
<1>12. ~usingFallback' => Without(redis, superseded)' /\ \A k \in Keys : store'[k] = NoEntry
  BY <1>1 DEF CacheInvariant, Without
<1> QED
  BY <1>1, <1>3, <1>5, <1>8, <1>9, <1>10, <1>11, <1>12 DEF CacheInvariant

(* Redis executes a command.                                               *)
LEMMA ExecutesKeeps ==
  ASSUME CacheInvariant, NEW t \in Tasks, RedisExecutes(t)
  PROVE  CacheInvariant'
<1> DEFINE o == op[t]
<1>1. /\ o # NoOp /\ o.pc = "sent"
      /\ UNCHANGED <<usingFallback, store, clock, writes, done, superseded, servedStale>>
  BY DEF RedisExecutes, Idle
<1>2. /\ CacheTypeOK /\ CallsOK /\ OneCallEach
      /\ DoneWrites \subseteq 1 .. writes /\ writes \in Nat /\ clock \in Nat
      /\ redis \in [Keys -> Entries]
      /\ op \in [Tasks -> {NoOp} \cup SentGets \cup ExecutedGets \cup WriteOps]
  BY DoneNumbers DEF CacheInvariant, CacheTypeOK
<1>3. /\ DoneWrites' = DoneWrites
      /\ \A w, k : Completed(w, k)' <=> Completed(w, k)
  BY <1>1 DEF DoneWrites, Completed
<1>4. o \in SentGets \cup WriteOps /\ o.key \in Keys
  BY <1>1, <1>2 DEF SentGets, ExecutedGets, WriteOps
<1>5. \A k \in Keys : redis[k] \in Entries /\ redis[k].value \in 0 .. writes
                      /\ redis[k].expiry \in Nat
  BY <1>2 DEF Entries
<1>6. CASE o.kind = "get"
  <2> DEFINE value == IF redis[o.key].expiry > clock THEN redis[o.key].value ELSE Nil
             n == [kind |-> "get", key |-> o.key, stale |-> o.stale, pc |-> "executed",
                   value |-> value]
  <2>1. op' = [op EXCEPT ![t] = n] /\ UNCHANGED redis
    BY <1>6 DEF RedisExecutes
  <2>2. o \in SentGets /\ GetOK(o)
    BY <1>2, <1>4, <1>6, Shapes DEF CallsOK
  <2>3. value \in 0 .. writes /\ value \notin o.stale
    BY <1>1, <1>2, <1>4, <1>5, <2>2 DEF GetOK, Nil
  <2> HIDE DEF value
  <2>4. n \in ExecutedGets
    BY <1>4, <2>2, <2>3 DEF SentGets, ExecutedGets
  <2>5. PICK m : m = n
    OBVIOUS
  <2>6. GetOK(m)'
    <3>1. m.stale = o.stale /\ m.pc = "executed" /\ m.value = value
      BY <2>5
    <3> QED
      BY <1>1, <1>3, <2>2, <2>3, <3>1 DEF GetOK, Without
  <2>7. op' = [op EXCEPT ![t] = m] /\ m \in ExecutedGets
    BY <2>1, <2>4, <2>5
  <2> HIDE DEF n, o
  <2> QED
    BY <1>1, <1>2, <2>1, <2>6, <2>7, ExecutionKeeps
<1>7. ASSUME o.kind \in {"put", "invalidate"}, op' = [op EXCEPT ![t].pc = "executed"],
             NEW e \in {NoEntry, [value |-> o.write, expiry |-> clock + o.ttl]},
             redis' = [redis EXCEPT ![o.key] = e]
      PROVE  CacheInvariant'
  <2>1. o \in WriteOps /\ WriteOK(o)
    BY <1>2, <1>4, <1>7, Shapes DEF CallsOK
  <2>2. /\ o.ttl \in Nat /\ o.write \in 1 .. writes /\ o.before \subseteq DoneWrites
        /\ o.write \notin DoneWrites
    BY <1>2, <2>1, DoneNumbers DEF WriteOps, WriteOK
  <2>3. /\ e \in Entries /\ e.value \notin DoneWrites
        /\ e.value = 0 \/ (e.value = o.write /\ e.expiry = clock + o.ttl)
    BY <1>2, <2>2 DEF Entries, NoEntry, Nil
  <2>4. PICK n : n = [o EXCEPT !.pc = "executed"]
    OBVIOUS
  <2>5. /\ n \in WriteOps /\ n.pc = "executed" /\ n.write = o.write /\ n.key = o.key
        /\ n.ttl = o.ttl /\ n.before = o.before
    BY <2>1, <2>4 DEF WriteOps
  <2>6. op' = [op EXCEPT ![t] = n]
    BY <1>7, <2>4
  <2>7. redis' \in [Keys -> Entries] /\ \A k \in Keys : redis'[k] = IF k = o.key THEN e ELSE redis[k]
    BY <1>2, <1>7, <2>3
  <2>8. WriteOK(n)'
    <3>1. \A k \in Keys : redis'[k].value = n.write => k = n.key /\ redis'[k].expiry <= clock + n.ttl
      <4>1. ASSUME NEW k \in Keys, redis'[k].value = n.write
            PROVE  k = n.key /\ redis'[k].expiry <= clock + n.ttl
        <5>1. k = o.key
          BY <1>1, <2>1, <2>5, <2>7, <4>1 DEF WriteOK
        <5>2. redis'[k] = e /\ e.value # 0
          BY <2>2, <2>5, <2>7, <4>1, <5>1
        <5> QED
          BY <1>2, <2>2, <2>3, <2>5, <5>1, <5>2
      <4> QED
        BY <4>1
    <3>2. redis'[n.key].value \notin n.before
      BY <1>4, <2>2, <2>3, <2>5, <2>7
    <3> QED
      BY <1>1, <1>3, <2>1, <2>5, <3>1, <3>2 DEF WriteOK, Without
  <2>9. ASSUME NEW u \in Tasks, u # t, op[u] \in WriteOps, NEW k \in Keys,
               redis'[k].value = op[u].write
        PROVE  redis'[k] = redis[k]
    <3>1. op[u].write # o.write
      BY <1>2, <2>1, <2>9 DEF OneCallEach
    <3>2. op[u].write \in 1 .. writes
      BY <2>9 DEF WriteOps
    <3> QED
      BY <1>2, <2>3, <2>7, <2>9, <3>1, <3>2
  <2>10. \A k \in Keys : redis'[k] # redis[k] => redis'[k].value \notin DoneWrites
    BY <2>3, <2>7
  <2>11. n.write = op[t].write /\ op[t] \in WriteOps
    BY <2>1, <2>5
  <2> HIDE DEF o
  <2> QED
    BY <1>1, <2>5, <2>6, <2>7, <2>8, <2>9, <2>10, <2>11, ExecutionKeeps
<1>8. CASE o.kind = "put"
  <2>1. /\ redis' = [redis EXCEPT ![o.key] = [value |-> o.write, expiry |-> clock + o.ttl]]
        /\ op' = [op EXCEPT ![t].pc = "executed"]
    BY <1>8 DEF RedisExecutes
  <2> QED
    BY <1>7, <1>8, <2>1
<1>9. CASE o.kind = "invalidate"
  <2>1. /\ redis' = [redis EXCEPT ![o.key] = NoEntry]
        /\ op' = [op EXCEPT ![t].pc = "executed"]
    BY <1>9 DEF RedisExecutes
  <2> QED
    BY <1>7, <1>9, <2>1
<1> QED
  BY <1>4, <1>6, <1>8, <1>9, Shapes

(* Time passes: what was dead stays dead.                                  *)
LEMMA TickKeeps ==
  ASSUME CacheInvariant, Tick
  PROVE  CacheInvariant'
<1>1. /\ clock \in Nat /\ clock' = clock + 1
      /\ UNCHANGED <<usingFallback, clientOpen, store, redis, op, writes, done,
                     superseded, servedStale>>
  BY DEF Tick, CacheInvariant, CacheTypeOK
<1>2. /\ SentGets' = SentGets /\ ExecutedGets' = ExecutedGets /\ WriteOps' = WriteOps
      /\ Entries' = Entries /\ DoneWrites' = DoneWrites
      /\ \A w, k : Completed(w, k)' <=> Completed(w, k)
  BY <1>1 DEF SentGets, ExecutedGets, WriteOps, Entries, DoneWrites, Completed
<1>3. \A k \in Keys : redis[k].expiry \in Nat
  BY DEF CacheInvariant, CacheTypeOK, Entries
<1>4. CacheTypeOK'
  BY <1>1, <1>2 DEF CacheInvariant, CacheTypeOK
<1>5. ASSUME NEW t \in Tasks, op[t] \in SentGets \cup ExecutedGets
      PROVE  GetOK(op[t])'
  <2>1. GetOK(op[t]) /\ op[t].key \in Keys
    BY <1>5 DEF CacheInvariant, CallsOK, SentGets, ExecutedGets
  <2> QED
    BY <1>1, <1>2, <1>3, <2>1 DEF GetOK, Without
<1>6. ASSUME NEW t \in Tasks, op[t] \in WriteOps
      PROVE  WriteOK(op[t])'
  <2>1. WriteOK(op[t]) /\ op[t].key \in Keys /\ op[t].ttl \in Nat
    BY <1>6 DEF CacheInvariant, CallsOK, WriteOps
  <2> QED
    BY <1>1, <1>2, <1>3, <2>1 DEF WriteOK, Without
<1>7. CallsOK' /\ OneCallEach'
  BY <1>1, <1>2, <1>5, <1>6 DEF CacheInvariant, CallsOK, OneCallEach
<1> QED
  BY <1>1, <1>2, <1>4, <1>7 DEF CacheInvariant, Dated, Without

(* Every step preserves the invariant.                                     *)
LEMMA NextCache == CacheInvariant /\ [CacheNext]_cacheVars => CacheInvariant'
<1> SUFFICES ASSUME CacheInvariant, [CacheNext]_cacheVars PROVE CacheInvariant'
  OBVIOUS
<1>0. writes \in Nat
  BY DEF CacheInvariant, CacheTypeOK
<1>1. ASSUME NEW t \in Tasks, NEW k \in Keys, Get(t, k)
      PROVE  CacheInvariant'
  <2>1. PICK o : o = [kind |-> "get", key |-> k, stale |-> StaleNow, pc |-> "sent"]
    OBVIOUS
  <2>2. Call(t, o) /\ UNCHANGED writes
    BY <1>1, <2>1 DEF Get
  <2>3. StaleNow \in SUBSET Nat
    BY DoneNumbers DEF StaleNow, ExpiredWrites, CacheInvariant, CacheTypeOK
  <2>4. o \in SentGets /\ o.stale = StaleNow
    BY <2>1, <2>3 DEF SentGets
  <2> QED
    BY <2>2, <2>4, CallKeeps
<1>2. ASSUME NEW t \in Tasks, NEW k \in Keys, NEW ttl \in Nat, NEW kind \in {"put", "invalidate"},
             Write(t, kind, k, ttl)
      PROVE  CacheInvariant'
  <2> DEFINE before == {d.write : d \in {e \in done : e.key = k}}
  <2>1. PICK o : o = [kind |-> kind, key |-> k, ttl |-> ttl, write |-> writes',
                      before |-> before, pc |-> "sent"]
    OBVIOUS
  <2>2. Call(t, o) /\ writes' = writes + 1
    BY <1>2, <2>1 DEF Write
  <2>3. before \in SUBSET Nat
    BY DEF CacheInvariant, CacheTypeOK
  <2>4. o.key = k /\ o.before = before /\ o.pc = "sent" /\ o.write = writes + 1
    BY <2>1, <2>2
  <2>5. o \in WriteOps'
    BY <1>0, <2>1, <2>2, <2>3 DEF WriteOps
  <2> QED
    BY <2>2, <2>4, <2>5, CallKeeps
<1>3. ASSUME NEW t \in Tasks, NEW k \in Keys, NEW ttl \in Ttls, Put(t, k, ttl)
      PROVE  CacheInvariant'
  BY <1>2, <1>3, CacheAssumption DEF Put
<1>4. ASSUME NEW t \in Tasks, NEW k \in Keys, Invalidate(t, k)
      PROVE  CacheInvariant'
  BY <1>2, <1>4 DEF Invalidate
<1>5. ASSUME NEW t \in Tasks, RedisExecutes(t) \/ RedisAnswers(t) \/ RedisFails(t)
      PROVE  CacheInvariant'
  BY <1>5, ExecutesKeeps, ReplyKeeps, FailureKeeps
<1>6. ASSUME Close \/ UNCHANGED cacheVars
      PROVE  CacheInvariant'
  BY <1>6 DEF Close, cacheVars, CacheInvariant, CacheTypeOK, CallsOK, OneCallEach, Dated,
     Without, GetOK, WriteOK, Completed, DoneWrites, Entries, SentGets, ExecutedGets, WriteOps
<1> QED
  BY <1>1, <1>3, <1>4, <1>5, <1>6, TickKeeps DEF CacheNext

(* The invariant of the cache holds throughout.                            *)
THEOREM CacheInvariance == CacheSpec => []CacheInvariant
BY InitCache, NextCache, PTL DEF CacheSpec

(* A get never answers with what had been replaced, removed or had run out *)
(* when it began, whatever fails and in whichever order the calls return.  *)
THEOREM AnswersNeverStale == CacheSpec => []NeverStale
<1>1. CacheInvariant => NeverStale
  BY DEF CacheInvariant, NeverStale
<1> QED
  BY <1>1, CacheInvariance, PTL

(* I/O OPTIMIZER *)

(* The steps of write_file, and between two files.                         *)
FlushSteps == {"idle", "next", "opened", "sized", "mapped"}

Flushes == [pc : FlushSteps, pending : [Paths -> Seq(Nat)], closing : BOOLEAN]

IoTyped ==
  /\ queued \in Nat
  /\ writeQueue \in [Paths -> Seq(Nat)]
  /\ latest \in [Paths -> Seq(Nat)]
  /\ shared \in [Paths -> BOOLEAN]
  /\ flush \in [Flushers -> Flushes]
  /\ files = [p \in Paths |-> files[p]]
  /\ prefetchCache = [p \in Paths |-> prefetchCache[p]]
  /\ worker = [w \in Prefetchers |-> worker[w]]
  /\ \A f \in Flushers : flush[f].pc = "idle" => flush[f] = NoFlush

(* The chunks in the queue of a path, and in a batch of a flush.           *)
QueueChunks(p)    == ToSet(writeQueue[p])
FlushChunks(f, p) == ToSet(flush[f].pending[p])

(* A chunk is in one place: the queue of one path, one batch of one flush, *)
(* written, or lost.                                                       *)
OnePlace ==
  /\ written \cup lost \subseteq 1 .. queued
  /\ \A p \in Paths : QueueChunks(p) \subseteq 1 .. queued
  /\ \A f \in Flushers, p \in Paths : FlushChunks(f, p) \subseteq 1 .. queued
  /\ \A c \in 1 .. queued :
       \/ c \in written \cup lost
       \/ \E p \in Paths : c \in QueueChunks(p)
       \/ \E f \in Flushers, p \in Paths : c \in FlushChunks(f, p)
  /\ \A p \in Paths : \A c \in QueueChunks(p) :
       /\ c \notin written \cup lost
       /\ \A q \in Paths : c \in QueueChunks(q) => q = p
       /\ \A f \in Flushers, q \in Paths : c \notin FlushChunks(f, q)
  /\ \A f \in Flushers, p \in Paths : \A c \in FlushChunks(f, p) :
       /\ c \notin written \cup lost
       /\ \A g \in Flushers, q \in Paths : c \in FlushChunks(g, q) => g = f /\ q = p
  /\ written \cap lost = {}

Increasing(batch) == \A i, k \in DOMAIN batch : i < k => batch[i] < batch[k]

InOrder ==
  /\ \A p \in Paths : Increasing(writeQueue[p])
  /\ \A f \in Flushers, p \in Paths : Increasing(flush[f].pending[p])

IoInvariant == IoTyped /\ OnePlace /\ InOrder

(* A flush under way that still has a batch has a next one, of a path.     *)
LEMMA PathChosen ==
  ASSUME NEW pending \in [Paths -> Seq(Nat)], pending # NoneQueued
  PROVE  NextPath(pending) \in Paths /\ pending[NextPath(pending)] # <<>>
<1> DEFINE some == {p \in Paths : pending[p] # <<>>}
           firsts == {pending[p][1] : p \in some}
<1>1. some # {}
  BY DEF NoneQueued
<1>2. \A p \in some : pending[p] \in Seq(Nat) /\ pending[p] # <<>>
  OBVIOUS
<1>3. \A p \in some : pending[p][1] \in Nat
  BY <1>2
<1>4. firsts \in SUBSET Nat /\ firsts # {}
  BY <1>1, <1>3, Zenon
<1>5. \E x \in firsts : \A y \in firsts : x <= y
  <2> HIDE DEF firsts
  <2> QED
    BY <1>4, LeastExists
<1>6. \E p \in Paths : /\ pending[p] # <<>>
                       /\ \A q \in Paths : pending[q] # <<>> => pending[p][1] <= pending[q][1]
  BY <1>5, Zenon
<1> QED
  BY <1>6, Zenon DEF NextPath

(* What a step of a flush in the middle of its batches knows.              *)
LEMMA AtMeans ==
  ASSUME IoTyped, NEW f \in Flushers, NEW pc, At(f, pc)
  PROVE  /\ flush[f].pc = pc /\ flush[f] \in Flushes
         /\ Path(f) \in Paths
         /\ Batch(f) \in Seq(Nat) /\ Batch(f) # <<>>
         /\ Batch(f) = flush[f].pending[Path(f)]
<1>1. flush[f] \in Flushes /\ flush[f].pending \in [Paths -> Seq(Nat)]
  BY DEF IoTyped, Flushes
<1>2. flush[f].pending # NoneQueued /\ flush[f].pc = pc
  BY DEF At
<1> QED
  BY <1>1, <1>2, PathChosen DEF Path, Batch

(* The batches after one was dealt with, and the pc moved on.              *)
LEMMA AfterFile ==
  ASSUME IoTyped, NEW f \in Flushers, Path(f) \in Paths, NextFile(f)
  PROVE  /\ flush' \in [Flushers -> Flushes]
         /\ \A g \in Flushers, p \in Paths :
              flush'[g].pending[p] =
                IF g = f /\ p = Path(f) THEN <<>> ELSE flush[g].pending[p]
         /\ \A g \in Flushers : g # f => flush'[g] = flush[g]
         /\ flush'[f].pc = "next" /\ flush'[f].closing = flush[f].closing
<1>1. PICK q \in Paths : q = Path(f)
  OBVIOUS
<1> DEFINE new == [flush[f].pending EXCEPT ![q] = <<>>]
<1>2. /\ flush \in [Flushers -> Flushes] /\ flush[f] \in Flushes
      /\ flush[f].pending \in [Paths -> Seq(Nat)]
  BY DEF IoTyped, Flushes
<1>3. /\ new \in [Paths -> Seq(Nat)]
      /\ \A p \in Paths : new[p] = IF p = q THEN <<>> ELSE flush[f].pending[p]
  BY <1>2
<1>4. flush' = [flush EXCEPT ![f] = [pc |-> "next", pending |-> new,
                                     closing |-> flush[f].closing]]
  <2>1. flush[f] = [pc |-> flush[f].pc, pending |-> flush[f].pending,
                    closing |-> flush[f].closing]
    BY <1>2 DEF Flushes
  <2>2. flush' = [flush EXCEPT ![f] = [[flush[f] EXCEPT !.pc = "next"]
                                         EXCEPT !.pending = [@ EXCEPT ![q] = <<>>]]]
    BY <1>1, <1>2 DEF NextFile
  <2>3. [flush[f] EXCEPT !.pc = "next"]
          = [pc |-> "next", pending |-> flush[f].pending, closing |-> flush[f].closing]
    BY <2>1
  <2>4. [[pc |-> "next", pending |-> flush[f].pending, closing |-> flush[f].closing]
           EXCEPT !.pending = [@ EXCEPT ![q] = <<>>]]
          = [pc |-> "next", pending |-> new, closing |-> flush[f].closing]
    OBVIOUS
  <2>5. [[flush[f] EXCEPT !.pc = "next"] EXCEPT !.pending = [@ EXCEPT ![q] = <<>>]]
          = [pc |-> "next", pending |-> new, closing |-> flush[f].closing]
    BY <2>3, <2>4
  <2> QED
    BY <2>2, <2>5
<1> HIDE DEF new
<1>5. [pc |-> "next", pending |-> new, closing |-> flush[f].closing] \in Flushes
  BY <1>2, <1>3 DEF Flushes, FlushSteps
<1>6. /\ flush'[f] = [pc |-> "next", pending |-> new, closing |-> flush[f].closing]
      /\ \A g \in Flushers : g # f => flush'[g] = flush[g]
      /\ flush' \in [Flushers -> Flushes]
  BY <1>2, <1>4, <1>5
<1>7. \A g \in Flushers, p \in Paths :
        flush'[g].pending[p] = IF g = f /\ p = q THEN <<>> ELSE flush[g].pending[p]
  BY <1>3, <1>6
<1> QED
  BY <1>1, <1>6, <1>7

(* A step inside write_file moves one flush on and no batch.               *)
LEMMA AfterGoOn ==
  ASSUME IoTyped, NEW f \in Flushers, NEW pc \in FlushSteps, GoOn(f, pc)
  PROVE  /\ flush' \in [Flushers -> Flushes]
         /\ \A g \in Flushers : /\ flush'[g].pending = flush[g].pending
                                /\ flush'[g].closing = flush[g].closing
                                /\ flush'[g].pc = IF g = f THEN pc ELSE flush[g].pc
         /\ \A g \in Flushers : g # f => flush'[g] = flush[g]
<1>1. flush \in [Flushers -> Flushes] /\ flush[f] \in Flushes
  BY DEF IoTyped
<1>2. flush' = [flush EXCEPT ![f] = [pc |-> pc, pending |-> flush[f].pending,
                                     closing |-> flush[f].closing]]
  <2>1. flush[f] = [pc |-> flush[f].pc, pending |-> flush[f].pending,
                    closing |-> flush[f].closing]
    BY <1>1 DEF Flushes
  <2>2. flush' = [flush EXCEPT ![f] = [flush[f] EXCEPT !.pc = pc]]
    BY <1>1 DEF GoOn
  <2>3. [flush[f] EXCEPT !.pc = pc]
          = [pc |-> pc, pending |-> flush[f].pending, closing |-> flush[f].closing]
    BY <2>1
  <2> QED
    BY <2>2, <2>3
<1>3. [pc |-> pc, pending |-> flush[f].pending, closing |-> flush[f].closing] \in Flushes
  BY <1>1 DEF Flushes
<1> QED
  BY <1>1, <1>2, <1>3

(* The chunks in a sequence, and in one that has grown.                    *)
LEMMA ChunksOf ==
  ASSUME NEW s \in Seq(Nat)
  PROVE  /\ s = <<>> <=> ToSet(s) = {}
         /\ \A x \in Nat : ToSet(Append(s, x)) = ToSet(s) \cup {x}
         /\ Len(s) > 0 => s[1] \in ToSet(s)
<1>1. s = <<>> <=> ToSet(s) = {}
  <2>1. s # <<>> => 1 \in DOMAIN s
    OBVIOUS
  <2>2. s = <<>> => DOMAIN s = {}
    OBVIOUS
  <2> QED
    BY <2>1, <2>2, Zenon DEF ToSet
<1>2. ASSUME NEW x \in Nat
      PROVE  ToSet(Append(s, x)) = ToSet(s) \cup {x}
  <2>1. /\ DOMAIN Append(s, x) = 1 .. Len(s) + 1
        /\ \A i \in 1 .. Len(s) : Append(s, x)[i] = s[i]
        /\ Append(s, x)[Len(s) + 1] = x
        /\ DOMAIN s = 1 .. Len(s) /\ Len(s) \in Nat
    OBVIOUS
  <2>2. \A i \in 1 .. Len(s) + 1 : i \in 1 .. Len(s) \/ i = Len(s) + 1
    BY <2>1
  <2>3. Len(s) + 1 \in 1 .. Len(s) + 1 /\ 1 .. Len(s) \subseteq 1 .. Len(s) + 1
    BY <2>1
  <2>4. \A y : y \in ToSet(Append(s, x)) <=> y \in ToSet(s) \/ y = x
    BY <2>1, <2>2, <2>3, Zenon DEF ToSet
  <2> QED
    BY <2>4
<1>3. Len(s) > 0 => s[1] \in ToSet(s)
  BY DEF ToSet
<1> QED
  BY <1>1, <1>2, <1>3

(* Nothing changes its place.                                              *)
LEMMA PlaceKept ==
  ASSUME OnePlace, UNCHANGED <<queued, written, lost>>,
         \A p \in Paths : QueueChunks(p)' = QueueChunks(p),
         \A f \in Flushers, p \in Paths : FlushChunks(f, p)' = FlushChunks(f, p)
  PROVE  OnePlace'
BY DEF OnePlace

(* A batch leaves its flush for the written chunks or the lost ones.       *)
LEMMA PlaceSettled ==
  ASSUME OnePlace, UNCHANGED queued, NEW f \in Flushers, NEW q \in Paths,
         \A p \in Paths : QueueChunks(p)' = QueueChunks(p),
         \A g \in Flushers, p \in Paths :
           FlushChunks(g, p)' = IF g = f /\ p = q THEN {} ELSE FlushChunks(g, p),
         \/ written' = written \cup FlushChunks(f, q) /\ lost' = lost
         \/ written' = written /\ lost' = lost \cup FlushChunks(f, q)
  PROVE  OnePlace'
<1>1. /\ (written \cup lost)' = written \cup lost \cup FlushChunks(f, q)
      /\ (written \cap lost)' = {}
  BY DEF OnePlace
<1>2. \A c \in FlushChunks(f, q) :
        /\ c \in 1 .. queued
        /\ \A p \in Paths : c \notin QueueChunks(p)
        /\ \A g \in Flushers, p \in Paths : c \in FlushChunks(g, p) => g = f /\ p = q
  BY DEF OnePlace
<1>3. (written \cup lost \subseteq 1 .. queued)'
  BY <1>1, <1>2 DEF OnePlace
<1>4. (\A c \in 1 .. queued :
         \/ c \in written \cup lost
         \/ \E p \in Paths : c \in QueueChunks(p)
         \/ \E g \in Flushers, p \in Paths : c \in FlushChunks(g, p))'
  BY <1>1 DEF OnePlace
<1>5. (\A p \in Paths : \A c \in QueueChunks(p) :
         /\ c \notin written \cup lost
         /\ \A r \in Paths : c \in QueueChunks(r) => r = p
         /\ \A g \in Flushers, r \in Paths : c \notin FlushChunks(g, r))'
  BY <1>1, <1>2 DEF OnePlace
<1>6. (\A g \in Flushers, p \in Paths : \A c \in FlushChunks(g, p) :
         /\ c \notin written \cup lost
         /\ \A h \in Flushers, r \in Paths : c \in FlushChunks(h, r) => h = g /\ r = p)'
  BY <1>1, <1>2 DEF OnePlace
<1>7. (/\ \A p \in Paths : QueueChunks(p) \subseteq 1 .. queued
       /\ \A g \in Flushers, p \in Paths : FlushChunks(g, p) \subseteq 1 .. queued)'
  BY DEF OnePlace
<1> QED
  BY <1>1, <1>3, <1>4, <1>5, <1>6, <1>7 DEF OnePlace

(* An exception leaves all the batches of a flush behind.                  *)
LEMMA PlaceAbandoned ==
  ASSUME OnePlace, UNCHANGED <<queued, written>>, NEW f \in Flushers,
         \A p \in Paths : QueueChunks(p)' = QueueChunks(p),
         \A g \in Flushers, p \in Paths :
           FlushChunks(g, p)' = IF g = f THEN {} ELSE FlushChunks(g, p),
         lost' = lost \cup UNION {FlushChunks(f, p) : p \in Paths}
  PROVE  OnePlace'
<1> DEFINE left == UNION {FlushChunks(f, p) : p \in Paths}
<1>0. \A c : c \in left <=> \E p \in Paths : c \in FlushChunks(f, p)
  OBVIOUS
<1> HIDE DEF left
<1>1. (written \cup lost)' = written \cup lost \cup left
  BY DEF left
<1>2. \A c \in left :
        /\ c \in 1 .. queued /\ c \notin written
        /\ \A p \in Paths : c \notin QueueChunks(p)
        /\ \A g \in Flushers, p \in Paths : c \in FlushChunks(g, p) => g = f
  BY <1>0, Zenon DEF OnePlace
<1>3. (written \cup lost \subseteq 1 .. queued)' /\ (written \cap lost)' = {}
  BY <1>1, <1>2 DEF OnePlace, left
<1>4. (\A c \in 1 .. queued :
         \/ c \in written \cup lost
         \/ \E p \in Paths : c \in QueueChunks(p)
         \/ \E g \in Flushers, p \in Paths : c \in FlushChunks(g, p))'
  BY <1>0, <1>1 DEF OnePlace
<1>5. (\A p \in Paths : \A c \in QueueChunks(p) :
         /\ c \notin written \cup lost
         /\ \A r \in Paths : c \in QueueChunks(r) => r = p
         /\ \A g \in Flushers, r \in Paths : c \notin FlushChunks(g, r))'
  BY <1>1, <1>2 DEF OnePlace
<1>6. (\A g \in Flushers, p \in Paths : \A c \in FlushChunks(g, p) :
         /\ c \notin written \cup lost
         /\ \A h \in Flushers, r \in Paths : c \in FlushChunks(h, r) => h = g /\ r = p)'
  BY <1>1, <1>2 DEF OnePlace
<1>7. (/\ \A p \in Paths : QueueChunks(p) \subseteq 1 .. queued
       /\ \A g \in Flushers, p \in Paths : FlushChunks(g, p) \subseteq 1 .. queued)'
  BY DEF OnePlace
<1> QED
  BY <1>1, <1>3, <1>4, <1>5, <1>6, <1>7 DEF OnePlace

(* The queue becomes the batches of a flush that had none.                 *)
LEMMA PlaceTaken ==
  ASSUME OnePlace, UNCHANGED <<queued, written, lost>>, NEW f \in Flushers,
         \A p \in Paths : FlushChunks(f, p) = {},
         \A p \in Paths : QueueChunks(p)' = {},
         \A g \in Flushers, p \in Paths :
           FlushChunks(g, p)' = IF g = f THEN QueueChunks(p) ELSE FlushChunks(g, p)
  PROVE  OnePlace'
<1>1. (\A c \in 1 .. queued :
         \/ c \in written \cup lost
         \/ \E p \in Paths : c \in QueueChunks(p)
         \/ \E g \in Flushers, p \in Paths : c \in FlushChunks(g, p))'
  BY DEF OnePlace
<1>2. (\A g \in Flushers, p \in Paths : \A c \in FlushChunks(g, p) :
         /\ c \notin written \cup lost
         /\ \A h \in Flushers, r \in Paths : c \in FlushChunks(h, r) => h = g /\ r = p)'
  BY DEF OnePlace
<1> QED
  BY <1>1, <1>2 DEF OnePlace

(* A new chunk is in the queue of its path.                                *)
LEMMA PlaceNew ==
  ASSUME OnePlace, queued \in Nat, queued' = queued + 1, UNCHANGED <<written, lost>>,
         NEW q \in Paths,
         \A p \in Paths : QueueChunks(p)' = IF p = q THEN QueueChunks(p) \cup {queued'}
                                            ELSE QueueChunks(p),
         \A g \in Flushers, p \in Paths : FlushChunks(g, p)' = FlushChunks(g, p)
  PROVE  OnePlace'
<1>1. /\ \A c \in 1 .. queued' : c \in 1 .. queued \/ c = queued'
      /\ 1 .. queued \subseteq 1 .. queued'
      /\ queued' \notin 1 .. queued /\ queued' \in 1 .. queued'
  OBVIOUS
<1> QED
  BY <1>1 DEF OnePlace

(* There are none in the empty sequence.                                   *)
LEMMA NoChunks == ToSet(<<>>) = {}
<1>1. <<>> \in Seq(Nat)
  OBVIOUS
<1> QED
  BY <1>1, ChunksOf, Zenon

(* At first nothing is queued, in a batch, written or lost.                *)
LEMMA IoInitially == IoInit => IoInvariant
<1> SUFFICES ASSUME IoInit
             PROVE  IoInvariant
  OBVIOUS
<1>1. NoneQueued \in [Paths -> Seq(Nat)] /\ \A p \in Paths : NoneQueued[p] = <<>>
  BY DEF NoneQueued
<1>2. NoFlush \in Flushes
  BY <1>1 DEF NoFlush, Flushes, FlushSteps
<1>3. /\ \A f \in Flushers : flush[f] = NoFlush /\ flush[f].pending = NoneQueued
      /\ writeQueue = NoneQueued
  BY DEF IoInit, NoFlush
<1>4. IoTyped
  BY <1>1, <1>2, <1>3 DEF IoInit, IoTyped, NoPrefetch
<1>5. /\ \A p \in Paths : QueueChunks(p) = {}
      /\ \A f \in Flushers, p \in Paths : FlushChunks(f, p) = {}
  BY <1>1, <1>3, ChunksOf DEF QueueChunks, FlushChunks
<1>6. queued = 0 /\ written = {} /\ lost = {}
  BY DEF IoInit
<1>7. OnePlace
  BY <1>5, <1>6 DEF OnePlace
<1>8. InOrder
  BY <1>1, <1>3 DEF InOrder, Increasing
<1> QED
  BY <1>4, <1>7, <1>8 DEF IoInvariant

(* queue_write keeps the invariant.                                        *)
LEMMA QueueWriteKeeps ==
  ASSUME IoInvariant, NEW p \in Paths, QueueWrite(p)
  PROVE  IoInvariant'
<1>1. PICK n \in Nat : n = queued + 1
  BY DEF IoInvariant, IoTyped
<1>2. /\ writeQueue' = [writeQueue EXCEPT ![p] = Append(@, n)] /\ queued' = n
      /\ writeQueue \in [Paths -> Seq(Nat)] /\ writeQueue[p] \in Seq(Nat)
      /\ UNCHANGED <<files, flush, prefetchCache, worker, written, lost, latest, shared>>
  BY <1>1 DEF QueueWrite, IoInvariant, IoTyped
<1>3. /\ writeQueue' \in [Paths -> Seq(Nat)]
      /\ writeQueue'[p] = Append(writeQueue[p], n)
      /\ \A q \in Paths : q # p => writeQueue'[q] = writeQueue[q]
  <2>1. Append(writeQueue[p], n) \in Seq(Nat)
    BY <1>2
  <2> QED
    BY <1>2, <2>1
<1>4. IoTyped'
  BY <1>2, <1>3 DEF IoInvariant, IoTyped
<1>5. OnePlace'
  <2>1. QueueChunks(p)' = QueueChunks(p) \cup {n}
    BY <1>2, <1>3, ChunksOf DEF QueueChunks
  <2>2. \A q \in Paths : q # p => QueueChunks(q)' = QueueChunks(q)
    BY <1>3 DEF QueueChunks
  <2>3. \A g \in Flushers, q \in Paths : FlushChunks(g, q)' = FlushChunks(g, q)
    BY <1>2 DEF FlushChunks
  <2>4. \A q \in Paths : QueueChunks(q)' = IF q = p THEN QueueChunks(q) \cup {queued'}
                                           ELSE QueueChunks(q)
    BY <1>2, <2>1, <2>2
  <2>5. OnePlace /\ queued \in Nat /\ queued' = queued + 1 /\ UNCHANGED <<written, lost>>
    BY <1>1, <1>2 DEF IoInvariant, IoTyped
  <2> QED
    BY <2>3, <2>4, <2>5, PlaceNew
<1>6. InOrder'
  <2>1. Increasing(writeQueue'[p])
    <3>1. \A i \in DOMAIN writeQueue[p] : writeQueue[p][i] \in 1 .. queued
      BY DEF IoInvariant, OnePlace, QueueChunks, ToSet
    <3>2. \A i \in DOMAIN writeQueue[p] : writeQueue[p][i] < n
      BY <1>1, <3>1 DEF IoInvariant, IoTyped
    <3>3. \A i, k \in DOMAIN writeQueue[p] : i < k => writeQueue[p][i] < writeQueue[p][k]
      BY DEF IoInvariant, InOrder, Increasing
    <3>4. PICK s \in Seq(Nat) : s = writeQueue[p]
      BY <1>2
    <3>5. /\ DOMAIN s = 1 .. Len(s) /\ Len(s) \in Nat
          /\ DOMAIN Append(s, n) = 1 .. Len(s) + 1
          /\ \A i \in 1 .. Len(s) : Append(s, n)[i] = s[i]
          /\ Append(s, n)[Len(s) + 1] = n
      BY <3>4
    <3>6. /\ \A i \in 1 .. Len(s) : s[i] < n
          /\ \A i, k \in 1 .. Len(s) : i < k => s[i] < s[k]
      BY <3>2, <3>3, <3>4, <3>5
    <3>7. ASSUME NEW i \in 1 .. Len(s) + 1, NEW k \in 1 .. Len(s) + 1, i < k
          PROVE  Append(s, n)[i] < Append(s, n)[k]
      <4>1. i \in 1 .. Len(s) /\ (k \in 1 .. Len(s) \/ k = Len(s) + 1)
        BY <3>5, <3>7
      <4> QED
        BY <3>5, <3>6, <3>7, <4>1
    <3>8. Increasing(Append(s, n))
      BY <3>5, <3>7, Zenon DEF Increasing
    <3> QED
      BY <1>3, <3>4, <3>8
  <2> QED
    BY <1>2, <1>3, <2>1 DEF IoInvariant, InOrder
<1> QED
  BY <1>4, <1>5, <1>6 DEF IoInvariant

(* So does the part of flush_writes under the lock.                        *)
LEMMA TakeBatchesKeeps ==
  ASSUME IoInvariant, NEW f \in Flushers, NEW closing \in BOOLEAN, TakeBatches(f, closing)
  PROVE  IoInvariant'
<1> DEFINE new == [pc |-> "next", pending |-> writeQueue, closing |-> closing]
<1>1. /\ flush[f] = NoFlush
      /\ flush' = [flush EXCEPT ![f] = new]
      /\ writeQueue' = NoneQueued
      /\ UNCHANGED <<queued, files, prefetchCache, worker, written, lost>>
  BY DEF TakeBatches, ClearQueue
<1>2. /\ latest' = [p \in Paths |-> latest'[p]]
      /\ \A p \in Paths : latest'[p] = IF writeQueue[p] # <<>> THEN writeQueue[p] ELSE latest[p]
      /\ shared' = [p \in Paths |-> shared'[p]]
      /\ \A p \in Paths : shared'[p] = IF writeQueue[p] # <<>> THEN Holders(p) # {} ELSE shared[p]
  BY DEF TakeBatches
<1>3. /\ writeQueue \in [Paths -> Seq(Nat)] /\ flush \in [Flushers -> Flushes]
      /\ latest \in [Paths -> Seq(Nat)] /\ shared \in [Paths -> BOOLEAN]
  BY DEF IoInvariant, IoTyped
<1>4. new \in Flushes
  BY <1>3 DEF Flushes, FlushSteps
<1>5. /\ flush' \in [Flushers -> Flushes] /\ flush'[f] = new
      /\ \A g \in Flushers : g # f => flush'[g] = flush[g]
  BY <1>1, <1>3, <1>4
<1>6. NoneQueued \in [Paths -> Seq(Nat)] /\ \A p \in Paths : NoneQueued[p] = <<>>
  BY DEF NoneQueued
<1>7. IoTyped'
  <2>1. \A p \in Paths : latest'[p] \in Seq(Nat) /\ shared'[p] \in BOOLEAN
    BY <1>2, <1>3
  <2>2. latest' \in [Paths -> Seq(Nat)] /\ shared' \in [Paths -> BOOLEAN]
    BY <1>2, <2>1, Zenon
  <2> QED
    BY <1>1, <1>5, <1>6, <2>2 DEF IoInvariant, IoTyped
<1>8. OnePlace'
  <2>1. \A p \in Paths : FlushChunks(f, p) = {}
    BY <1>1, <1>6, ChunksOf DEF FlushChunks, NoFlush
  <2>2. \A p \in Paths : QueueChunks(p)' = {}
    BY <1>1, <1>6, ChunksOf DEF QueueChunks
  <2>3. \A g \in Flushers, p \in Paths :
          FlushChunks(g, p)' = IF g = f THEN QueueChunks(p) ELSE FlushChunks(g, p)
    BY <1>5 DEF FlushChunks, QueueChunks
  <2>4. OnePlace /\ UNCHANGED <<queued, written, lost>>
    BY <1>1 DEF IoInvariant
  <2> QED
    BY <2>1, <2>2, <2>3, <2>4, PlaceTaken
<1>9. InOrder'
  <2>1. \A p \in Paths : writeQueue'[p] = <<>>
    BY <1>1, <1>6
  <2>2. \A g \in Flushers, p \in Paths :
          flush'[g].pending[p] = IF g = f THEN writeQueue[p] ELSE flush[g].pending[p]
    BY <1>5
  <2> QED
    BY <2>1, <2>2 DEF IoInvariant, InOrder, Increasing
<1> QED
  BY <1>7, <1>8, <1>9 DEF IoInvariant

(* A step inside write_file that leaves every batch where it is.           *)
LEMMA GoOnKeeps ==
  ASSUME IoInvariant, NEW f \in Flushers, NEW pc \in FlushSteps \ {"idle"}, GoOn(f, pc),
         UNCHANGED <<writeQueue, queued, prefetchCache, worker, written, lost, latest, shared>>,
         files' = [p \in Paths |-> files'[p]]
  PROVE  IoInvariant'
<1>1. /\ flush' \in [Flushers -> Flushes]
      /\ \A g \in Flushers : flush'[g].pending = flush[g].pending
      /\ flush'[f].pc = pc
      /\ \A g \in Flushers : g # f => flush'[g] = flush[g]
  BY AfterGoOn DEF IoInvariant
<1>2. IoTyped'
  BY <1>1 DEF IoInvariant, IoTyped
<1>3. OnePlace'
  <2>1. /\ \A p \in Paths : QueueChunks(p)' = QueueChunks(p)
        /\ \A g \in Flushers, p \in Paths : FlushChunks(g, p)' = FlushChunks(g, p)
    BY <1>1 DEF QueueChunks, FlushChunks
  <2> QED
    BY <2>1, PlaceKept DEF IoInvariant
<1>4. InOrder'
  BY <1>1 DEF IoInvariant, InOrder
<1> QED
  BY <1>2, <1>3, <1>4 DEF IoInvariant

(* write_file is over, and its batch is written or lost.                   *)
LEMMA NextFileKeeps ==
  ASSUME IoInvariant, NEW f \in Flushers, NEW pc, At(f, pc), NextFile(f),
         UNCHANGED <<writeQueue, queued, prefetchCache, worker, latest, shared>>,
         files' = [p \in Paths |-> files'[p]],
         \/ written' = written \cup ToSet(Batch(f)) /\ lost' = lost
         \/ written' = written /\ lost' = lost \cup ToSet(Batch(f))
  PROVE  IoInvariant'
<1>1. PICK q \in Paths : q = Path(f)
  BY AtMeans DEF IoInvariant
<1>2. /\ flush' \in [Flushers -> Flushes]
      /\ \A g \in Flushers, p \in Paths :
           flush'[g].pending[p] = IF g = f /\ p = q THEN <<>> ELSE flush[g].pending[p]
      /\ flush'[f].pc = "next"
      /\ \A g \in Flushers : g # f => flush'[g] = flush[g]
  BY <1>1, AfterFile DEF IoInvariant
<1>3. IoTyped'
  BY <1>2 DEF IoInvariant, IoTyped
<1>4. OnePlace'
  <2>1. \A p \in Paths : QueueChunks(p)' = QueueChunks(p)
    BY DEF QueueChunks
  <2>2. \A g \in Flushers, p \in Paths :
          FlushChunks(g, p)' = IF g = f /\ p = q THEN {} ELSE FlushChunks(g, p)
    BY <1>2, NoChunks DEF FlushChunks
  <2>3. ToSet(Batch(f)) = FlushChunks(f, q)
    BY <1>1 DEF Batch, FlushChunks
  <2> QED
    BY <2>1, <2>2, <2>3, PlaceSettled DEF IoInvariant
<1>5. InOrder'
  <2>1. /\ \A g \in Flushers, p \in Paths : Increasing(flush[g].pending[p])
        /\ \A p \in Paths : Increasing(writeQueue[p])
    BY DEF IoInvariant, InOrder
  <2>2. Increasing(<<>>)
    BY DEF Increasing
  <2>3. \A g \in Flushers, p \in Paths : Increasing(flush'[g].pending[p])
    BY <1>2, <2>1, <2>2, Zenon
  <2> QED
    BY <2>1, <2>3 DEF InOrder
<1> QED
  BY <1>3, <1>4, <1>5 DEF IoInvariant

(* A flush that ends, returning or by an exception, has no batch any more. *)
LEMMA EndKeeps ==
  ASSUME IoInvariant, NEW f \in Flushers, flush' = [flush EXCEPT ![f] = NoFlush],
         UNCHANGED <<writeQueue, queued, files, worker, written, latest, shared>>,
         prefetchCache' = [p \in Paths |-> prefetchCache'[p]],
         lost' = lost \cup UNION {ToSet(flush[f].pending[p]) : p \in Paths}
  PROVE  IoInvariant'
<1>1. NoneQueued \in [Paths -> Seq(Nat)] /\ \A p \in Paths : NoneQueued[p] = <<>>
  BY DEF NoneQueued
<1>2. NoFlush \in Flushes /\ NoFlush.pending = NoneQueued
  BY <1>1 DEF NoFlush, Flushes, FlushSteps
<1>3. flush \in [Flushers -> Flushes]
  BY DEF IoInvariant, IoTyped
<1>4. /\ flush' \in [Flushers -> Flushes]
      /\ flush'[f] = NoFlush
      /\ \A g \in Flushers : g # f => flush'[g] = flush[g]
  BY <1>2, <1>3
<1>5. IoTyped'
  BY <1>4 DEF IoInvariant, IoTyped
<1>6. \A g \in Flushers, p \in Paths :
        flush'[g].pending[p] = IF g = f THEN <<>> ELSE flush[g].pending[p]
  BY <1>1, <1>2, <1>4
<1>7. OnePlace'
  <2>1. \A p \in Paths : QueueChunks(p)' = QueueChunks(p)
    BY DEF QueueChunks
  <2>2. \A g \in Flushers, p \in Paths :
          FlushChunks(g, p)' = IF g = f THEN {} ELSE FlushChunks(g, p)
    <3>1. \A p \in Paths : FlushChunks(f, p)' = {}
      BY <1>6, NoChunks DEF FlushChunks
    <3>2. \A g \in Flushers, p \in Paths : g # f => FlushChunks(g, p)' = FlushChunks(g, p)
      BY <1>4 DEF FlushChunks
    <3> QED
      BY <3>1, <3>2
  <2>3. lost' = lost \cup UNION {FlushChunks(f, p) : p \in Paths}
    BY DEF FlushChunks
  <2> QED
    BY <2>1, <2>2, <2>3, PlaceAbandoned DEF IoInvariant
<1>8. InOrder'
  <2>1. /\ \A g \in Flushers, p \in Paths : Increasing(flush[g].pending[p])
        /\ \A p \in Paths : Increasing(writeQueue[p])
    BY DEF IoInvariant, InOrder
  <2>2. Increasing(<<>>)
    BY DEF Increasing
  <2>3. \A g \in Flushers, p \in Paths : Increasing(flush'[g].pending[p])
    BY <1>6, <2>1, <2>2
  <2> QED
    BY <2>1, <2>3 DEF InOrder
<1> QED
  BY <1>5, <1>7, <1>8 DEF IoInvariant

(* What touches neither the queue nor a flush keeps the invariant.         *)
LEMMA WorkerKeeps ==
  ASSUME IoInvariant,
         UNCHANGED <<writeQueue, queued, files, flush, written, lost, latest, shared>>,
         prefetchCache' = [p \in Paths |-> prefetchCache'[p]],
         worker' = [w \in Prefetchers |-> worker'[w]]
  PROVE  IoInvariant'
<1>1. IoTyped'
  BY DEF IoInvariant, IoTyped
<1>2. OnePlace'
  <2>1. /\ \A p \in Paths : QueueChunks(p)' = QueueChunks(p)
        /\ \A g \in Flushers, p \in Paths : FlushChunks(g, p)' = FlushChunks(g, p)
    BY DEF QueueChunks, FlushChunks
  <2> QED
    BY <2>1, PlaceKept DEF IoInvariant
<1>3. InOrder'
  BY DEF IoInvariant, InOrder
<1> QED
  BY <1>1, <1>2, <1>3 DEF IoInvariant

(* The steps of a flush, by what they do.                                  *)
FlushNext(f) ==
  \/ OpenFile(f) \/ WriteSmall(f) \/ Preallocate(f) \/ Map(f) \/ WriteMapped(f)
  \/ BusError(f) \/ WriteFails(f) \/ EndFlush(f)

WorkerNext(w) ==
  \/ \E paths \in PathLists : Prefetch(w, paths)
  \/ StatFile(w) \/ ReadFails(w) \/ ReadPlain(w) \/ MapForReading(w)
  \/ ReadMapped(w) \/ ReadBusError(w) \/ StorePrefetched(w)

(* Every step of a flush keeps it, whatever the system calls return.       *)
LEMMA FlushNextKeeps ==
  ASSUME IoInvariant, NEW f \in Flushers, FlushNext(f)
  PROVE  IoInvariant'
<1>0. IoTyped
  BY DEF IoInvariant
<1>1. CASE OpenFile(f)
  <2>1. files' = [p \in Paths |-> files'[p]]
    BY <1>0, <1>1 DEF OpenFile, IoTyped
  <2> QED
    BY <1>1, <2>1, GoOnKeeps DEF OpenFile, FlushSteps
<1>2. CASE Preallocate(f)
  <2>1. files' = [p \in Paths |-> files'[p]]
    BY <1>0, <1>2 DEF Preallocate, IoTyped
  <2> QED
    BY <1>2, <2>1, GoOnKeeps DEF Preallocate, FlushSteps
<1>3. ASSUME NEW pc, At(f, pc), NEW content, Wrote(f, content)
      PROVE  IoInvariant'
  <2>1. files' = [p \in Paths |-> files'[p]]
    BY <1>0, <1>3 DEF Wrote, IoTyped
  <2> QED
    BY <1>3, <2>1, NextFileKeeps DEF Wrote
<1>4. CASE WriteSmall(f)
  BY <1>3, <1>4 DEF WriteSmall
<1>5. CASE WriteMapped(f)
  BY <1>3, <1>5 DEF WriteMapped
<1>6. CASE Map(f)
  <2>1. /\ UNCHANGED <<writeQueue, queued, files, prefetchCache, worker, written, latest, shared>>
        /\ files' = [p \in Paths |-> files'[p]]
        /\ prefetchCache' = [p \in Paths |-> prefetchCache'[p]]
    BY <1>0, <1>6 DEF Map, IoTyped
  <2>2. CASE Fits(f)
    BY <1>6, <2>1, <2>2, GoOnKeeps DEF Map, FlushSteps
  <2>3. CASE ~Fits(f)
    BY <1>6, <2>1, <2>3, EndKeeps DEF Map
  <2> QED
    BY <2>2, <2>3
<1>7. CASE BusError(f)
  <2>1. /\ UNCHANGED <<writeQueue, queued, files, flush, prefetchCache, worker, written, lost,
                       latest, shared>>
    BY <1>7 DEF BusError
  <2> QED
    BY <1>0, <2>1, WorkerKeeps DEF IoTyped
<1>8. CASE WriteFails(f)
  <2>1. files' = [p \in Paths |-> files'[p]]
    BY <1>0, <1>8 DEF WriteFails, IoTyped
  <2>2. \/ At(f, "next")
        \/ At(f, "sized")
        \/ At(f, "opened")
    BY <1>8 DEF WriteFails
  <2>3. /\ NextFile(f) /\ written' = written /\ lost' = lost \cup ToSet(Batch(f))
        /\ UNCHANGED <<writeQueue, queued, prefetchCache, worker, latest, shared>>
    BY <1>8 DEF WriteFails
  <2> QED
    BY <2>1, <2>2, <2>3, NextFileKeeps
<1>9. CASE EndFlush(f)
  <2>1. prefetchCache' = [p \in Paths |-> prefetchCache'[p]]
    BY <1>0, <1>9 DEF EndFlush, IoTyped
  <2>2. UNION {ToSet(flush[f].pending[p]) : p \in Paths} = {}
    <3>1. \A p \in Paths : flush[f].pending[p] = <<>>
      BY <1>9 DEF EndFlush, NoneQueued
    <3> QED
      BY <3>1, NoChunks
  <2> QED
    BY <1>9, <2>1, <2>2, EndKeeps DEF EndFlush
<1> QED
  BY <1>1, <1>2, <1>4, <1>5, <1>6, <1>7, <1>8, <1>9 DEF FlushNext

(* A background reader keeps it.                                           *)
LEMMA WorkerNextKeeps ==
  ASSUME IoInvariant, NEW w \in Prefetchers, WorkerNext(w)
  PROVE  IoInvariant'
<1>1. /\ worker = [v \in Prefetchers |-> worker[v]]
      /\ prefetchCache = [p \in Paths |-> prefetchCache[p]]
  BY DEF IoInvariant, IoTyped
<1>2. UNCHANGED <<writeQueue, queued, files, flush, written, lost, latest, shared>>
  BY DEF WorkerNext, Prefetch, StatFile, ReadFails, ReadPlain, MapForReading, ReadMapped,
              ReadBusError, StorePrefetched
<1>3. worker' = [v \in Prefetchers |-> worker'[v]]
  BY <1>1 DEF WorkerNext, Prefetch, StatFile, ReadFails, ReadPlain, MapForReading, ReadMapped,
              ReadBusError, StorePrefetched, HasRead, Skip
<1>4. prefetchCache' = [p \in Paths |-> prefetchCache'[p]]
  BY <1>1 DEF WorkerNext, Prefetch, StatFile, ReadFails, ReadPlain, MapForReading, ReadMapped,
              ReadBusError, StorePrefetched
<1> QED
  BY <1>2, <1>3, <1>4, WorkerKeeps

(* The steps, by who takes them.                                           *)
LEMMA IoNextMeans ==
  ASSUME IoNext
  PROVE  \/ \E p \in Paths : QueueWrite(p)
         \/ \E f \in Flushers, closing \in BOOLEAN : TakeBatches(f, closing)
         \/ \E f \in Flushers : FlushNext(f)
         \/ \E w \in Prefetchers : WorkerNext(w)
BY DEF IoNext, FlushNext, WorkerNext

(* The invariant is inductive.                                             *)
LEMMA IoStep == IoInvariant /\ [IoNext]_ioVars => IoInvariant'
<1> SUFFICES ASSUME IoInvariant, [IoNext]_ioVars
             PROVE  IoInvariant'
  OBVIOUS
<1>1. CASE IoNext
  BY <1>1, IoNextMeans, QueueWriteKeeps, TakeBatchesKeeps, FlushNextKeeps, WorkerNextKeeps
<1>2. CASE UNCHANGED ioVars
  BY <1>2, WorkerKeeps DEF ioVars, IoInvariant, IoTyped
<1> QED
  BY <1>1, <1>2

(* One place for every chunk is what ChunksAccounted says.                 *)
LEMMA PlacesSuffice == IoInvariant => ChunksAccounted
<1> SUFFICES ASSUME IoInvariant
             PROVE  ChunksAccounted
  OBVIOUS
<1> DEFINE places == <<Contained(writeQueue), written, lost>>
<1>1. /\ DOMAIN places = {1, 2, 3}
      /\ places[1] = Contained(writeQueue) /\ places[2] = written /\ places[3] = lost
  OBVIOUS
<1>2. \A c : c \in Contained(writeQueue) <=> \E p \in Paths : c \in QueueChunks(p)
  BY Zenon DEF Contained, QueueChunks
<1>3. \A f \in Flushers : \A c :
        c \in Contained(flush[f].pending) <=> \E p \in Paths : c \in FlushChunks(f, p)
  BY Zenon DEF Contained, FlushChunks
<1>4. ToSet(places) = {Contained(writeQueue), written, lost}
  BY <1>1 DEF ToSet
<1>5. ASSUME NEW c
      PROVE  c \in 1 .. queued <=>
               \/ c \in UNION ToSet(places)
               \/ c \in UNION {Contained(flush[f].pending) : f \in Flushers}
  <2>1. c \in UNION ToSet(places) <=>
          (\E p \in Paths : c \in QueueChunks(p)) \/ c \in written \/ c \in lost
    BY <1>2, <1>4, Zenon
  <2>2. c \in UNION {Contained(flush[f].pending) : f \in Flushers} <=>
          \E f \in Flushers, p \in Paths : c \in FlushChunks(f, p)
    BY <1>3, Zenon
  <2> QED
    BY <2>1, <2>2 DEF IoInvariant, OnePlace
<1>6. \A i, k \in DOMAIN places : i # k => places[i] \cap places[k] = {}
  BY <1>1, <1>2 DEF IoInvariant, OnePlace
<1>7. ASSUME NEW f \in Flushers, NEW g \in Flushers
      PROVE  /\ \A i \in DOMAIN places : Contained(flush[f].pending) \cap places[i] = {}
             /\ f # g => Contained(flush[f].pending) \cap Contained(flush[g].pending) = {}
  BY <1>1, <1>2, <1>3 DEF IoInvariant, OnePlace
<1>8. \A f \in Flushers, p \in Paths :
        \A i, k \in DOMAIN flush[f].pending[p] :
          i < k => flush[f].pending[p][i] < flush[f].pending[p][k]
  BY DEF IoInvariant, InOrder, Increasing
<1>9. (UNION ToSet(places)) \cup UNION {Contained(flush[f].pending) : f \in Flushers}
        = 1 .. queued
  <2> DEFINE here  == UNION ToSet(places)
             there == UNION {Contained(flush[f].pending) : f \in Flushers}
  <2>1. \A c : c \in 1 .. queued <=> c \in here \/ c \in there
    BY <1>5, Zenon
  <2> HIDE DEF here, there
  <2>2. here \cup there = 1 .. queued
    BY <2>1
  <2> QED
    BY <2>2, Zenon DEF here, there
<1> QED
  BY <1>6, <1>7, <1>8, <1>9, Zenon DEF ChunksAccounted

(* Every chunk ever queued is in one place: queued, in one batch of one    *)
(* flush, written or given up; and in the order of queueing.               *)
THEOREM ChunksAlwaysAccounted == IoSpec => []ChunksAccounted
<1> QED
  BY IoInitially, IoStep, PlacesSuffice, PTL DEF IoSpec

(* How far the only flush of a path is with its file.                      *)
FileAsFar(p, pc) ==
  /\ pc = "opened" => files[p] = <<>>
  /\ pc \in {"sized", "mapped"} =>
       files[p] \in Seq(Nat) /\ Len(files[p]) = Len(latest[p])

Settled(p) ==
  /\ Holders(p) = {}
  /\ latest[p][1] \in written \cup lost
  /\ latest[p][1] \in written => files[p] = latest[p]

OnlyFlush(p, f) ==
  /\ Holders(p) = {f}
  /\ flush[f].pending[p] = latest[p]
  /\ Path(f) = p => FileAsFar(p, flush[f].pc)

(* A latest batch that had its path to itself still has, or its file is    *)
(* as the batch left it.                                                   *)
PathQuiet(p) ==
  ~shared[p] /\ latest[p] # <<>> =>
    Settled(p) \/ \E f \in Flushers : OnlyFlush(p, f)

CacheRight ==
  /\ \A w \in Prefetchers : worker[w].pc # "idle" => worker[w].todo \in Seq(Paths) \ {<<>>}
  /\ \A w \in Prefetchers :
       worker[w].pc = "mapped" /\ worker[w].seen # <<>> => worker[w].length = Len(worker[w].seen)
  /\ \A w \in Prefetchers : worker[w].pc = "store" => worker[w].data = worker[w].expect
  /\ \A p \in Paths : prefetchCache[p] # NoFile => prefetchCache[p].data = prefetchCache[p].expect

QuietInvariant == CacheRight /\ \A p \in Paths : PathQuiet(p)

(* No batch was taken yet, and nothing was read ahead.                     *)
LEMMA QuietInitially == IoInit => QuietInvariant
<1> SUFFICES ASSUME IoInit
             PROVE  QuietInvariant
  OBVIOUS
<1>1. \A p \in Paths : PathQuiet(p)
  BY DEF IoInit, PathQuiet, NoneQueued
<1>2. CacheRight
  BY DEF IoInit, CacheRight, NoPrefetch
<1> QED
  BY <1>1, <1>2 DEF QuietInvariant

(* In a quiet moment the file is the latest batch.                         *)
LEMMA QuietMeans ==
  ASSUME IoInvariant, NEW p \in Paths, PathQuiet(p), Quiet(p)
  PROVE  files[p] = latest[p]
<1>1. \A f \in Flushers : ~OnlyFlush(p, f)
  BY DEF Quiet, OnlyFlush
<1> QED
  BY <1>1 DEF PathQuiet, Quiet, Settled

(* What a path that a step does not touch stays like.                      *)
LEMMA PathUntouched ==
  ASSUME NEW p \in Paths, PathQuiet(p), IoInvariant,
         UNCHANGED <<files[p], latest[p], shared[p]>>,
         \A f \in Flushers : flush'[f].pending[p] = flush[f].pending[p],
         \A f \in Flushers :
           (Path(f) = p)' /\ flush[f].pending[p] # <<>> =>
             \/ flush'[f].pc = "next"
             \/ Path(f) = p /\ flush'[f].pc = flush[f].pc,
         written \subseteq written' /\ lost \subseteq lost' /\ (written \cap lost)' = {}
  PROVE  PathQuiet(p)'
<1>1. Holders(p)' = Holders(p)
  BY DEF Holders
<1>2. ASSUME Settled(p)
      PROVE  Settled(p)'
  BY <1>1, <1>2 DEF Settled
<1>3. ASSUME NEW f \in Flushers, OnlyFlush(p, f)
      PROVE  OnlyFlush(p, f)'
  <2>1. flush[f].pending[p] # <<>>
    BY <1>3 DEF OnlyFlush, Holders
  <2>2. (Path(f) = p)' => FileAsFar(p, flush[f].pc)'
    BY <1>3, <2>1 DEF OnlyFlush, FileAsFar
  <2> QED
    BY <1>1, <1>3, <2>2 DEF OnlyFlush
<1> QED
  BY <1>2, <1>3 DEF PathQuiet

(* A step of somebody else leaves a path as it was.                        *)
LEMMA QueueWriteQuiet ==
  ASSUME IoInvariant, IoInvariant', NEW p \in Paths, PathQuiet(p),
         UNCHANGED <<files, flush, written, lost, latest, shared>>
  PROVE  PathQuiet(p)'
<1>1. /\ \A f \in Flushers : flush'[f].pending[p] = flush[f].pending[p]
      /\ \A f \in Flushers : Path(f)' = Path(f) /\ flush'[f].pc = flush[f].pc
      /\ written \subseteq written' /\ lost \subseteq lost'
  BY DEF Path
<1>2. (written \cap lost)' = {}
  BY DEF IoInvariant, OnePlace
<1>3. UNCHANGED <<files[p], latest[p], shared[p]>>
  OBVIOUS
<1> QED
  BY <1>1, <1>2, <1>3, PathUntouched

(* A step inside write_file brings the file of its path on.                *)
LEMMA GoOnQuiet ==
  ASSUME IoInvariant, IoInvariant', NEW f \in Flushers, NEW old, At(f, old),
         NEW pc \in FlushSteps, GoOn(f, pc), UNCHANGED <<written, lost, latest, shared>>,
         \A p \in Paths : p # Path(f) => files'[p] = files[p],
         OnlyFlush(Path(f), f) /\ FileAsFar(Path(f), old) =>
           /\ pc = "opened" => files'[Path(f)] = <<>>
           /\ pc \in {"sized", "mapped"} => /\ files'[Path(f)] \in Seq(Nat)
                                            /\ Len(files'[Path(f)]) = Len(latest[Path(f)]),
         NEW p \in Paths, PathQuiet(p)
  PROVE  PathQuiet(p)'
<1>1. PICK q \in Paths : q = Path(f)
  BY AtMeans DEF IoInvariant
<1>2. /\ \A g \in Flushers : /\ flush'[g].pending = flush[g].pending
                             /\ flush'[g].pc = IF g = f THEN pc ELSE flush[g].pc
      /\ flush[f].pc = old /\ flush[f].pending[q] # <<>>
  BY <1>1, AfterGoOn, AtMeans DEF IoInvariant
<1>3. \A g \in Flushers : Path(g)' = Path(g)
  BY <1>2 DEF Path
<1>4. (written \cap lost)' = {} /\ written \subseteq written' /\ lost \subseteq lost'
  BY DEF IoInvariant, OnePlace
<1>5. CASE p # q
  <2>1. UNCHANGED <<files[p], latest[p], shared[p]>>
    BY <1>1, <1>5
  <2>2. \A g \in Flushers : Path(g) = p => flush'[g].pc = flush[g].pc
    BY <1>1, <1>2, <1>5
  <2> QED
    BY <1>2, <1>3, <1>4, <2>1, <2>2, PathUntouched
<1>6. CASE p = q
  <2>1. Holders(q)' = Holders(q) /\ f \in Holders(q)
    BY <1>2 DEF Holders
  <2>2. ASSUME NEW g \in Flushers, OnlyFlush(q, g)
        PROVE  OnlyFlush(q, f)'
    <3>1. g = f
      BY <2>1, <2>2 DEF OnlyFlush
    <3>2. FileAsFar(q, old)
      BY <1>1, <1>2, <2>2, <3>1 DEF OnlyFlush
    <3>3. /\ pc = "opened" => files'[q] = <<>>
          /\ pc \in {"sized", "mapped"} => files'[q] \in Seq(Nat) /\ Len(files'[q]) = Len(latest[q])
      BY <1>1, <2>2, <3>1, <3>2
    <3>4. FileAsFar(q, flush[f].pc)'
      BY <1>2, <3>3 DEF FileAsFar
    <3> QED
      BY <1>2, <2>1, <2>2, <3>1, <3>4 DEF OnlyFlush
  <2>3. ~Settled(q)
    BY <2>1 DEF Settled
  <2> QED
    BY <1>6, <2>2, <2>3 DEF PathQuiet
<1> QED
  BY <1>5, <1>6

(* The end of write_file leaves the file whole, or its batch among the     *)
(* lost ones.                                                              *)
LEMMA NextFileQuiet ==
  ASSUME IoInvariant, IoInvariant', NEW f \in Flushers, NEW old, At(f, old), NextFile(f),
         UNCHANGED <<latest, shared>>,
         \A p \in Paths : p # Path(f) => files'[p] = files[p],
         \/ /\ written' = written \cup ToSet(Batch(f)) /\ lost' = lost
            /\ OnlyFlush(Path(f), f) /\ FileAsFar(Path(f), old) =>
                 files'[Path(f)] = latest[Path(f)]
         \/ written' = written /\ lost' = lost \cup ToSet(Batch(f)),
         NEW p \in Paths, PathQuiet(p)
  PROVE  PathQuiet(p)'
<1>1. PICK q \in Paths : q = Path(f)
  BY AtMeans DEF IoInvariant
<1>2. /\ \A g \in Flushers, r \in Paths :
           flush'[g].pending[r] = IF g = f /\ r = q THEN <<>> ELSE flush[g].pending[r]
      /\ flush'[f].pc = "next"
      /\ \A g \in Flushers : g # f => flush'[g] = flush[g]
      /\ flush[f].pc = old
      /\ Batch(f) = flush[f].pending[q] /\ Batch(f) \in Seq(Nat) /\ Batch(f) # <<>>
  BY <1>1, AfterFile, AtMeans DEF IoInvariant
<1>3. \A g \in Flushers : g # f => Path(g)' = Path(g)
  BY <1>2 DEF Path
<1>4. (written \cap lost)' = {} /\ written \subseteq written' /\ lost \subseteq lost'
  BY DEF IoInvariant, OnePlace
<1>5. CASE p # q
  <2>1. UNCHANGED <<files[p], latest[p], shared[p]>>
    BY <1>1, <1>5
  <2>2. \A g \in Flushers : (Path(g) = p)' =>
          flush'[g].pc = "next" \/ (Path(g) = p /\ flush'[g].pc = flush[g].pc)
    <3>1. /\ flush'[f].pc = "next"
          /\ \A g \in Flushers : g # f => flush'[g].pc = flush[g].pc
      BY <1>2
    <3> QED
      BY <1>3, <3>1
  <2>3. \A g \in Flushers : flush'[g].pending[p] = flush[g].pending[p]
    BY <1>2, <1>5
  <2> QED
    BY <1>4, <2>1, <2>2, <2>3, PathUntouched
<1>6. CASE p = q
  <2>1. f \in Holders(q)
    BY <1>2 DEF Holders
  <2>2. ASSUME NEW g \in Flushers, OnlyFlush(q, g)
        PROVE  Settled(q)'
    <3>1. g = f
      BY <2>1, <2>2 DEF OnlyFlush
    <3>2. FileAsFar(q, old) /\ Holders(q) = {f} /\ Batch(f) = latest[q]
      BY <1>1, <1>2, <2>2, <3>1 DEF OnlyFlush
    <3>3. latest[q][1] \in ToSet(Batch(f))
      BY <1>2, <3>2, ChunksOf
    <3>4. Holders(q)' = {}
      BY <1>2, <3>2 DEF Holders
    <3>5. CASE /\ written' = written \cup ToSet(Batch(f)) /\ lost' = lost
               /\ OnlyFlush(q, f) /\ FileAsFar(q, old) => files'[q] = latest[q]
      BY <2>2, <3>1, <3>2, <3>3, <3>4, <3>5 DEF Settled
    <3>6. CASE written' = written /\ lost' = lost \cup ToSet(Batch(f))
      <4>1. latest'[q][1] \in lost' /\ latest'[q][1] \notin written'
        BY <1>4, <3>3, <3>6
      <4> QED
        BY <3>4, <4>1 DEF Settled
    <3> QED
      BY <1>1, <3>5, <3>6
  <2>3. ~Settled(q)
    BY <2>1 DEF Settled
  <2> QED
    BY <1>6, <2>2, <2>3 DEF PathQuiet
<1> QED
  BY <1>5, <1>6

(* A flush that ends early leaves its batches among the lost ones.         *)
LEMMA EndQuiet ==
  ASSUME IoInvariant, IoInvariant', NEW f \in Flushers,
         flush' = [flush EXCEPT ![f] = NoFlush], UNCHANGED <<files, written, latest, shared>>,
         lost' = lost \cup UNION {ToSet(flush[f].pending[p]) : p \in Paths},
         NEW p \in Paths, PathQuiet(p)
  PROVE  PathQuiet(p)'
<1>1. /\ flush \in [Flushers -> Flushes] /\ flush[f].pending \in [Paths -> Seq(Nat)]
      /\ latest[p] \in Seq(Nat)
  BY DEF IoInvariant, IoTyped, Flushes
<1>2. NoFlush.pending[p] = <<>>
  BY DEF NoFlush, NoneQueued
<1>3. /\ flush'[f] = NoFlush
      /\ \A g \in Flushers : g # f => flush'[g] = flush[g]
  BY <1>1
<1>4. \A g \in Flushers : g # f => Path(g)' = Path(g)
  BY <1>3 DEF Path
<1>5. (written \cap lost)' = {} /\ written \subseteq written' /\ lost \subseteq lost'
  BY DEF IoInvariant, OnePlace
<1>6. CASE flush[f].pending[p] = <<>>
  <2>1. \A g \in Flushers : flush'[g].pending[p] = flush[g].pending[p]
    BY <1>2, <1>3, <1>6
  <2>2. \A g \in Flushers : (Path(g) = p)' /\ flush[g].pending[p] # <<>> =>
          Path(g) = p /\ flush'[g].pc = flush[g].pc
    BY <1>3, <1>4, <1>6
  <2>3. UNCHANGED <<files[p], latest[p], shared[p]>>
    OBVIOUS
  <2> QED
    BY <1>5, <2>1, <2>2, <2>3, PathUntouched
<1>7. CASE flush[f].pending[p] # <<>>
  <2>1. f \in Holders(p)
    BY <1>7 DEF Holders
  <2>2. ASSUME NEW g \in Flushers, OnlyFlush(p, g)
        PROVE  Settled(p)'
    <3>1. Holders(p) = {f} /\ flush[f].pending[p] = latest[p]
      BY <2>1, <2>2 DEF OnlyFlush
    <3>2. Holders(p)' = {}
      BY <1>2, <1>3, <3>1 DEF Holders
    <3>3. latest[p][1] \in ToSet(latest[p])
      BY <1>1, <1>7, <3>1, ChunksOf
    <3>4. latest'[p][1] \in lost' /\ latest'[p][1] \notin written'
      BY <1>5, <3>1, <3>3
    <3> QED
      BY <3>2, <3>4 DEF Settled
  <2>3. ~Settled(p)
    BY <2>1 DEF Settled
  <2> QED
    BY <2>2, <2>3 DEF PathQuiet
<1> QED
  BY <1>6, <1>7

(* A batch taken while nobody is at its path has it to itself.             *)
LEMMA TakeBatchesQuiet ==
  ASSUME IoInvariant, IoInvariant', NEW f \in Flushers, NEW closing \in BOOLEAN,
         TakeBatches(f, closing), NEW p \in Paths, PathQuiet(p)
  PROVE  PathQuiet(p)'
<1>1. /\ flush \in [Flushers -> Flushes]
      /\ flush[f] = NoFlush
      /\ flush' = [flush EXCEPT ![f] =
           [pc |-> "next", pending |-> writeQueue, closing |-> closing]]
      /\ UNCHANGED <<files, written, lost>>
  BY DEF TakeBatches, IoInvariant, IoTyped
<1>2. /\ latest'[p] = IF writeQueue[p] # <<>> THEN writeQueue[p] ELSE latest[p]
      /\ shared'[p] = IF writeQueue[p] # <<>> THEN Holders(p) # {} ELSE shared[p]
  BY DEF TakeBatches
<1>3. /\ flush'[f].pending = writeQueue /\ flush'[f].pc = "next"
      /\ \A g \in Flushers : g # f => flush'[g] = flush[g]
      /\ flush[f].pending[p] = <<>>
  BY <1>1 DEF NoFlush, NoneQueued
<1>4. \A g \in Flushers : g # f => Path(g)' = Path(g)
  BY <1>3 DEF Path
<1>5. (written \cap lost)' = {} /\ written \subseteq written' /\ lost \subseteq lost'
  BY <1>1 DEF IoInvariant, OnePlace
<1>6. CASE writeQueue[p] = <<>>
  <2>1. \A g \in Flushers : flush'[g].pending[p] = flush[g].pending[p]
    BY <1>3, <1>6
  <2>2. \A g \in Flushers : (Path(g) = p)' /\ flush[g].pending[p] # <<>> =>
          flush'[g].pc = "next" \/ (Path(g) = p /\ flush'[g].pc = flush[g].pc)
    BY <1>3, <1>4
  <2>3. UNCHANGED <<files[p], latest[p], shared[p]>>
    BY <1>1, <1>2, <1>6
  <2> QED
    BY <1>5, <2>1, <2>2, <2>3, PathUntouched
<1>7. CASE writeQueue[p] # <<>> /\ Holders(p) = {}
  <2>1. Holders(p)' = {f}
    BY <1>3, <1>7 DEF Holders
  <2>2. FileAsFar(p, flush[f].pc)'
    BY <1>3 DEF FileAsFar
  <2>3. OnlyFlush(p, f)'
    BY <1>2, <1>3, <1>7, <2>1, <2>2 DEF OnlyFlush
  <2> QED
    BY <2>3 DEF PathQuiet
<1>8. CASE writeQueue[p] # <<>> /\ Holders(p) # {}
  BY <1>2, <1>8 DEF PathQuiet
<1> QED
  BY <1>6, <1>7, <1>8

(* What is written over no more than it covers is what the file is then.   *)
LEMMA OverIsData ==
  ASSUME NEW data \in Seq(Nat), NEW old \in Seq(Nat), Len(old) <= Len(data)
  PROVE  Over(data, old) = data
<1>1. SubSeq(old, Len(data) + 1, Len(old)) = <<>>
  OBVIOUS
<1>2. data \o <<>> = data
  OBVIOUS
<1> QED
  BY <1>1, <1>2 DEF Over

(* Room made in an empty file is as long as the batch.                     *)
LEMMA RoomMade ==
  ASSUME NEW n \in Nat
  PROVE  Preallocated(n, <<>>) \in Seq(Nat) /\ Len(Preallocated(n, <<>>)) = n
<1>1. Preallocated(n, <<>>) = [i \in 1 .. n |-> Zero]
  <2>1. \A i \in 1 .. n : ~(i <= 0)
    OBVIOUS
  <2>2. (IF n > 0 THEN n ELSE 0) = n
    OBVIOUS
  <2>3. Len(<<>>) = 0
    OBVIOUS
  <2> QED
    BY <2>1, <2>2, <2>3 DEF Preallocated
<1> QED
  BY <1>1 DEF Zero

(* No step of a flush disturbs a path that is quiet or has one flush.      *)
LEMMA FlushNextQuiet ==
  ASSUME IoInvariant, IoInvariant', NEW f \in Flushers, FlushNext(f),
         NEW p \in Paths, PathQuiet(p)
  PROVE  PathQuiet(p)'
<1>0. files = [r \in Paths |-> files[r]]
  BY DEF IoInvariant, IoTyped
<1>1. ASSUME NEW old, At(f, old)
      PROVE  /\ Path(f) \in Paths /\ flush[f].pc = old
             /\ Batch(f) \in Seq(Nat) /\ Batch(f) = flush[f].pending[Path(f)]
             /\ OnlyFlush(Path(f), f) => Batch(f) = latest[Path(f)]
  BY <1>1, AtMeans DEF IoInvariant, OnlyFlush
<1>2. CASE OpenFile(f)
  <2>1. PICK q \in Paths : q = Path(f)
    BY <1>1, <1>2 DEF OpenFile
  <2>2. files'[q] = <<>> /\ \A r \in Paths : r # q => files'[r] = files[r]
    BY <1>0, <1>2, <2>1 DEF OpenFile, Truncated
  <2>3. /\ At(f, "next") /\ GoOn(f, "opened") /\ UNCHANGED <<written, lost, latest, shared>>
        /\ "opened" \in FlushSteps
    BY <1>2 DEF OpenFile, FlushSteps
  <2> QED
    BY <2>1, <2>2, <2>3, GoOnQuiet
<1>3. CASE Preallocate(f)
  <2>1. PICK q \in Paths : q = Path(f)
    BY <1>1, <1>3 DEF Preallocate
  <2>2. /\ files'[q] = Preallocated(Len(Batch(f)), files[q])
        /\ \A r \in Paths : r # q => files'[r] = files[r]
    BY <1>0, <1>3, <2>1 DEF Preallocate
  <2>3. /\ At(f, "opened") /\ GoOn(f, "sized") /\ UNCHANGED <<written, lost, latest, shared>>
        /\ "sized" \in FlushSteps
    BY <1>3 DEF Preallocate, FlushSteps
  <2>4. ASSUME OnlyFlush(q, f), FileAsFar(q, "opened")
        PROVE  files'[q] \in Seq(Nat) /\ Len(files'[q]) = Len(latest[q])
    <3>1. files[q] = <<>> /\ Batch(f) = latest[q] /\ Len(Batch(f)) \in Nat
      BY <1>1, <2>1, <2>3, <2>4 DEF FileAsFar
    <3> QED
      BY <2>2, <3>1, RoomMade
  <2> QED
    BY <2>1, <2>2, <2>3, <2>4, GoOnQuiet
<1>4. CASE WriteSmall(f)
  <2>1. PICK q \in Paths : q = Path(f)
    BY <1>1, <1>4 DEF WriteSmall
  <2>2. /\ files'[q] = Over(Batch(f), files[q])
        /\ \A r \in Paths : r # q => files'[r] = files[r]
    BY <1>0, <1>4, <2>1 DEF WriteSmall, Wrote
  <2>3. /\ At(f, "opened") /\ NextFile(f) /\ UNCHANGED <<latest, shared>>
        /\ written' = written \cup ToSet(Batch(f)) /\ lost' = lost
    BY <1>4 DEF WriteSmall, Wrote
  <2>4. ASSUME OnlyFlush(q, f), FileAsFar(q, "opened")
        PROVE  files'[q] = latest[q]
    <3>1. files[q] = <<>> /\ Batch(f) = latest[q] /\ Batch(f) \in Seq(Nat)
      BY <1>1, <2>1, <2>3, <2>4 DEF FileAsFar
    <3>2. <<>> \in Seq(Nat) /\ Len(<<>>) <= Len(Batch(f))
      BY <3>1
    <3> QED
      BY <2>2, <3>1, <3>2, OverIsData
  <2> QED
    BY <2>1, <2>2, <2>3, <2>4, NextFileQuiet
<1>5. CASE WriteMapped(f)
  <2>1. PICK q \in Paths : q = Path(f)
    BY <1>1, <1>5 DEF WriteMapped
  <2>2. /\ files'[q] = Over(Batch(f), files[q])
        /\ \A r \in Paths : r # q => files'[r] = files[r]
    BY <1>0, <1>5, <2>1 DEF WriteMapped, Wrote
  <2>3. /\ At(f, "mapped") /\ NextFile(f) /\ UNCHANGED <<latest, shared>>
        /\ written' = written \cup ToSet(Batch(f)) /\ lost' = lost
    BY <1>5 DEF WriteMapped, Wrote
  <2>4. ASSUME OnlyFlush(q, f), FileAsFar(q, "mapped")
        PROVE  files'[q] = latest[q]
    <3>1. /\ files[q] \in Seq(Nat) /\ Len(files[q]) = Len(latest[q])
          /\ Batch(f) = latest[q] /\ Batch(f) \in Seq(Nat)
      BY <1>1, <2>1, <2>3, <2>4 DEF FileAsFar
    <3>2. Len(files[q]) <= Len(Batch(f))
      BY <3>1
    <3> QED
      BY <2>2, <3>1, <3>2, OverIsData
  <2> QED
    BY <2>1, <2>2, <2>3, <2>4, NextFileQuiet
<1>6. CASE Map(f)
  <2>1. CASE Fits(f)
    <3>1. /\ At(f, "sized") /\ GoOn(f, "mapped") /\ UNCHANGED <<files, written, lost, latest, shared>>
          /\ "mapped" \in FlushSteps
      BY <1>6, <2>1 DEF Map, FlushSteps
    <3>2. FileAsFar(Path(f), "sized") =>
            files'[Path(f)] \in Seq(Nat) /\ Len(files'[Path(f)]) = Len(latest[Path(f)])
      BY <3>1 DEF FileAsFar
    <3> QED
      BY <3>1, <3>2, GoOnQuiet
  <2>2. CASE ~Fits(f)
    BY <1>6, <2>2, EndQuiet DEF Map
  <2> QED
    BY <2>1, <2>2
<1>7. CASE BusError(f)
  BY <1>7, QueueWriteQuiet DEF BusError
<1>8. CASE WriteFails(f)
  <2>1. PICK old \in {"next", "sized", "opened"} : At(f, old)
    BY <1>8 DEF WriteFails
  <2>2. PICK q \in Paths : q = Path(f)
    BY <1>1, <2>1
  <2>3. \A r \in Paths : r # q => files'[r] = files[r]
    BY <1>0, <1>8, <2>2 DEF WriteFails
  <2>4. /\ NextFile(f) /\ UNCHANGED <<latest, shared>>
        /\ written' = written /\ lost' = lost \cup ToSet(Batch(f))
    BY <1>8 DEF WriteFails
  <2> QED
    BY <2>1, <2>2, <2>3, <2>4, NextFileQuiet
<1>9. CASE EndFlush(f)
  <2>1. UNION {ToSet(flush[f].pending[r]) : r \in Paths} = {}
    <3>1. \A r \in Paths : flush[f].pending[r] = <<>>
      BY <1>9 DEF EndFlush, NoneQueued
    <3> QED
      BY <3>1, NoChunks
  <2> QED
    BY <1>9, <2>1, EndQuiet DEF EndFlush
<1> QED
  BY <1>2, <1>3, <1>4, <1>5, <1>6, <1>7, <1>8, <1>9 DEF FlushNext

(* The reader: what it read in a quiet moment is the latest batch.         *)
LEMMA WorkerCache ==
  ASSUME IoInvariant, QuietInvariant, NEW w \in Prefetchers, WorkerNext(w)
  PROVE  CacheRight'
<1>0. /\ worker = [v \in Prefetchers |-> worker[v]]
      /\ prefetchCache = [p \in Paths |-> prefetchCache[p]]
      /\ CacheRight
  BY DEF IoInvariant, IoTyped, QuietInvariant
<1>1. ASSUME NEW list, worker' = [worker EXCEPT ![w] = list], UNCHANGED prefetchCache,
             list.pc = "mapped" /\ list.seen # <<>> => list.length = Len(list.seen),
             list.pc = "store" => list.data = list.expect,
             list.pc # "idle" => list.todo \in Seq(Paths) \ {<<>>}
      PROVE  CacheRight'
  <2>1. worker'[w] = list /\ \A v \in Prefetchers : v # w => worker'[v] = worker[v]
    BY <1>0, <1>1
  <2> QED
    BY <1>0, <1>1, <2>1 DEF CacheRight
<1>2. NoPrefetch.pc = "idle"
  BY DEF NoPrefetch
<1>3. CASE \E paths \in PathLists : Prefetch(w, paths)
  <2>1. PICK paths \in PathLists : Prefetch(w, paths)
    BY <1>3
  <2>2. paths \in Seq(Paths) \ {<<>>}
    BY IoAssumption
  <2> QED
    BY <1>1, <2>1, <2>2 DEF Prefetch
<1>4. ASSUME Skip(w), worker[w].pc # "idle"
      PROVE  \E list : /\ worker' = [worker EXCEPT ![w] = list]
                       /\ list.pc \in {"idle", "stat"}
                       /\ list.pc # "idle" => list.todo \in Seq(Paths) \ {<<>>}
  <2>1. PICK todo \in Seq(Paths) : todo = worker[w].todo /\ todo # <<>>
    BY <1>0, <1>4 DEF CacheRight
  <2>2. Len(todo) # 1 => Tail(todo) \in Seq(Paths) \ {<<>>}
    <3>1. Len(todo) \in Nat \ {0} /\ Tail(todo) \in Seq(Paths)
      BY <2>1
    <3>2. Len(Tail(todo)) = Len(todo) - 1
      BY <2>1
    <3>3. Len(<<>>) = 0
      OBVIOUS
    <3>4. Len(todo) # 1 => Len(Tail(todo)) # 0
      BY <3>1, <3>2
    <3> QED
      BY <3>1, <3>3, <3>4, Zenon
  <2>3. CASE Len(todo) = 1
    <3>1. worker' = [worker EXCEPT ![w] = NoPrefetch]
      BY <1>4, <2>1, <2>3 DEF Skip
    <3> QED
      BY <1>2, <3>1
  <2>4. CASE Len(todo) # 1
    <3> DEFINE rest == [pc |-> "stat", todo |-> Tail(todo)]
    <3>1. worker' = [worker EXCEPT ![w] = rest]
      BY <1>4, <2>1, <2>4 DEF Skip
    <3>2. rest.pc = "stat" /\ rest.todo \in Seq(Paths) \ {<<>>}
      BY <2>2, <2>4
    <3> HIDE DEF rest
    <3> QED
      BY <3>1, <3>2
  <2> QED
    BY <2>3, <2>4
<1>5. CASE StatFile(w)
  <2>1. worker[w].pc # "idle" /\ UNCHANGED prefetchCache
    BY <1>5 DEF StatFile, Prefetching
  <2>2. CASE files[Head(worker[w].todo)] = NoFile
    BY <1>1, <1>4, <1>5, <2>1, <2>2 DEF StatFile
  <2>3. CASE files[Head(worker[w].todo)] # NoFile
    <3>1. worker' = [worker EXCEPT ![w] =
            [pc |-> "read", todo |-> worker[w].todo, size |-> Len(files[Head(worker[w].todo)])]]
      BY <1>5, <2>3 DEF StatFile
    <3> QED
      BY <1>0, <1>1, <2>1, <3>1 DEF CacheRight
  <2> QED
    BY <2>2, <2>3
<1>6. ASSUME Prefetching(w, "read") \/ Prefetching(w, "mapped")
      PROVE  /\ worker[w].pc # "idle"
             /\ worker[w].todo \in Seq(Paths) \ {<<>>}
             /\ Reading(w) \in Paths
             /\ Quiet(Reading(w)) => files[Reading(w)] = latest[Reading(w)]
  <2>1. worker[w].pc # "idle" /\ worker[w].todo \in Seq(Paths) \ {<<>>}
    BY <1>0, <1>6 DEF Prefetching, CacheRight
  <2>2. Reading(w) \in Paths
    BY <2>1 DEF Reading
  <2> QED
    BY <2>1, <2>2, QuietMeans DEF QuietInvariant
<1>7. ASSUME NEW data, NEW expect, HasRead(w, data, expect), data = expect,
             Prefetching(w, "read") \/ Prefetching(w, "mapped"), UNCHANGED prefetchCache
      PROVE  CacheRight'
  <2> DEFINE found == [pc |-> "store", todo |-> worker[w].todo, data |-> data,
                       expect |-> expect]
  <2>1. worker' = [worker EXCEPT ![w] = found]
    BY <1>7 DEF HasRead
  <2>2. found.data = found.expect /\ found.pc = "store" /\ found.todo = worker[w].todo
    BY <1>7
  <2> HIDE DEF found
  <2> QED
    BY <1>1, <1>6, <1>7, <2>1, <2>2
<1>8. CASE ReadPlain(w)
  <2>1. Prefetching(w, "read") /\ UNCHANGED prefetchCache
    BY <1>8 DEF ReadPlain
  <2>2. PICK data, expect :
          /\ data = files[Reading(w)]
          /\ expect = IF Quiet(Reading(w)) THEN latest[Reading(w)] ELSE data
          /\ HasRead(w, data, expect)
    BY <1>8 DEF ReadPlain, Contents
  <2>3. data = expect
    BY <1>6, <2>1, <2>2
  <2> QED
    BY <1>7, <2>1, <2>2, <2>3
<1>9. CASE MapForReading(w)
  <2>1. Prefetching(w, "read") /\ UNCHANGED prefetchCache
    BY <1>9 DEF MapForReading
  <2>2. PICK q : q = Reading(w)
    OBVIOUS
  <2> DEFINE mapping == [pc |-> "mapped", todo |-> worker[w].todo, length |-> Len(files[q]),
                         seen |-> IF Quiet(q) THEN latest[q] ELSE <<>>]
  <2>3. PICK list : /\ list \in {NoPrefetch, mapping}
                    /\ worker' = [worker EXCEPT ![w] = list]
    BY <1>9, <2>2 DEF MapForReading, Contents
  <2>4. mapping.seen # <<>> => mapping.length = Len(mapping.seen)
    BY <1>6, <2>1, <2>2
  <2>5. mapping.pc = "mapped" /\ mapping.todo = worker[w].todo
    OBVIOUS
  <2> HIDE DEF mapping
  <2>6. CASE list = NoPrefetch
    BY <1>1, <1>2, <2>1, <2>3, <2>6
  <2>7. CASE list = mapping
    BY <1>1, <1>6, <2>1, <2>3, <2>4, <2>5, <2>7
  <2> QED
    BY <2>3, <2>6, <2>7
<1>10. CASE ReadMapped(w)
  <2>1. Prefetching(w, "mapped") /\ UNCHANGED prefetchCache
    BY <1>10 DEF ReadMapped
  <2>2. PICK q \in Paths : q = Reading(w)
    BY <1>6, <2>1
  <2>3. PICK data, expect :
          /\ data = SubSeq(files[q], 1, worker[w].length)
          /\ expect = IF Quiet(q) /\ worker[w].seen = latest[q] THEN latest[q] ELSE data
          /\ HasRead(w, data, expect)
    BY <1>10, <2>2 DEF ReadMapped
  <2>4. CASE Quiet(q) /\ worker[w].seen = latest[q]
    <3>1. latest[q] \in Seq(Nat) /\ latest[q] # <<>>
      BY <2>4 DEF Quiet, IoInvariant, IoTyped
    <3>2. worker[w].length = Len(latest[q])
      BY <1>0, <2>1, <2>4, <3>1 DEF CacheRight, Prefetching
    <3>3. files[q] = latest[q]
      BY <1>6, <2>1, <2>2, <2>4
    <3>4. data = latest[q]
      BY <2>3, <3>1, <3>2, <3>3
    <3> QED
      BY <1>7, <2>1, <2>3, <2>4, <3>4
  <2>5. CASE ~(Quiet(q) /\ worker[w].seen = latest[q])
    BY <1>7, <2>1, <2>3, <2>5
  <2> QED
    BY <2>4, <2>5
<1>11. CASE ReadBusError(w)
  BY <1>0, <1>11 DEF ReadBusError, CacheRight
<1>12. CASE ReadFails(w)
  <2>1. worker[w].pc # "idle" /\ UNCHANGED prefetchCache
    BY <1>12 DEF ReadFails, Prefetching
  <2>2. Skip(w)
    BY <1>12 DEF ReadFails
  <2> QED
    BY <1>1, <1>4, <2>1, <2>2
<1>13. CASE StorePrefetched(w)
  <2>1. worker[w].pc = "store"
    BY <1>13 DEF StorePrefetched, Prefetching
  <2>2. PICK q : q = Head(worker[w].todo)
    OBVIOUS
  <2>3. worker[w].data = worker[w].expect
    BY <1>0, <2>1 DEF CacheRight
  <2>4. PICK entry : entry = [data |-> worker[w].data, expect |-> worker[w].expect]
    OBVIOUS
  <2>5. prefetchCache' = [prefetchCache EXCEPT ![q] = entry] /\ entry.data = entry.expect
    BY <1>13, <2>2, <2>3, <2>4 DEF StorePrefetched
  <2>6. \A p \in Paths : prefetchCache'[p] # NoFile =>
          prefetchCache'[p].data = prefetchCache'[p].expect
    BY <1>0, <2>5 DEF CacheRight
  <2>7. PICK list : /\ worker' = [worker EXCEPT ![w] = list]
                    /\ list.pc \in {"idle", "stat"}
                    /\ list.pc # "idle" => list.todo \in Seq(Paths) \ {<<>>}
    BY <1>4, <1>13, <2>1 DEF StorePrefetched
  <2>8. worker'[w] = list /\ \A v \in Prefetchers : v # w => worker'[v] = worker[v]
    BY <1>0, <2>7
  <2> QED
    BY <1>0, <2>6, <2>7, <2>8 DEF CacheRight
<1> QED
  BY <1>3, <1>5, <1>8, <1>9, <1>10, <1>11, <1>12, <1>13 DEF WorkerNext

(* What quiet paths and the read-ahead cache are like, step by step.       *)
LEMMA QuietStep ==
  IoInvariant /\ IoInvariant' /\ QuietInvariant /\ [IoNext]_ioVars => QuietInvariant'
<1> SUFFICES ASSUME IoInvariant, IoInvariant', QuietInvariant, [IoNext]_ioVars
             PROVE  QuietInvariant'
  OBVIOUS
<1>0. CacheRight /\ \A p \in Paths : PathQuiet(p)
  BY DEF QuietInvariant
<1>1. ASSUME NEW q \in Paths, QueueWrite(q)
      PROVE  QuietInvariant'
  BY <1>0, <1>1, QueueWriteQuiet DEF QueueWrite, QuietInvariant, CacheRight
<1>2. ASSUME NEW f \in Flushers, NEW closing \in BOOLEAN, TakeBatches(f, closing)
      PROVE  QuietInvariant'
  <2>1. \A p \in Paths : PathQuiet(p)'
    BY <1>0, <1>2, TakeBatchesQuiet
  <2>2. CacheRight'
    BY <1>0, <1>2 DEF TakeBatches, CacheRight
  <2> QED
    BY <2>1, <2>2 DEF QuietInvariant
<1>3. ASSUME NEW f \in Flushers, FlushNext(f)
      PROVE  QuietInvariant'
  <2>1. \A p \in Paths : PathQuiet(p)'
    BY <1>0, <1>3, FlushNextQuiet
  <2>2. UNCHANGED worker
    BY <1>3 DEF FlushNext, OpenFile, WriteSmall, Preallocate, Map, WriteMapped, BusError,
                WriteFails, EndFlush, Wrote
  <2>3. \/ UNCHANGED prefetchCache
        \/ prefetchCache' = [p \in Paths |-> NoFile]
    BY <1>3 DEF FlushNext, OpenFile, WriteSmall, Preallocate, Map, WriteMapped, BusError,
                WriteFails, EndFlush, Wrote
  <2>4. CacheRight'
    BY <1>0, <2>2, <2>3 DEF CacheRight
  <2> QED
    BY <2>1, <2>4 DEF QuietInvariant
<1>4. ASSUME NEW w \in Prefetchers, WorkerNext(w)
      PROVE  QuietInvariant'
  <2>1. UNCHANGED <<files, flush, written, lost, latest, shared>>
    BY <1>4 DEF WorkerNext, Prefetch, StatFile, ReadFails, ReadPlain, MapForReading, ReadMapped,
              ReadBusError, StorePrefetched
  <2> QED
    BY <1>0, <1>4, <2>1, QueueWriteQuiet, WorkerCache DEF QuietInvariant
<1>5. CASE IoNext
  BY <1>1, <1>2, <1>3, <1>4, <1>5, IoNextMeans
<1>6. CASE UNCHANGED ioVars
  BY <1>0, <1>6, QueueWriteQuiet DEF ioVars, QuietInvariant, CacheRight
<1> QED
  BY <1>5, <1>6

(* A file nobody writes to is the latest batch, whole, when the batch had  *)
(* the path to itself; what was read ahead of it then is that batch too.   *)
THEOREM QuietFilesAlwaysWhole == IoSpec => []QuietFilesWhole
<1>1. IoInvariant /\ QuietInvariant => QuietFilesWhole
  BY QuietMeans DEF QuietFilesWhole, QuietInvariant, CacheRight
<1> QED
  BY <1>1, IoInitially, IoStep, QuietInitially, QuietStep, PTL DEF IoSpec
=============================================================================
