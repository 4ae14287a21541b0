----------------------------- MODULE StringPool -----------------------------
(***************************************************************************)
(* The interning pool of src/uhcr/runtime/string_pool.py and the threads   *)
(* that use it: each gets the global pool, interns contents, releases the  *)
(* objects and collects.  A thread may keep the pool it got or get it      *)
(* again before any call, as intern_string and release_string do.  It may  *)
(* release more than it holds, or clear the pool while strings are in use: *)
(* the code lets it.                                                       *)
(*                                                                         *)
(* An object is known by the number of its making.  A pool is a number     *)
(* too: two threads that find no global pool make one each.                *)
(***************************************************************************)
EXTENDS Integers, FiniteSets

CONSTANTS
  Interners,   (* threads                                                  *)
  Contents,    (* strings                                                  *)
  GcThreshold, (* _gc_threshold                                            *)
  MaxObjects,  (* bound on the objects made (model only)                   *)
  MaxHeld      (* bound on the references to one object (model only)       *)

ASSUME StringAssumption ==
  /\ IsFiniteSet(Interners)
  /\ GcThreshold \in Nat \ {0} /\ MaxObjects \in Nat /\ MaxHeld \in Nat \ {0}

NoPool == 0
Pools  == 1 .. Cardinality(Interners)

VARIABLES
  globalPool,  (* _global_pool                                             *)
  poolOf,      (* poolOf[t]: the pool t got last, or NoPool                *)
  absent,      (* threads that saw no pool and have not made one           *)
  newPool,     (* number of pools made                                     *)
  interned,    (* interned[p]: the objects in _pool, one for a content     *)
  nextId,      (* nextId[p]: _next_id                                      *)
  object,      (* object[o]: the o-th object made                          *)
  newObject,   (* number of objects made                                   *)
  held,        (* held[t][o]: references t has interned and not released   *)
  misused      (* history: a caller broke the rules of release or clear    *)

stringVars ==
  <<globalPool, poolOf, absent, newPool, interned, nextId, object, newObject, held, misused>>
globalVars == <<globalPool, poolOf, absent, newPool>>

Unmade == [content |-> "none", pool |-> NoPool, id |-> 0, refs |-> 0]

StringInit ==
  /\ globalPool = NoPool
  /\ poolOf = [t \in Interners |-> NoPool]
  /\ absent = {}
  /\ newPool = 0
  /\ interned = [p \in Pools |-> {}]
  /\ nextId = [p \in Pools |-> 0]
  /\ object = [o \in 1 .. MaxObjects |-> Unmade]
  /\ newObject = 0
  /\ held = [t \in Interners |-> [o \in 1 .. MaxObjects |-> 0]]
  /\ misused = FALSE

-----------------------------------------------------------------------------
(* get_global_pool, without a lock.                                        *)

PoolThere(t) ==
  /\ t \notin absent
  /\ globalPool \notin {NoPool, poolOf[t]}
  /\ poolOf' = [poolOf EXCEPT ![t] = globalPool]
  /\ UNCHANGED <<globalPool, absent, newPool, interned, nextId, object, newObject, held, misused>>

PoolAbsent(t) ==
  /\ poolOf[t] = NoPool /\ t \notin absent
  /\ globalPool = NoPool
  /\ absent' = absent \cup {t}
  /\ UNCHANGED <<globalPool, poolOf, newPool, interned, nextId, object, newObject, held, misused>>

MakePool(t) ==
  /\ t \in absent
  /\ newPool' = newPool + 1
  /\ globalPool' = newPool'
  /\ poolOf' = [poolOf EXCEPT ![t] = newPool']
  /\ absent' = absent \ {t}
  /\ UNCHANGED <<interned, nextId, object, newObject, held, misused>>

-----------------------------------------------------------------------------
(* The methods of a pool hold its lock throughout.                         *)

Entry(p, c) == {o \in interned[p] : object[o].content = c}

(* Mutant: a hit leaves the count.                                         *)
SameRefs(o) == object[o].refs

MoreRefs(o) == object[o].refs + 1

InternHit(t, c) ==
  /\ poolOf[t] # NoPool
  /\ \E o \in Entry(poolOf[t], c) :
       /\ held[t][o] < MaxHeld
       /\ object' = [object EXCEPT ![o].refs = MoreRefs(o)]
       /\ held' = [held EXCEPT ![t][o] = @ + 1]
  /\ UNCHANGED <<globalVars, interned, nextId, newObject, misused>>

(* _garbage_collect of a pool that holds these, by their counts.           *)
Referenced(objects, made) == {o \in objects : made[o].refs # 0}

InternMiss(t, c) ==
  LET p == poolOf[t]
  IN  /\ p # NoPool
      /\ Entry(p, c) = {}
      /\ newObject < MaxObjects
      /\ newObject' = newObject + 1
      /\ object' = [object EXCEPT ![newObject'] =
           [content |-> c, pool |-> p, id |-> nextId[p], refs |-> 1]]
      /\ nextId' = [nextId EXCEPT ![p] = @ + 1]
      /\ LET all == interned[p] \cup {newObject'}
         IN  interned' = [interned EXCEPT ![p] =
               IF Cardinality(all) >= GcThreshold THEN Referenced(all, object') ELSE all]
      /\ held' = [held EXCEPT ![t][newObject'] = 1]
      /\ UNCHANGED <<globalVars, misused>>

(* The count of an object is lowered whatever pool it is of, and stays     *)
(* lowered when that raises.                                               *)
Release(t, o) ==
  /\ o <= newObject /\ poolOf[t] # NoPool
  /\ object[o].refs >= 0
  /\ object' = [object EXCEPT ![o].refs = @ - 1]
  /\ IF held[t][o] > 0
     THEN held' = [held EXCEPT ![t][o] = @ - 1] /\ UNCHANGED misused
     ELSE misused' = TRUE /\ UNCHANGED held
  /\ UNCHANGED <<globalVars, interned, nextId, newObject>>

GarbageCollect(t) ==
  LET p == poolOf[t]
  IN  /\ p # NoPool
      /\ Referenced(interned[p], object) # interned[p]
      /\ interned' = [interned EXCEPT ![p] = Referenced(@, object)]
      /\ UNCHANGED <<globalVars, nextId, object, newObject, held, misused>>

InUse(p) == \E t \in Interners : \E o \in interned[p] : held[t][o] > 0

Clear(t) ==
  LET p == poolOf[t]
  IN  /\ p # NoPool
      /\ interned[p] # {}
      /\ interned' = [interned EXCEPT ![p] = {}]
      /\ nextId' = [nextId EXCEPT ![p] = 0]
      /\ misused' = (misused \/ InUse(p))
      /\ UNCHANGED <<globalVars, object, newObject, held>>

StringNext == \E t \in Interners :
  \/ PoolThere(t) \/ PoolAbsent(t) \/ MakePool(t)
  \/ \E c \in Contents : InternHit(t, c) \/ InternMiss(t, c)
  \/ \E o \in 1 .. MaxObjects : Release(t, o)
  \/ GarbageCollect(t) \/ Clear(t)

StringSpec == StringInit /\ [][StringNext]_stringVars

-----------------------------------------------------------------------------
(* Properties.                                                             *)

HeldObjects == {o \in 1 .. newObject : \E t \in Interners : held[t][o] > 0}

References(o) ==
  Cardinality({r \in Interners \X (1 .. MaxHeld) : r[2] <= held[r[1]][o]})

(* intern returns "the canonical InternedString object": while callers     *)
(* keep the rules, two references in use to equal content of a pool are to *)
(* one object and no two of its objects share an id, whatever was          *)
(* released, collected, cleared and interned again between; a count is the *)
(* number of references.                                                   *)
InternedOnce == misused \/
  /\ \A o, q \in HeldObjects :
       o # q /\ object[o].pool = object[q].pool =>
         object[o].content # object[q].content /\ object[o].id # object[q].id
  /\ \A o \in HeldObjects : object[o].refs = References(o)
=============================================================================
