-------------------------- MODULE CoordinatorProofs --------------------------
(***************************************************************************)
(* The registry for any number of workers, of concurrent health checks, of *)
(* job hints and any threshold: no false alarm, no silent worker in the    *)
(* pool, no answering worker outside it; fair turns; affinities honoured.  *)
(*                                                                         *)
(* The loads and the cursor play no part in the health of the registry: its *)
(* inductive invariant HInv types the registry and the clocks, and adds    *)
(* that every clock reading kept anywhere lies in the past.  SInv builds on *)
(* it for the schedulers.                                                  *)
(***************************************************************************)
EXTENDS Coordinator, SequenceTheorems, FiniteSetTheorems, TLAPS

RegistryTypeOK ==
  /\ order \in Seq(Workers)
  /\ heartbeat \in [Workers -> Nat]
  /\ healthy \in [Workers -> BOOLEAN]
  /\ check \in [Checkers -> Nat \cup {NotChecking}]
  /\ checked \in [Workers -> Nat \cup {NotChecking}]
  /\ clock \in Nat

OneEntryEach == \A i, k \in DOMAIN order : order[i] = order[k] => i = k

ReadingsPast ==
  /\ \A c \in Checkers : check[c] <= clock
  /\ \A w \in Workers : checked[w] <= clock

HInv ==
  /\ RegistryTypeOK
  /\ OneEntryEach
  /\ ReadingsPast
  /\ SilentStaysOut
  /\ AnsweringStaysIn

-----------------------------------------------------------------------------
(* The registry as a dictionary. *)

(* register_worker adds the key it is given and no other, at most once.    *)
LEMMA RegisterKeys ==
  ASSUME RegistryTypeOK, OneEntryEach, NEW w \in Workers,
         order' = IF w \in Registered THEN order ELSE Append(order, w)
  PROVE  /\ order' \in Seq(Workers)
         /\ OneEntryEach'
         /\ Registered' = Registered \cup {w}
<1>1. CASE w \in Registered
  BY <1>1 DEF RegistryTypeOK, OneEntryEach, Registered
<1>2. CASE w \notin Registered
  <2>1. /\ order' \in Seq(Workers)
        /\ Len(order') = Len(order) + 1
        /\ \A i \in 1 .. Len(order) : order'[i] = order[i]
        /\ order'[Len(order) + 1] = w
    BY <1>2 DEF RegistryTypeOK
  <2>2. /\ DOMAIN order = 1 .. Len(order) /\ Len(order) \in Nat
        /\ DOMAIN order' = 1 .. (Len(order) + 1)
    BY <2>1 DEF RegistryTypeOK
  <2>3. \A i \in 1 .. Len(order) : order[i] # w
    BY <1>2, <2>2 DEF Registered
  <2>4. OneEntryEach'
    BY <2>1, <2>2, <2>3 DEF OneEntryEach
  <2>5. Registered' = Registered \cup {w}
    BY <2>1, <2>2 DEF Registered
  <2> QED
    BY <2>1, <2>4, <2>5
<1> QED
  BY <1>1, <1>2

(* deregister_worker removes its key and no other. *)
LEMMA DeregisterKeys ==
  ASSUME RegistryTypeOK, OneEntryEach, NEW w \in Workers, NEW i \in DOMAIN order,
         order[i] = w, order' = RemoveAt(order, i)
  PROVE  /\ order' \in Seq(Workers)
         /\ OneEntryEach'
         /\ Registered' = Registered \ {w}
<1> DEFINE n == Len(order)
           front == SubSeq(order, 1, i - 1)
           back == SubSeq(order, i + 1, n)
<1>1. /\ n \in Nat /\ DOMAIN order = 1 .. n /\ i \in 1 .. n
      /\ \A k \in 1 .. n : order[k] \in Workers
  BY DEF RegistryTypeOK
<1>2. /\ front \in Seq(Workers)
      /\ Len(front) = i - 1
      /\ \A k \in 1 .. i - 1 : front[k] = order[k]
  <2>1. /\ front \in Seq(Workers)
        /\ Len(front) = IF 1 <= i - 1 THEN i - 1 - 1 + 1 ELSE 0
        /\ \A k \in 1 .. i - 1 - 1 + 1 : front[k] = order[1 + k - 1]
    BY <1>1, SubSeqProperties
  <2> QED
    BY <1>1, <2>1
<1>3. /\ back \in Seq(Workers)
      /\ Len(back) = n - i
      /\ \A k \in 1 .. n - i : back[k] = order[i + k]
  <2>1. /\ back \in Seq(Workers)
        /\ Len(back) = IF i + 1 <= n THEN n - (i + 1) + 1 ELSE 0
        /\ \A k \in 1 .. n - (i + 1) + 1 : back[k] = order[i + 1 + k - 1]
    BY <1>1, SubSeqProperties
  <2> QED
    BY <1>1, <2>1
<1>4. /\ order' \in Seq(Workers)
      /\ Len(order') = n - 1
      /\ DOMAIN order' = 1 .. n - 1
      /\ \A k \in 1 .. n - 1 : order'[k] = IF k < i THEN order[k] ELSE order[k + 1]
  <2>1. order' = front \o back
    BY DEF RemoveAt
  <2> HIDE DEF front, back, n
  <2>2. /\ order' \in Seq(Workers)
        /\ Len(order') = (i - 1) + (n - i)
        /\ \A k \in 1 .. (i - 1) + (n - i) :
             order'[k] = IF k <= i - 1 THEN front[k] ELSE back[k - (i - 1)]
    BY <1>2, <1>3, <2>1, ConcatProperties
  <2>3. (i - 1) + (n - i) = n - 1
    BY <1>1
  <2>4. ASSUME NEW k \in 1 .. n - 1
        PROVE  order'[k] = IF k < i THEN order[k] ELSE order[k + 1]
    <3>1. CASE k < i
      BY <1>1, <1>2, <2>2, <2>3, <3>1
    <3>2. CASE k >= i
      <4>1. k - (i - 1) \in 1 .. n - i /\ i + (k - (i - 1)) = k + 1 /\ ~(k <= i - 1)
        BY <1>1, <3>2
      <4>2. order'[k] = back[k - (i - 1)]
        BY <2>2, <2>3, <4>1
      <4>3. back[k - (i - 1)] = order[i + (k - (i - 1))]
        BY <1>3, <4>1
      <4>4. order'[k] = order[k + 1] /\ ~(k < i)
        BY <1>1, <3>2, <4>1, <4>2, <4>3
      <4> QED
        BY <4>4
    <3> QED
      BY <1>1, <3>1, <3>2
  <2> QED
    BY <2>2, <2>3, <2>4
<1> HIDE DEF front, back
<1> HIDE DEF n
<1>5. OneEntryEach'
  <2>1. ASSUME NEW j \in 1 .. n - 1, NEW k \in 1 .. n - 1, order'[j] = order'[k]
        PROVE  j = k
    <3> DEFINE at(m) == IF m < i THEN m ELSE m + 1
    <3>1. order'[j] = order[at(j)] /\ order'[k] = order[at(k)]
      BY <1>4
    <3>2. at(j) \in 1 .. n /\ at(k) \in 1 .. n
      BY <1>1
    <3>3. at(j) = at(k)
      BY <1>1, <2>1, <3>1, <3>2 DEF OneEntryEach
    <3> QED
      BY <1>1, <3>3
  <2> QED
    BY <1>4, <2>1 DEF OneEntryEach
<1>6. Registered' = Registered \ {w}
  <2>1. ASSUME NEW v \in Registered' PROVE v \in Registered \ {w}
    <3>1. PICK k \in 1 .. n - 1 : order'[k] = v
      BY <1>4, <2>1 DEF Registered
    <3> DEFINE at == IF k < i THEN k ELSE k + 1
    <3>2. order[at] = v /\ at \in 1 .. n /\ at # i
      BY <1>1, <1>4, <3>1
    <3>3. v # w
      BY <1>1, <3>2 DEF OneEntryEach
    <3> QED
      BY <1>1, <3>2, <3>3 DEF Registered
  <2>2. ASSUME NEW v \in Registered, v # w PROVE v \in Registered'
    <3>1. PICK k \in 1 .. n : order[k] = v
      BY <1>1, <2>2 DEF Registered
    <3>2. CASE k < i
      BY <1>1, <1>4, <3>1, <3>2 DEF Registered
    <3>3. CASE k > i
      <4>1. k - 1 \in 1 .. n - 1 /\ ~(k - 1 < i) /\ (k - 1) + 1 = k
        BY <1>1, <3>3
      <4> QED
        BY <1>4, <3>1, <4>1 DEF Registered
    <3> QED
      BY <1>1, <2>2, <3>1, <3>2, <3>3
  <2> QED
    BY <2>1, <2>2
<1> QED
  BY <1>4, <1>5, <1>6

-----------------------------------------------------------------------------
(* The inductive invariant. *)

(* An empty registry satisfies the invariant. *)
LEMMA InitHInv == CoordInit => HInv
BY CoordinatorAssumption DEF CoordInit, HInv, RegistryTypeOK, OneEntryEach,
   ReadingsPast, SilentStaysOut, AnsweringStaysIn, Registered, NotChecking

(* Every step keeps the invariant; only registrations and removals touch   *)
(* the keys, only heartbeats, registrations and checks the health flags.   *)
LEMMA NextHInv ==
  ASSUME HInv, [CoordNext]_coordVars
  PROVE  HInv'
<1> USE CoordinatorAssumption DEF HInv, RegistryTypeOK, ReadingsPast, NotChecking
<1>1. ASSUME NEW w \in Workers, NEW hb \in 0 .. clock, Register(w, hb)
      PROVE  HInv'
  <2>1. /\ order' \in Seq(Workers)
        /\ OneEntryEach'
        /\ Registered' = Registered \cup {w}
    BY <1>1, RegisterKeys DEF Register
  <2>2. /\ heartbeat' = [heartbeat EXCEPT ![w] = hb]
        /\ healthy' = [healthy EXCEPT ![w] = TRUE]
        /\ checked' = [checked EXCEPT ![w] = -1]
        /\ UNCHANGED <<check, clock>>
    BY <1>1 DEF Register
  <2>3. RegistryTypeOK' /\ ReadingsPast'
    BY <2>1, <2>2
  <2>4. SilentStaysOut' /\ AnsweringStaysIn'
    BY <2>1, <2>2 DEF SilentStaysOut, AnsweringStaysIn
  <2> QED
    BY <2>1, <2>3, <2>4
<1>2. ASSUME NEW w \in Workers, Deregister(w)
      PROVE  HInv'
  <2>1. /\ order' \in Seq(Workers)
        /\ OneEntryEach'
        /\ Registered' = Registered \ {w}
    BY <1>2, DeregisterKeys DEF Deregister
  <2>2. /\ heartbeat' = [heartbeat EXCEPT ![w] = 0]
        /\ healthy' = [healthy EXCEPT ![w] = FALSE]
        /\ checked' = [checked EXCEPT ![w] = -1]
        /\ UNCHANGED <<check, clock>>
    BY <1>2 DEF Deregister
  <2>3. RegistryTypeOK' /\ ReadingsPast'
    BY <2>1, <2>2
  <2>4. SilentStaysOut' /\ AnsweringStaysIn'
    BY <2>1, <2>2 DEF SilentStaysOut, AnsweringStaysIn
  <2> QED
    BY <2>1, <2>3, <2>4
<1>3. ASSUME NEW w \in Workers, UpdateHeartbeat(w)
      PROVE  HInv'
  <2>1. /\ heartbeat' = [heartbeat EXCEPT ![w] = clock]
        /\ healthy' = [healthy EXCEPT ![w] = TRUE]
        /\ UNCHANGED <<order, check, checked, clock>>
    BY <1>3 DEF UpdateHeartbeat
  <2>2. Registered' = Registered /\ OneEntryEach'
    BY <2>1 DEF Registered, OneEntryEach
  <2>3. RegistryTypeOK' /\ ReadingsPast'
    BY <2>1
  <2>4. checked[w] - clock <= Threshold
    <3>1. checked[w] \in Int /\ checked[w] <= clock /\ clock \in Nat /\ Threshold \in Nat
      OBVIOUS
    <3> QED
      BY <3>1
  <2>5. SilentStaysOut'
    BY <2>1, <2>2, <2>4 DEF SilentStaysOut, Registered
  <2>6. AnsweringStaysIn'
    BY <2>1, <2>2 DEF AnsweringStaysIn, Registered
  <2> QED
    BY <2>2, <2>3, <2>5, <2>6
<1>4. ASSUME NEW c \in Checkers, ReadNow(c)
      PROVE  HInv'
  <2>1. /\ check' = [check EXCEPT ![c] = clock]
        /\ UNCHANGED <<order, heartbeat, healthy, checked, clock>>
    BY <1>4 DEF ReadNow, registryVars, historyVars
  <2>2. Registered' = Registered /\ OneEntryEach'
    BY <2>1 DEF Registered, OneEntryEach
  <2>3. RegistryTypeOK' /\ ReadingsPast'
    BY <2>1
  <2>4. SilentStaysOut' /\ AnsweringStaysIn'
    BY <2>1, <2>2 DEF SilentStaysOut, AnsweringStaysIn
  <2> QED
    BY <2>2, <2>3, <2>4
<1>5. ASSUME NEW c \in Checkers, MarkSilent(c)
      PROVE  HInv'
  <2>1. /\ check[c] \in Nat /\ check[c] <= clock
        /\ healthy' = [w \in Workers |->
             IF w \in Registered /\ Silent(w, check[c]) THEN FALSE ELSE healthy[w]]
        /\ check' = [check EXCEPT ![c] = -1]
        /\ checked' = [w \in Workers |->
             IF w \in Registered /\ checked[w] < check[c] THEN check[c] ELSE checked[w]]
        /\ UNCHANGED <<order, heartbeat, clock>>
    BY <1>5 DEF MarkSilent, FinishCheck
  <2>2. Registered' = Registered /\ OneEntryEach'
    BY <2>1 DEF Registered, OneEntryEach
  <2>3. RegistryTypeOK' /\ ReadingsPast'
    <3>1. checked' \in [Workers -> Nat \cup {-1}]
      BY <2>1
    <3>2. healthy' \in [Workers -> BOOLEAN]
      BY <2>1, Zenon
    <3>3. ReadingsPast'
      BY <2>1
    <3> QED
      BY <2>1, <3>1, <3>2, <3>3
  <2>4. Registered \subseteq Workers
    BY DEF Registered
  <2>5. SilentStaysOut'
    BY <2>1, <2>2, <2>4 DEF SilentStaysOut, Silent
  <2>6. ASSUME NEW w \in Registered, ~healthy'[w]
        PROVE  checked'[w] - heartbeat[w] > Threshold
    <3>1. w \in Workers /\ heartbeat[w] \in Nat
      BY <2>4
    <3>2. checked[w] \in Int /\ checked'[w] \in Int
          /\ checked'[w] >= checked[w] /\ checked'[w] >= check[c]
      BY <2>1, <3>1
    <3>3. CASE Silent(w, check[c])
      BY <2>1, <3>1, <3>2, <3>3 DEF Silent
    <3>4. CASE ~Silent(w, check[c])
      <4>1. ~healthy[w]
        BY <2>1, <2>6, <3>1, <3>4
      <4> QED
        BY <3>1, <3>2, <4>1 DEF AnsweringStaysIn
    <3> QED
      BY <3>3, <3>4
  <2>7. AnsweringStaysIn'
    BY <2>1, <2>2, <2>6 DEF AnsweringStaysIn
  <2> QED
    BY <2>2, <2>3, <2>5, <2>7
<1>6. ASSUME \/ AssignRoundRobin \/ AssignLeastLoaded
             \/ \E hint \in Hints : AssignAffinity(hint)
             \/ UNCHANGED coordVars
      PROVE  HInv'
  <2>1. UNCHANGED <<order, heartbeat, healthy, check, checked, clock>>
    BY <1>6 DEF AssignRoundRobin, AssignLeastLoaded, AssignAffinity, Give,
       coordVars, registryVars, historyVars
  <2>2. Registered' = Registered
    BY <2>1 DEF Registered
  <2> QED
    BY <2>1, <2>2 DEF OneEntryEach, SilentStaysOut, AnsweringStaysIn
<1>7. ASSUME Tick
      PROVE  HInv'
  <2>1. /\ clock' = clock + 1
        /\ UNCHANGED <<order, heartbeat, healthy, check, checked>>
    BY <1>7 DEF Tick, registryVars, historyVars
  <2>2. Registered' = Registered /\ OneEntryEach'
    BY <2>1 DEF Registered, OneEntryEach
  <2>3. RegistryTypeOK'
    BY <2>1
  <2>4. ReadingsPast'
    <3>1. \A c \in Checkers : check[c] \in Int /\ check[c] <= clock
      OBVIOUS
    <3>2. \A w \in Workers : checked[w] \in Int /\ checked[w] <= clock
      OBVIOUS
    <3> QED
      BY <2>1, <3>1, <3>2
  <2> QED
    BY <2>1, <2>2, <2>3, <2>4 DEF SilentStaysOut, AnsweringStaysIn
<1> QED
  BY <1>1, <1>2, <1>3, <1>4, <1>5, <1>6, <1>7 DEF CoordNext

(* The invariant holds whatever the workers and the checks do. *)
THEOREM HealthInvariance == CoordSpec => []HInv
BY InitHInv, NextHInv, PTL DEF CoordSpec

-----------------------------------------------------------------------------
(* A worker found silent stays out of the pool until it is heard again,    *)
(* however many checks with older clocks finish later.                     *)
THEOREM SilentNeverReturns == CoordSpec => []SilentStaysOut
BY HealthInvariance, PTL DEF HInv

(* A worker outside the pool has been silent for too long by the reading of *)
(* some finished check: nobody is shut out for another reason.             *)
THEOREM AnsweringNeverShutOut == CoordSpec => []AnsweringStaysIn
BY HealthInvariance, PTL DEF HInv

(* A worker turns unhealthy only in the step of a check, and only if its   *)
(* last heartbeat is older than the threshold at that very moment.         *)
LEMMA AlarmStep ==
  ASSUME HInv, [CoordNext]_coordVars,
         NEW w \in Registered \cap Registered', healthy[w], ~healthy'[w]
  PROVE  clock - heartbeat[w] > Threshold
<1> USE CoordinatorAssumption DEF HInv, RegistryTypeOK, ReadingsPast, NotChecking
<1>1. w \in Workers
  BY DEF Registered
<1>2. ASSUME NEW v \in Workers, Deregister(v)
      PROVE  FALSE
  <2>1. Registered' = Registered \ {v} /\ healthy' = [healthy EXCEPT ![v] = FALSE]
    BY <1>2, DeregisterKeys DEF Deregister
  <2> QED
    BY <1>1, <2>1
<1>3. ASSUME NEW c \in Checkers, MarkSilent(c)
      PROVE  clock - heartbeat[w] > Threshold
  BY <1>1, <1>3 DEF MarkSilent, Silent
<1>4. ASSUME \/ \E v \in Workers : \/ \E hb \in 0 .. clock : Register(v, hb)
                                   \/ UpdateHeartbeat(v)
             \/ \E c \in Checkers : ReadNow(c)
             \/ AssignRoundRobin \/ AssignLeastLoaded
             \/ \E hint \in Hints : AssignAffinity(hint)
             \/ Tick
             \/ UNCHANGED coordVars
      PROVE  FALSE
  BY <1>1, <1>4 DEF Register, UpdateHeartbeat, ReadNow, AssignRoundRobin,
     AssignLeastLoaded, AssignAffinity, Give, Tick, coordVars, registryVars,
     historyVars
<1> QED
  BY <1>2, <1>3, <1>4 DEF CoordNext

(* There is no false alarm. *)
THEOREM NeverFalseAlarm == CoordSpec => NoFalseAlarm
<1>1. HInv /\ [CoordNext]_coordVars =>
        [\A w \in Registered \cap Registered' :
           healthy[w] /\ ~healthy'[w] => clock - heartbeat[w] > Threshold]_coordVars
  BY AlarmStep
<1> QED
  BY <1>1, HealthInvariance, PTL DEF CoordSpec, NoFalseAlarm

-----------------------------------------------------------------------------
(* List comprehensions and least elements.                                 *)

(* Every place is the k-th for exactly one k, so a list comprehension keeps *)
(* every entry that passes the test once, and no other.                    *)
LEMMA KeptPlaces ==
  ASSUME NEW S, NEW list \in Seq(S), NEW places \in SUBSET DOMAIN list
  PROVE  /\ Cardinality(places) \in Nat
         /\ IsFiniteSet(places)
         /\ \A k \in 1 .. Cardinality(places) : Nth(places, k) \in places
         /\ \A i \in places : \E k \in 1 .. Cardinality(places) : Nth(places, k) = i
         /\ \A j, k \in 1 .. Cardinality(places) : Nth(places, j) = Nth(places, k) => j = k
<1> DEFINE n == Cardinality(places)
           upTo(i) == {j \in places : j <= i}
           rank(i) == Cardinality(upTo(i))
           ranks == [i \in places |-> rank(i)]
<1>1. places \subseteq Nat /\ IsFiniteSet(places) /\ n \in Nat
  <2>1. DOMAIN list = 1 .. Len(list) /\ Len(list) \in Nat
    OBVIOUS
  <2>2. IsFiniteSet(1 .. Len(list))
    BY <2>1, FS_Interval
  <2>3. IsFiniteSet(places)
    BY <2>1, <2>2, FS_Subset
  <2> QED
    BY <2>1, <2>3, FS_CardinalityType
<1>2. ASSUME NEW i \in places
      PROVE  /\ upTo(i) \in SUBSET places /\ IsFiniteSet(upTo(i))
             /\ rank(i) \in 1 .. n
  <2>1. upTo(i) \in SUBSET places /\ i \in upTo(i)
    BY <1>1
  <2>2. IsFiniteSet(upTo(i)) /\ rank(i) <= n
    BY <1>1, <2>1, FS_Subset
  <2>3. rank(i) \in Nat /\ rank(i) # 0
    BY <2>1, <2>2, FS_CardinalityType, FS_EmptySet
  <2> QED
    BY <1>1, <2>1, <2>2, <2>3
<1>3. ASSUME NEW i \in places, NEW j \in places, i < j
      PROVE  rank(i) < rank(j)
  <2>1. upTo(i) \in SUBSET upTo(j) /\ upTo(i) # upTo(j)
    BY <1>1, <1>3
  <2>2. rank(i) <= rank(j) /\ rank(i) # rank(j)
    BY <1>2, <2>1, FS_Subset
  <2> HIDE DEF rank, upTo, n
  <2>3. rank(i) \in 1 .. n /\ rank(j) \in 1 .. n
    BY <1>2
  <2> QED
    BY <1>1, <2>2, <2>3
<1>4. \A i, j \in places : rank(i) = rank(j) => i = j
  <2> HIDE DEF rank
  <2>1. ASSUME NEW i \in places, NEW j \in places, rank(i) = rank(j), i # j
        PROVE  FALSE
    <3>1. i \in Nat /\ j \in Nat /\ rank(i) \in 1 .. n /\ rank(j) \in 1 .. n
      BY <1>1, <1>2
    <3>2. CASE i < j
      BY <1>1, <1>3, <2>1, <3>1, <3>2
    <3>3. CASE j < i
      BY <1>1, <1>3, <2>1, <3>1, <3>3
    <3> QED
      BY <2>1, <3>1, <3>2, <3>3
  <2> QED
    BY <2>1
<1>5. \A k \in 1 .. n : \E i \in places : rank(i) = k
  <2> HIDE DEF rank, n
  <2>1. ranks \in Injection(places, 1 .. n)
    BY <1>2, <1>4 DEF Injection, IsInjective
  <2>2. IsFiniteSet(1 .. n) /\ Cardinality(1 .. n) = n
    BY <1>1, FS_Interval
  <2>3. Cardinality(places) = Cardinality(1 .. n)
    BY <2>2 DEF n
  <2>4. ranks \in Surjection(places, 1 .. n)
    BY <2>1, <2>2, <2>3, FS_Injection
  <2> QED
    BY <2>4 DEF Surjection
<1>6. ASSUME NEW k \in 1 .. n
      PROVE  Nth(places, k) \in places /\ rank(Nth(places, k)) = k
  <2>1. PICK i \in places : rank(i) = k
    BY <1>5
  <2> QED
    BY <2>1 DEF Nth
<1>7. ASSUME NEW i \in places
      PROVE  rank(i) \in 1 .. n /\ Nth(places, rank(i)) = i
  <2> HIDE DEF rank
  <2> QED
    BY <1>2, <1>4, <1>6
<1> HIDE DEF n, rank
<1>8. \A i \in places : \E k \in 1 .. n : Nth(places, k) = i
  BY <1>7
<1>9. \A j, k \in 1 .. n : Nth(places, j) = Nth(places, k) => j = k
  BY <1>6
<1> QED
  BY <1>1, <1>6, <1>8, <1>9 DEF n

(* The comprehension as a list.                                            *)
LEMMA KeptList ==
  ASSUME NEW S, NEW list \in Seq(S), NEW places \in SUBSET DOMAIN list
  PROVE  /\ Kept(list, places) \in Seq(S)
         /\ Len(Kept(list, places)) = Cardinality(places)
         /\ DOMAIN Kept(list, places) = 1 .. Cardinality(places)
         /\ {Kept(list, places)[k] : k \in DOMAIN Kept(list, places)}
              = {list[i] : i \in places}
<1> DEFINE kept == Kept(list, places)
           n == Cardinality(places)
<1>1. /\ n \in Nat
      /\ \A k \in 1 .. n : Nth(places, k) \in places
      /\ \A i \in places : \E k \in 1 .. n : Nth(places, k) = i
  BY KeptPlaces
<1>2. \A i \in places : list[i] \in S
  OBVIOUS
<1>3. kept = [k \in 1 .. n |-> list[Nth(places, k)]]
  BY DEF Kept
<1> HIDE DEF kept, n
<1>4. kept \in Seq(S) /\ DOMAIN kept = 1 .. n /\ Len(kept) = n
  <2>1. kept \in [1 .. n -> S]
    BY <1>1, <1>2, <1>3
  <2> QED
    BY <1>1, <2>1
<1>5. {kept[k] : k \in DOMAIN kept} = {list[i] : i \in places}
  BY <1>1, <1>3, <1>4
<1> QED
  BY <1>4, <1>5 DEF kept, n

(* Every set of naturals that is not empty has a least element: among the  *)
(* segments 0 .. x with x in the set one contains no other.                *)
LEMMA LeastOfNaturals ==
  ASSUME NEW T \in SUBSET Nat, T # {}
  PROVE  \E m \in T : \A x \in T : m <= x
<1>1. PICK top \in T : TRUE
  OBVIOUS
<1> DEFINE S == 0 .. top
           R == StrictSubsetOrdering(S)
           segments == {0 .. x : x \in {y \in T : y <= top}}
<1>2. IsWellFoundedOn(R, FiniteSubsetsOf(S))
  BY FS_StrictSubsetOrderingWellFounded
<1>3. segments \subseteq FiniteSubsetsOf(S)
  <2>1. ASSUME NEW x \in T, x <= top
        PROVE  0 .. x \in SUBSET S /\ IsFiniteSet(0 .. x)
    <3>1. x \in Nat /\ top \in Nat
      OBVIOUS
    <3>2. 0 .. x \subseteq 0 .. top
      BY <2>1, <3>1
    <3>3. 0 \in Int /\ x \in Int
      BY <3>1
    <3>4. IsFiniteSet(0 .. x)
      BY <3>3, FS_Interval
    <3> QED
      BY <3>2, <3>4
  <2> QED
    BY <2>1 DEF FiniteSubsetsOf
<1>4. segments # {}
  BY <1>1
<1> HIDE DEF R
<1>5. PICK seg \in segments : \A other \in segments : ~(<<other, seg>> \in R)
  <2> HIDE DEF segments
  <2> QED
    BY <1>2, <1>3, <1>4, WFMin
<1>6. PICK m \in T : m <= top /\ seg = 0 .. m
  BY <1>5
<1>7. ASSUME NEW x \in T
      PROVE  m <= x
  <2>1. x \in Nat /\ m \in Nat /\ top \in Nat
    OBVIOUS
  <2>2. CASE x >= top
    BY <1>6, <2>1, <2>2
  <2>3. CASE x < top
    <3>1. 0 .. x \in segments
      BY <2>1, <2>3
    <3>2. ~(<<0 .. x, 0 .. m>> \in R)
      BY <1>5, <1>6, <3>1
    <3>3. 0 .. x \subseteq S /\ 0 .. m \subseteq S
      BY <1>6, <2>1, <2>3
    <3>4. ~(0 .. x \subseteq 0 .. m /\ 0 .. x # 0 .. m)
      BY <3>2, <3>3, Zenon DEF R, StrictSubsetOrdering
    <3>5. SUFFICES ASSUME x < m PROVE FALSE
      BY <2>1
    <3>6. 0 .. x \subseteq 0 .. m /\ m \in 0 .. m /\ m \notin 0 .. x
      BY <2>1, <3>5
    <3> QED
      BY <3>4, <3>6
  <2> QED
    BY <2>1, <2>2, <2>3
<1> QED
  BY <1>7

-----------------------------------------------------------------------------
(* The pool of healthy workers.                                            *)

(* The places of the healthy workers in the registry.                      *)
PoolPlaces == {i \in DOMAIN order : healthy[order[i]]}

(* The healthy list names every healthy worker of the registry once.       *)
LEMMA PoolOnce ==
  ASSUME RegistryTypeOK, OneEntryEach
  PROVE  /\ HealthyList \in Seq(Workers)
         /\ DOMAIN HealthyList = 1 .. Len(HealthyList)
         /\ {HealthyList[k] : k \in DOMAIN HealthyList} = Healthy
         /\ \A j, k \in DOMAIN HealthyList : HealthyList[j] = HealthyList[k] => j = k
<1> DEFINE n == Cardinality(PoolPlaces)
<1>1. order \in Seq(Workers) /\ PoolPlaces \in SUBSET DOMAIN order
  BY DEF RegistryTypeOK, PoolPlaces
<1>2. HealthyList = Kept(order, PoolPlaces)
  BY DEF HealthyList, PoolPlaces
<1>3. /\ HealthyList \in Seq(Workers)
      /\ DOMAIN HealthyList = 1 .. n
      /\ Len(HealthyList) = n
      /\ {HealthyList[k] : k \in DOMAIN HealthyList} = {order[i] : i \in PoolPlaces}
  <2> HIDE DEF n
  <2>1. /\ Kept(order, PoolPlaces) \in Seq(Workers)
        /\ Len(Kept(order, PoolPlaces)) = Cardinality(PoolPlaces)
        /\ DOMAIN Kept(order, PoolPlaces) = 1 .. Cardinality(PoolPlaces)
        /\ {Kept(order, PoolPlaces)[k] : k \in DOMAIN Kept(order, PoolPlaces)}
             = {order[i] : i \in PoolPlaces}
    BY <1>1, KeptList, ZenonT(60)
  <2> QED
    BY <1>2, <2>1, Zenon DEF n
<1>4. {order[i] : i \in PoolPlaces} = Healthy
  BY DEF PoolPlaces, Healthy, Registered
<1>5. /\ \A k \in 1 .. n : Nth(PoolPlaces, k) \in PoolPlaces
      /\ \A j, k \in 1 .. n : Nth(PoolPlaces, j) = Nth(PoolPlaces, k) => j = k
  BY <1>1, KeptPlaces
<1>6. ASSUME NEW j \in 1 .. n, NEW k \in 1 .. n, HealthyList[j] = HealthyList[k]
      PROVE  j = k
  <2>1. HealthyList[j] = order[Nth(PoolPlaces, j)] /\ HealthyList[k] = order[Nth(PoolPlaces, k)]
    BY <1>2, <1>6 DEF Kept
  <2>2. Nth(PoolPlaces, j) = Nth(PoolPlaces, k)
    BY <1>1, <1>5, <1>6, <2>1 DEF OneEntryEach
  <2> QED
    BY <1>5, <2>2
<1> QED
  BY <1>3, <1>4, <1>6

-----------------------------------------------------------------------------
(* Round robin.                                                            *)

(* The loads, the turns and the cursor.                                    *)
SchedulerTypeOK ==
  /\ active \in [Workers -> Nat]
  /\ turns \in [Workers -> Nat]
  /\ rrIndex \in Nat

(* How far place p of a ring of n places lies behind place s.              *)
Behind(p, s, n) == IF p >= s THEN p - s ELSE p - s + n

(* Since the pool last changed the cursor has gone from place s so many    *)
(* whole rounds, and then on to where it is: the places passed in this     *)
(* round have had one turn more than the others.                           *)
Rotation(s, rounds) ==
  LET n == Len(HealthyList)
      cursor == rrIndex % n
  IN  \A p \in 0 .. n - 1 : turns[HealthyList[p + 1]] =
        IF Behind(p, s, n) < Behind(cursor, s, n) THEN rounds + 1 ELSE rounds

InRotation == HealthyList # <<>> =>
  \E s \in 0 .. Len(HealthyList) - 1, rounds \in Nat : Rotation(s, rounds)

SInv ==
  /\ HInv
  /\ SchedulerTypeOK
  /\ InRotation

(* Arithmetic on the ring of places.                                       *)
LEMMA WithinRing ==
  ASSUME NEW n \in Nat \ {0}, NEW c \in 0 .. n - 1
  PROVE  c % n = c
OBVIOUS

(* The cursor takes place c into the part of the ring it has passed ...    *)
LEMMA CursorMoves ==
  ASSUME NEW n \in Nat \ {0}, NEW s \in 0 .. n - 1, NEW p \in 0 .. n - 1,
         NEW c \in 0 .. n - 1, (c + 1) % n # s
  PROVE  Behind(p, s, n) < Behind((c + 1) % n, s, n)
           <=> Behind(p, s, n) < Behind(c, s, n) \/ p = c
<1>1. (c + 1) % n = IF c + 1 = n THEN 0 ELSE c + 1
  OBVIOUS
<1> QED
  BY <1>1 DEF Behind

(* ... and when that brings it back to where the round began, c was the    *)
(* only place still to be passed.                                          *)
LEMMA RoundEnds ==
  ASSUME NEW n \in Nat \ {0}, NEW s \in 0 .. n - 1, NEW p \in 0 .. n - 1,
         NEW c \in 0 .. n - 1, (c + 1) % n = s
  PROVE  Behind(p, s, n) < Behind(c, s, n) <=> p # c
<1>1. (c + 1) % n = IF c + 1 = n THEN 0 ELSE c + 1
  OBVIOUS
<1> QED
  BY <1>1 DEF Behind

(* A new pool starts a round at the cursor.                                *)
LEMMA NewRound ==
  ASSUME SchedulerTypeOK, RegistryTypeOK, OneEntryEach, turns = [w \in Workers |-> 0]
  PROVE  InRotation
<1>1. SUFFICES ASSUME HealthyList # <<>>
               PROVE  \E s \in 0 .. Len(HealthyList) - 1, rounds \in Nat : Rotation(s, rounds)
  BY DEF InRotation
<1> DEFINE n == Len(HealthyList)
           s == rrIndex % n
<1>2. n \in Nat \ {0} /\ HealthyList \in Seq(Workers)
  BY <1>1, PoolOnce
<1> HIDE DEF n
<1>3. s \in 0 .. n - 1
  BY <1>2 DEF SchedulerTypeOK
<1> HIDE DEF s
<1>4. ASSUME NEW p \in 0 .. n - 1
      PROVE  turns[HealthyList[p + 1]] = 0 /\ ~(Behind(p, s, n) < Behind(s, s, n))
  <2>1. HealthyList[p + 1] \in Workers
    BY <1>2, PoolOnce DEF n
  <2> QED
    BY <1>2, <1>3, <2>1 DEF Behind
<1>5. Rotation(s, 0)
  BY <1>4 DEF Rotation, n, s
<1> QED
  BY <1>3, <1>5 DEF n

(* A job is counted for one worker.                                        *)
LEMMA GiveKeepsType ==
  ASSUME active \in [Workers -> Nat], NEW w, Give(w)
  PROVE  active' \in [Workers -> Nat]
<1>1. CASE w \in Workers
  BY <1>1 DEF Give
<1>2. CASE w \notin Workers
  BY <1>2 DEF Give
<1> QED
  BY <1>1, <1>2

(* Only a turn of the round moves the cursor; whatever else happens, either *)
(* the pool is the same or a new round starts.                             *)
LEMMA RotationStep ==
  ASSUME SInv, [CoordNext]_coordVars, HInv'
  PROVE  SchedulerTypeOK' /\ InRotation'
<1> USE CoordinatorAssumption
<1>1. /\ active \in [Workers -> Nat] /\ turns \in [Workers -> Nat] /\ rrIndex \in Nat
      /\ RegistryTypeOK /\ OneEntryEach /\ InRotation
      /\ RegistryTypeOK' /\ OneEntryEach'
  BY DEF SInv, SchedulerTypeOK, HInv
<1>2. ASSUME SchedulerTypeOK', PoolMayChange, UNCHANGED rrIndex
      PROVE  InRotation'
  <2>1. CASE HealthyList' = HealthyList
    <3>1. turns' = turns
      BY <1>2, <2>1 DEF PoolMayChange
    <3> QED
      BY <1>1, <1>2, <2>1, <3>1 DEF InRotation, Rotation
  <2>2. CASE HealthyList' # HealthyList
    <3>1. turns' = [w \in Workers |-> 0]
      BY <1>2, <2>2 DEF PoolMayChange
    <3>2. (SchedulerTypeOK /\ RegistryTypeOK /\ OneEntryEach
            /\ turns = [w \in Workers |-> 0] => InRotation)'
      BY NewRound, PTL
    <3> QED
      BY <1>1, <1>2, <3>1, <3>2
  <2> QED
    BY <2>1, <2>2
<1>3. ASSUME \/ \E w \in Workers : \/ \E hb \in 0 .. clock : Register(w, hb)
                                  \/ Deregister(w)
                                  \/ UpdateHeartbeat(w)
             \/ \E c \in Checkers : MarkSilent(c)
      PROVE  SchedulerTypeOK' /\ InRotation'
  <2>1. PoolMayChange /\ UNCHANGED rrIndex
    BY <1>3 DEF Register, Deregister, UpdateHeartbeat, MarkSilent
  <2>2. active' \in [Workers -> Nat]
    <3>1. \A w \in Workers, hb \in 0 .. clock : Register(w, hb) => active' \in [Workers -> Nat]
      BY <1>1 DEF Register
    <3>2. \A w \in Workers : Deregister(w) => active' \in [Workers -> Nat]
      BY <1>1 DEF Deregister
    <3>3. \A w \in Workers : UpdateHeartbeat(w) => active' = active
      BY DEF UpdateHeartbeat
    <3>4. \A c \in Checkers : MarkSilent(c) => active' = active
      BY DEF MarkSilent
    <3> QED
      BY <1>1, <1>3, <3>1, <3>2, <3>3, <3>4
  <2>3. turns' \in [Workers -> Nat]
    BY <1>1, <2>1 DEF PoolMayChange
  <2> QED
    BY <1>1, <1>2, <2>1, <2>2, <2>3 DEF SchedulerTypeOK
<1>4. ASSUME \/ AssignLeastLoaded
             \/ \E hint \in Hints : AssignAffinity(hint)
             \/ \E c \in Checkers : ReadNow(c)
             \/ Tick
             \/ UNCHANGED coordVars
      PROVE  SchedulerTypeOK' /\ InRotation'
  <2>1. UNCHANGED <<order, healthy, rrIndex, turns>>
    BY <1>4 DEF AssignLeastLoaded, AssignAffinity, Give, ReadNow, Tick, coordVars,
       registryVars, historyVars
  <2>2. active' \in [Workers -> Nat]
    <3>1. AssignLeastLoaded => active' \in [Workers -> Nat]
      BY <1>1, GiveKeepsType DEF AssignLeastLoaded
    <3>2. \A hint \in Hints : AssignAffinity(hint) => active' \in [Workers -> Nat]
      BY <1>1, GiveKeepsType DEF AssignAffinity
    <3>3. \A c \in Checkers : ReadNow(c) => active' = active
      BY DEF ReadNow, registryVars
    <3>4. Tick => active' = active
      BY DEF Tick, registryVars
    <3>5. UNCHANGED coordVars => active' = active
      BY DEF coordVars, registryVars
    <3> QED
      BY <1>1, <1>4, <3>1, <3>2, <3>3, <3>4, <3>5
  <2>3. HealthyList' = HealthyList
    BY <2>1 DEF HealthyList
  <2> QED
    BY <1>1, <2>1, <2>2, <2>3 DEF SchedulerTypeOK, InRotation, Rotation
<1>5. ASSUME AssignRoundRobin
      PROVE  SchedulerTypeOK' /\ InRotation'
  <2> DEFINE n == Len(HealthyList)
             cursor == rrIndex % n
             chosen == HealthyList[cursor + 1]
  <2>1. /\ HealthyList # <<>> /\ HealthyList \in Seq(Workers)
        /\ n \in Nat \ {0} /\ DOMAIN HealthyList = 1 .. n
        /\ \A j, k \in 1 .. n : HealthyList[j] = HealthyList[k] => j = k
    <3>1. HealthyList # <<>>
      BY <1>5 DEF AssignRoundRobin
    <3>2. /\ HealthyList \in Seq(Workers)
          /\ DOMAIN HealthyList = 1 .. Len(HealthyList)
          /\ \A j, k \in DOMAIN HealthyList : HealthyList[j] = HealthyList[k] => j = k
      BY <1>1, PoolOnce
    <3>3. Len(HealthyList) \in Nat \ {0}
      BY <3>1, <3>2
    <3> QED
      BY <3>1, <3>2, <3>3
  <2>2. /\ UNCHANGED <<order, healthy>>
        /\ active' = [active EXCEPT ![chosen] = @ + 1]
        /\ turns' = [turns EXCEPT ![chosen] = @ + 1]
        /\ rrIndex' = (cursor + 1) % n
    BY <1>5 DEF AssignRoundRobin, Give
  <2>3. HealthyList' = HealthyList
    BY <2>2 DEF HealthyList
  <2>4. PICK s \in 0 .. n - 1, rounds \in Nat : Rotation(s, rounds)
    BY <1>1, <2>1 DEF InRotation
  <2> HIDE DEF n
  <2>5. cursor \in 0 .. n - 1 /\ (cursor + 1) % n \in 0 .. n - 1
    BY <1>1, <2>1
  <2> DEFINE next == (cursor + 1) % n
  <2>6. rrIndex' = next /\ next % n = next
    <3>1. rrIndex' = next
      BY <2>2
    <3>2. next \in 0 .. n - 1
      BY <2>5
    <3> HIDE DEF next
    <3> QED
      BY <2>1, <3>1, <3>2, WithinRing
  <2> HIDE DEF cursor
  <2>7. /\ chosen \in Workers
        /\ \A p \in 0 .. n - 1 : HealthyList[p + 1] \in Workers
        /\ \A p \in 0 .. n - 1 : HealthyList[p + 1] = chosen <=> p = cursor
    <3>1. \A p \in 0 .. n - 1 : p + 1 \in 1 .. n
      BY <2>1
    <3>2. \A p \in 0 .. n - 1 : HealthyList[p + 1] \in Workers
      BY <2>1, <3>1
    <3> QED
      BY <2>1, <2>5, <3>1, <3>2
  <2>8. SchedulerTypeOK'
    <3>1. active' \in [Workers -> Nat]
      BY <1>1, <1>5, GiveKeepsType DEF AssignRoundRobin
    <3>2. turns' \in [Workers -> Nat]
      <4> HIDE DEF chosen
      <4>1. chosen \in Workers
        BY <2>7
      <4> QED
        BY <1>1, <2>2, <4>1
    <3>3. rrIndex' \in Nat
      BY <2>1, <2>2, <2>5
    <3> QED
      BY <3>1, <3>2, <3>3 DEF SchedulerTypeOK
  <2>9. ASSUME NEW p \in 0 .. n - 1
        PROVE  /\ turns[HealthyList[p + 1]]
                    = IF Behind(p, s, n) < Behind(cursor, s, n) THEN rounds + 1 ELSE rounds
               /\ turns'[HealthyList[p + 1]]
                    = IF p = cursor THEN turns[HealthyList[p + 1]] + 1
                      ELSE turns[HealthyList[p + 1]]
    <3>1. turns[HealthyList[p + 1]]
            = IF Behind(p, s, n) < Behind(cursor, s, n) THEN rounds + 1 ELSE rounds
      BY <2>4 DEF Rotation, n, cursor
    <3> QED
      BY <1>1, <2>2, <2>7, <3>1
  <2> HIDE DEF chosen, next
  <2>10. n \in Nat \ {0} /\ s \in 0 .. n - 1 /\ cursor \in 0 .. n - 1
    BY <2>1, <2>4, <2>5
  <2>11. CASE next # s
    <3>1. ASSUME NEW p \in 0 .. n - 1
          PROVE  turns'[HealthyList[p + 1]]
                   = IF Behind(p, s, n) < Behind(next, s, n) THEN rounds + 1 ELSE rounds
      <4>1. Behind(p, s, n) < Behind(next, s, n)
              <=> Behind(p, s, n) < Behind(cursor, s, n) \/ p = cursor
        <5>1. (cursor + 1) % n # s
          BY <2>11 DEF next
        <5> QED
          BY <2>10, <5>1, CursorMoves DEF next
      <4>2. ~(Behind(cursor, s, n) < Behind(cursor, s, n))
        BY <2>10 DEF Behind
      <4> QED
        BY <2>9, <4>1, <4>2
    <3>2. Rotation(s, rounds)'
      BY <2>3, <2>6, <3>1 DEF Rotation, n
    <3> QED
      BY <2>3, <2>8, <3>2 DEF InRotation, n
  <2>12. CASE next = s
    <3>1. ASSUME NEW p \in 0 .. n - 1
          PROVE  /\ turns'[HealthyList[p + 1]] = rounds + 1
                 /\ ~(Behind(p, s, n) < Behind(next, s, n))
      <4>1. Behind(p, s, n) < Behind(cursor, s, n) <=> p # cursor
        <5>1. (cursor + 1) % n = s
          BY <2>12 DEF next
        <5> QED
          BY <2>10, <5>1, RoundEnds
      <4>2. ~(Behind(p, s, n) < Behind(next, s, n))
        BY <2>10, <2>12 DEF Behind
      <4> QED
        BY <2>9, <4>1, <4>2
    <3>2. Rotation(s, rounds + 1)'
      BY <2>3, <2>6, <3>1 DEF Rotation, n
    <3> QED
      BY <2>3, <2>8, <3>2 DEF InRotation, n
  <2> QED
    BY <2>11, <2>12
<1> QED
  BY <1>3, <1>4, <1>5 DEF CoordNext

(* Every step keeps the invariant of the schedulers ...                    *)
LEMMA NextSInv ==
  ASSUME SInv, [CoordNext]_coordVars
  PROVE  SInv'
<1>1. HInv'
  BY NextHInv DEF SInv
<1> QED
  BY <1>1, RotationStep DEF SInv

(* ... which the empty registry satisfies.                                 *)
LEMMA InitSInv == CoordInit => SInv
<1> SUFFICES ASSUME CoordInit PROVE SInv
  OBVIOUS
<1>1. HInv
  BY InitHInv
<1>2. SchedulerTypeOK /\ turns = [w \in Workers |-> 0]
  BY DEF CoordInit, SchedulerTypeOK
<1>3. InRotation
  BY <1>1, <1>2, NewRound DEF HInv
<1> QED
  BY <1>1, <1>2, <1>3 DEF SInv

(* The invariant holds whatever jobs are assigned by whichever strategies. *)
THEOREM SchedulingInvariance == CoordSpec => []SInv
BY InitSInv, NextSInv, PTL DEF CoordSpec

(* While the pool stays the same no worker gets two round-robin turns more *)
(* than another, wherever the cursor stood when the pool last changed.     *)
THEOREM RotationIsFair == CoordSpec => []RoundRobinFair
<1>1. ASSUME SInv PROVE RoundRobinFair
  <2> DEFINE n == Len(HealthyList)
  <2>1. SUFFICES ASSUME NEW v \in Healthy, NEW w \in Healthy
                 PROVE  turns[v] <= turns[w] + 1
    BY DEF RoundRobinFair
  <2>2. PICK i \in 1 .. n, k \in 1 .. n : HealthyList[i] = v /\ HealthyList[k] = w
    BY <1>1, <2>1, PoolOnce DEF SInv, HInv
  <2>3. HealthyList # <<>>
    BY <1>1, <2>2, PoolOnce DEF SInv, HInv
  <2>4. PICK s \in 0 .. n - 1, rounds \in Nat : Rotation(s, rounds)
    BY <1>1, <2>3 DEF SInv, InRotation
  <2>5. n \in Nat
    BY <1>1, PoolOnce DEF SInv, HInv
  <2> HIDE DEF n
  <2>6. \A p \in 0 .. n - 1 : turns[HealthyList[p + 1]] \in {rounds, rounds + 1}
    BY <2>4 DEF Rotation, n
  <2>7. i - 1 \in 0 .. n - 1 /\ (i - 1) + 1 = i /\ k - 1 \in 0 .. n - 1 /\ (k - 1) + 1 = k
    BY <2>5
  <2>8. turns[v] \in {rounds, rounds + 1} /\ turns[w] \in {rounds, rounds + 1}
    BY <2>2, <2>6, <2>7
  <2> QED
    BY <2>8
<1> QED
  BY <1>1, SchedulingInvariance, PTL

-----------------------------------------------------------------------------
(* Hardware affinity.                                                      *)

(* min by (active_jobs, place in the list) is one of the list.             *)
LEMMA LeastLoadedListed ==
  ASSUME active \in [Workers -> Nat], NEW list \in Seq(Workers), list # <<>>
  PROVE  \E i \in DOMAIN list : LeastLoaded(list) = list[i]
<1> DEFINE load(i) == active[list[i]]
           lightest == {i \in DOMAIN list : \A k \in DOMAIN list : load(i) <= load(k)}
<1>1. DOMAIN list = 1 .. Len(list) /\ Len(list) \in Nat \ {0}
      /\ \A i \in DOMAIN list : load(i) \in Nat
  OBVIOUS
<1> HIDE DEF load
<1>2. PICK light \in DOMAIN list : \A k \in DOMAIN list : load(light) <= load(k)
  <2> DEFINE loads == {load(k) : k \in DOMAIN list}
  <2>1. loads \subseteq Nat
    BY <1>1
  <2>2. load(1) \in loads
    <3>1. 1 \in DOMAIN list
      BY <1>1
    <3> QED
      BY <3>1, Zenon
  <2> HIDE DEF loads
  <2>3. PICK m \in loads : \A x \in loads : m <= x
    BY <2>1, <2>2, LeastOfNaturals
  <2> USE DEF loads
  <2>4. PICK j \in DOMAIN list : load(j) = m
    BY <2>3
  <2> QED
    BY <2>3, <2>4
<1>3. PICK first \in lightest : \A k \in lightest : first <= k
  <2>1. lightest \in SUBSET Nat /\ lightest # {}
    BY <1>1, <1>2
  <2> QED
    BY <2>1, LeastOfNaturals
<1>4. ASSUME NEW k \in DOMAIN list
      PROVE  load(first) < load(k) \/ (load(first) = load(k) /\ first <= k)
  <2>1. load(first) <= load(k) /\ first \in DOMAIN list
    BY <1>3
  <2>2. CASE load(first) < load(k)
    BY <2>2
  <2>3. CASE load(first) = load(k)
    <3>1. k \in lightest
      BY <1>3, <2>3
    <3> QED
      BY <1>3, <2>3, <3>1
  <2> QED
    BY <1>1, <2>1, <2>2, <2>3
<1>5. \E i \in DOMAIN list : \A k \in DOMAIN list :
         \/ active[list[i]] < active[list[k]]
         \/ active[list[i]] = active[list[k]] /\ i <= k
  BY <1>3, <1>4 DEF load
<1> QED
  BY <1>5 DEF LeastLoaded

(* A filter keeps a list of workers a list of workers of the pool, all of  *)
(* which fit when one does.                                                *)
LEMMA PreferFits ==
  ASSUME NEW list \in Seq(Workers), NEW fit, NEW w, w \in fit,
         \E i \in DOMAIN list : list[i] = w
  PROVE  /\ Prefer(list, fit) \in Seq(Workers)
         /\ \A k \in DOMAIN Prefer(list, fit) :
              /\ Prefer(list, fit)[k] \in fit
              /\ \E i \in DOMAIN list : list[i] = Prefer(list, fit)[k]
         /\ \E k \in DOMAIN Prefer(list, fit) : Prefer(list, fit)[k] = w
<1> DEFINE matches == {i \in DOMAIN list : list[i] \in fit}
<1>1. matches \in SUBSET DOMAIN list /\ matches # {}
  OBVIOUS
<1>2. Prefer(list, fit) = Kept(list, matches)
  BY <1>1 DEF Prefer
<1>3. w \in {list[i] : i \in matches}
  OBVIOUS
<1>4. \A v \in {list[i] : i \in matches} : v \in fit /\ \E i \in DOMAIN list : list[i] = v
  OBVIOUS
<1> HIDE DEF matches
<1>5. /\ Kept(list, matches) \in Seq(Workers)
      /\ {Kept(list, matches)[k] : k \in DOMAIN Kept(list, matches)}
           = {list[i] : i \in matches}
  BY <1>1, KeptList
<1> DEFINE kept == Kept(list, matches)
<1> HIDE DEF kept
<1>6. \A k \in DOMAIN kept : kept[k] \in {list[i] : i \in matches}
  BY <1>5 DEF kept
<1>7. \E k \in DOMAIN kept : kept[k] = w
  BY <1>3, <1>5 DEF kept
<1> QED
  BY <1>2, <1>4, <1>5, <1>6, <1>7 DEF kept

(* A job whose hint some healthy worker meets goes to one that meets it.   *)
THEOREM AffinityIsHonoured == CoordSpec => []AffinityHonoured
<1>1. ASSUME SInv PROVE AffinityHonoured
  <2>1. SUFFICES ASSUME NEW hint \in Hints, OneWord(hint.arch), OneWord(hint.simd),
                        NEW w \in Healthy, Meets(w, hint)
                 PROVE  Meets(AffinityChoice(hint), hint)
    BY DEF AffinityHonoured
  <2>2. /\ HealthyList \in Seq(Workers)
        /\ \E i \in DOMAIN HealthyList : HealthyList[i] = w
        /\ w \in Workers /\ active \in [Workers -> Nat]
    BY <1>1, <2>1, PoolOnce DEF SInv, HInv, SchedulerTypeOK
  <2>3. Parsed(hint.arch) = hint.arch /\ Parsed(hint.simd) = hint.simd
    <3>1. ASSUME NEW name \in Seq(STRING) \cup {NoHint}, OneWord(name)
          PROVE  Parsed(name) = name
      <4>1. CASE name = NoHint
        BY <4>1 DEF Parsed
      <4>2. CASE name # NoHint
        <5>1. name \in Seq(STRING) /\ Len(name) = 1
          BY <3>1, <4>2 DEF OneWord
        <5>2. SubSeq(name, 1, 1) = name
          BY <5>1, SubSeqFull
        <5> QED
          BY <4>2, <5>2 DEF Parsed
      <4> QED
        BY <4>1, <4>2
    <3>2. hint.arch \in Seq(STRING) \cup {NoHint} /\ hint.simd \in Seq(STRING) \cup {NoHint}
      BY CoordinatorAssumption DEF CoordinatorAssumption
    <3> QED
      BY <2>1, <3>1, <3>2
  <2> DEFINE list == ByArch(hint.arch)
             fits == {v \in Workers : hint.simd \in SimdOf[v]}
  <2>4. /\ list \in Seq(Workers)
        /\ \E i \in DOMAIN list : list[i] = w
        /\ \A k \in DOMAIN list : hint.arch = NoHint \/ ArchOf[list[k]] = hint.arch
    <3>1. CASE hint.arch = NoHint
      BY <2>2, <3>1 DEF ByArch
    <3>2. CASE hint.arch # NoHint
      <4> DEFINE ofArch == {v \in Workers : ArchOf[v] = hint.arch}
      <4>1. w \in ofArch
        BY <2>1, <2>2, <3>2 DEF Meets
      <4>2. list = Prefer(HealthyList, ofArch)
        BY <3>2 DEF ByArch
      <4>3. \A v \in ofArch : ArchOf[v] = hint.arch
        OBVIOUS
      <4> HIDE DEF ofArch, list
      <4> DEFINE pool == HealthyList
      <4>4. pool \in Seq(Workers) /\ \E i \in DOMAIN pool : pool[i] = w
        BY <2>2
      <4>5. list = Prefer(pool, ofArch)
        BY <4>2
      <4> HIDE DEF pool
      <4>6. /\ Prefer(pool, ofArch) \in Seq(Workers)
            /\ \A k \in DOMAIN Prefer(pool, ofArch) : Prefer(pool, ofArch)[k] \in ofArch
            /\ \E k \in DOMAIN Prefer(pool, ofArch) : Prefer(pool, ofArch)[k] = w
        BY <4>1, <4>4, PreferFits
      <4> QED
        BY <4>3, <4>5, <4>6
    <3> QED
      BY <3>1, <3>2
  <2> HIDE DEF list
  <2>5. /\ Candidates(hint) \in Seq(Workers)
        /\ \E i \in DOMAIN Candidates(hint) : Candidates(hint)[i] = w
        /\ \A k \in DOMAIN Candidates(hint) : Meets(Candidates(hint)[k], hint)
    <3>1. CASE hint.simd = NoHint
      <4>1. Candidates(hint) = list
        BY <2>3, <3>1 DEF Candidates, list
      <4> QED
        BY <2>4, <3>1, <4>1 DEF Meets
    <3>2. CASE hint.simd # NoHint
      <4>1. Candidates(hint) = Prefer(list, fits)
        BY <2>3, <3>2 DEF Candidates, list
      <4>2. w \in fits
        BY <2>1, <2>2, <3>2 DEF Meets
      <4>3. \A v \in fits : hint.simd \in SimdOf[v]
        OBVIOUS
      <4> HIDE DEF fits
      <4>4. /\ Prefer(list, fits) \in Seq(Workers)
            /\ \A k \in DOMAIN Prefer(list, fits) :
                 /\ Prefer(list, fits)[k] \in fits
                 /\ \E i \in DOMAIN list : list[i] = Prefer(list, fits)[k]
            /\ \E k \in DOMAIN Prefer(list, fits) : Prefer(list, fits)[k] = w
        BY <2>4, <4>2, PreferFits
      <4>5. ASSUME NEW k \in DOMAIN Candidates(hint)
            PROVE  Meets(Candidates(hint)[k], hint)
        <5>1. Candidates(hint)[k] \in fits
          BY <4>1, <4>4
        <5>2. PICK i \in DOMAIN list : list[i] = Candidates(hint)[k]
          BY <4>1, <4>4
        <5>3. hint.arch = NoHint \/ ArchOf[Candidates(hint)[k]] = hint.arch
          BY <2>4, <5>2
        <5> QED
          BY <4>3, <5>1, <5>3 DEF Meets
      <4> QED
        BY <4>1, <4>4, <4>5
    <3> QED
      BY <3>1, <3>2
  <2>6. Candidates(hint) # <<>>
    BY <2>5
  <2>7. \E i \in DOMAIN Candidates(hint) : LeastLoaded(Candidates(hint)) = Candidates(hint)[i]
    BY <2>2, <2>5, <2>6, LeastLoadedListed
  <2> QED
    BY <2>5, <2>7 DEF AffinityChoice
<1> QED
  BY <1>1, SchedulingInvariance, PTL
=============================================================================
