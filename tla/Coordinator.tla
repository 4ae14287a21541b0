----------------------------- MODULE Coordinator -----------------------------
(***************************************************************************)
(* CoordinatorNode (src/uhcr/network/coordinator.py): the registry of      *)
(* worker nodes, their heartbeats, the health check and the three          *)
(* scheduling strategies.  Every method body is one critical section under *)
(* the registry lock and so one step, except check_worker_health, which    *)
(* reads the clock before it takes the lock: two steps, with heartbeats,   *)
(* registrations and other checks free to come in between.                 *)
(***************************************************************************)
EXTENDS Integers, Sequences, SequencesExt, FiniteSets, Sublists

CONSTANTS
  Workers,    (* worker ids                                                *)
  Checkers,   (* threads that call check_worker_health                     *)
  ArchOf,     (* WorkerInfo.architecture, as the words between its "_"     *)
  SimdOf,     (* WorkerInfo.simd_capabilities, a set of such names         *)
  Hints,      (* what a job id may ask for: [arch, simd], each a name or   *)
              (* NoHint                                                    *)
  NoHint,
  Threshold,  (* threshold_seconds                                         *)
  MaxClock,   (* bound on the clock (model only)                           *)
  MaxActive   (* bound on active_jobs and on turns (model only)            *)

ASSUME CoordinatorAssumption ==
  /\ ArchOf \in [Workers -> Seq(STRING)]
  /\ SimdOf \in [Workers -> SUBSET Seq(STRING)]
  /\ Hints \subseteq [arch : Seq(STRING) \cup {NoHint}, simd : Seq(STRING) \cup {NoHint}]
  /\ Threshold \in Nat /\ MaxClock \in Nat /\ MaxActive \in Nat

VARIABLES
  order,      (* the keys of _workers in dictionary order                  *)
  heartbeat,  (* WorkerInfo.last_heartbeat                                 *)
  active,     (* WorkerInfo.active_jobs                                    *)
  healthy,    (* WorkerInfo.healthy                                        *)
  rrIndex,    (* _rr_index                                                 *)
  check,      (* check[c]: the time a health check has read, or NotChecking*)
  clock,      (* datetime.now(timezone.utc)                                *)
  checked,    (* history: the latest time a finished check of w since its  *)
              (* registration had read                                     *)
  turns       (* history: round-robin turns w got since the healthy pool   *)
              (* last changed                                              *)

registryVars == <<order, heartbeat, active, healthy>>
historyVars  == <<checked, turns>>
coordVars    == <<registryVars, rrIndex, check, clock, historyVars>>

NotChecking == -1

Registered == {order[i] : i \in DOMAIN order}

HealthyList == Kept(order, {i \in DOMAIN order : healthy[order[i]]})
Healthy     == {w \in Registered : healthy[w]}

CoordInit ==
  /\ order = <<>>
  /\ heartbeat = [w \in Workers |-> 0]
  /\ active = [w \in Workers |-> 0]
  /\ healthy = [w \in Workers |-> FALSE]
  /\ rrIndex = 0
  /\ check = [c \in Checkers |-> NotChecking]
  /\ clock = 0
  /\ checked = [w \in Workers |-> NotChecking]
  /\ turns = [w \in Workers |-> 0]

(* A pool of a different make-up starts a new rotation (history).          *)
PoolMayChange ==
  turns' = IF HealthyList' = HealthyList THEN turns ELSE [w \in Workers |-> 0]

-----------------------------------------------------------------------------
(* register_worker stores the caller's fresh WorkerInfo, whose heartbeat   *)
(* may be old; a known id keeps its place in the dictionary.               *)
Register(w, hb) ==
  /\ order' = IF w \in Registered THEN order ELSE Append(order, w)
  /\ heartbeat' = [heartbeat EXCEPT ![w] = hb]
  /\ active' = [active EXCEPT ![w] = 0]
  /\ healthy' = [healthy EXCEPT ![w] = TRUE]
  /\ checked' = [checked EXCEPT ![w] = NotChecking]
  /\ UNCHANGED <<rrIndex, check, clock>>
  /\ PoolMayChange

(* deregister_worker; an unknown id is ignored.                            *)
Deregister(w) ==
  /\ \E i \in DOMAIN order : order[i] = w /\ order' = RemoveAt(order, i)
  /\ heartbeat' = [heartbeat EXCEPT ![w] = 0]
  /\ active' = [active EXCEPT ![w] = 0]
  /\ healthy' = [healthy EXCEPT ![w] = FALSE]
  /\ checked' = [checked EXCEPT ![w] = NotChecking]
  /\ UNCHANGED <<rrIndex, check, clock>>
  /\ PoolMayChange

(* Mutant: the heartbeat is stored, the health flag forgotten.             *)
HeartbeatKeepsFlag(w) ==
  /\ w \in Registered
  /\ heartbeat' = [heartbeat EXCEPT ![w] = clock]
  /\ UNCHANGED <<order, active, healthy, rrIndex, check, clock, historyVars>>

(* update_heartbeat; an unknown id raises KeyError.                        *)
UpdateHeartbeat(w) ==
  /\ w \in Registered
  /\ heartbeat' = [heartbeat EXCEPT ![w] = clock]
  /\ healthy' = [healthy EXCEPT ![w] = TRUE]
  /\ UNCHANGED <<order, active, rrIndex, check, clock, checked>>
  /\ PoolMayChange

(* check_worker_health: now is read first ...                              *)
ReadNow(c) ==
  /\ check[c] = NotChecking
  /\ check' = [check EXCEPT ![c] = clock]
  /\ UNCHANGED <<registryVars, rrIndex, clock, historyVars>>

(* Mutant: silence up to and including the threshold counts.               *)
SilentAtThreshold(w, now) == now - heartbeat[w] >= Threshold

Silent(w, now) == now - heartbeat[w] > Threshold

FinishCheck(c) ==
  /\ check' = [check EXCEPT ![c] = NotChecking]
  /\ checked' = [w \in Workers |->
       IF w \in Registered /\ checked[w] < check[c] THEN check[c] ELSE checked[w]]

(* Mutant: the check also declares workers that answer healthy.            *)
MarkBothWays(c) ==
  /\ check[c] # NotChecking
  /\ healthy' = [w \in Workers |->
       IF w \in Registered THEN ~Silent(w, check[c]) ELSE healthy[w]]
  /\ FinishCheck(c)
  /\ UNCHANGED <<order, heartbeat, active, rrIndex, clock>>
  /\ PoolMayChange

(* ... and every registered worker judged by it under the lock.            *)
MarkSilent(c) ==
  /\ check[c] # NotChecking
  /\ healthy' = [w \in Workers |->
       IF w \in Registered /\ Silent(w, check[c]) THEN FALSE ELSE healthy[w]]
  /\ FinishCheck(c)
  /\ UNCHANGED <<order, heartbeat, active, rrIndex, clock>>
  /\ PoolMayChange

-----------------------------------------------------------------------------
(* assign_job.  Positions are counted from 1 here, from 0 in the code.     *)

Give(w) ==
  /\ active[w] < MaxActive
  /\ active' = [active EXCEPT ![w] = @ + 1]
  /\ UNCHANGED <<order, heartbeat, healthy, check, clock, checked>>

(* "round-robin", and any strategy the code does not know.                 *)
AssignRoundRobin ==
  /\ HealthyList # <<>>
  /\ LET cursor == rrIndex % Len(HealthyList)
         chosen == HealthyList[cursor + 1]
     IN  /\ Give(chosen)
         /\ turns[chosen] < MaxActive
         /\ rrIndex' = (cursor + 1) % Len(HealthyList)
         /\ turns' = [turns EXCEPT ![chosen] = @ + 1]

(* The earliest of the least loaded of a list of workers.                  *)
LeastLoaded(list) ==
  LET best == CHOOSE i \in DOMAIN list : \A k \in DOMAIN list :
                \/ active[list[i]] < active[list[k]]
                \/ active[list[i]] = active[list[k]] /\ i <= k
  IN  list[best]

(* Mutant: every assignment moves the cursor on.                           *)
AssignLeastLoadedMovesOn ==
  /\ HealthyList # <<>>
  /\ Give(LeastLoaded(HealthyList))
  /\ rrIndex' = (rrIndex + 1) % Len(HealthyList)
  /\ UNCHANGED turns

AssignLeastLoaded ==
  /\ HealthyList # <<>>
  /\ Give(LeastLoaded(HealthyList))
  /\ UNCHANGED <<rrIndex, turns>>

(* The job id is split at every "_" (and "-") before "arch:" and "simd:"   *)
(* are looked for: of the name asked for only the first word survives.     *)
Parsed(name) == IF name = NoHint THEN NoHint ELSE SubSeq(name, 1, 1)

(* The workers of the list that fit, or the whole list when none does.     *)
Prefer(list, fit) ==
  LET matches == {i \in DOMAIN list : list[i] \in fit}
  IN  IF matches = {} THEN list ELSE Kept(list, matches)

ByArch(arch) == IF arch = NoHint THEN HealthyList
                ELSE Prefer(HealthyList, {w \in Workers : ArchOf[w] = arch})

(* Mutant: the vector filter starts over from the whole pool.              *)
CandidatesUnchained(hint) ==
  LET simd == Parsed(hint.simd)
  IN  IF simd = NoHint THEN ByArch(Parsed(hint.arch))
      ELSE Prefer(HealthyList, {w \in Workers : simd \in SimdOf[w]})

Candidates(hint) ==
  LET simd == Parsed(hint.simd)
      list == ByArch(Parsed(hint.arch))
  IN  IF simd = NoHint THEN list
      ELSE Prefer(list, {w \in Workers : simd \in SimdOf[w]})

AffinityChoice(hint) == LeastLoaded(Candidates(hint))

AssignAffinity(hint) ==
  /\ HealthyList # <<>>
  /\ Give(AffinityChoice(hint))
  /\ UNCHANGED <<rrIndex, turns>>

Tick ==
  /\ clock < MaxClock
  /\ clock' = clock + 1
  /\ UNCHANGED <<registryVars, rrIndex, check, historyVars>>

CoordNext ==
  \/ \E w \in Workers :
       \/ \E hb \in 0 .. clock : Register(w, hb)
       \/ Deregister(w)
       \/ UpdateHeartbeat(w)
  \/ \E c \in Checkers : ReadNow(c) \/ MarkSilent(c)
  \/ AssignRoundRobin
  \/ AssignLeastLoaded
  \/ \E hint \in Hints : AssignAffinity(hint)
  \/ Tick

CoordSpec == CoordInit /\ [][CoordNext]_coordVars

-----------------------------------------------------------------------------
(* Properties.                                                             *)

(* As long as the pool of healthy workers stays the same, the round-robin  *)
(* turns of any two of them differ by at most one: wherever a larger or    *)
(* smaller pool left the cursor, and whichever other strategies are used in *)
(* between.                                                                *)
RoundRobinFair ==
  \A v, w \in Healthy : turns[v] <= turns[w] + 1

(* A check declares a worker unhealthy only if it has really been silent   *)
(* for longer than the threshold at that moment: a heartbeat that arrives  *)
(* after the check read the clock is honoured.                             *)
NoFalseAlarm == [][\A w \in Registered \cap Registered' :
  healthy[w] /\ ~healthy'[w] => clock - heartbeat[w] > Threshold]_coordVars

(* Once a finished check has found a worker silent it stays out of the pool *)
(* until it sends a heartbeat or registers again: a slower check that read *)
(* the clock earlier cannot bring it back.                                 *)
SilentStaysOut == \A w \in Registered :
  healthy[w] => checked[w] - heartbeat[w] <= Threshold

(* A worker that keeps answering is in the pool: an unhealthy worker has   *)
(* sent nothing since the check that condemned it.                         *)
AnsweringStaysIn == \A w \in Registered :
  ~healthy[w] => checked[w] - heartbeat[w] > Threshold

(* When some healthy worker has everything a hint of one-word names asks   *)
(* for, the job goes to such a worker, however loaded it is.               *)
OneWord(name)  == name = NoHint \/ Len(name) = 1
Meets(w, hint) ==
  /\ hint.arch = NoHint \/ ArchOf[w] = hint.arch
  /\ hint.simd = NoHint \/ hint.simd \in SimdOf[w]

AffinityHonoured == \A hint \in Hints :
  ( /\ OneWord(hint.arch) /\ OneWord(hint.simd)
    /\ \E w \in Healthy : Meets(w, hint) )
    => Meets(AffinityChoice(hint), hint)
=============================================================================
