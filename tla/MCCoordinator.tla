---------------------------- MODULE MCCoordinator ----------------------------
(* Three workers, the least for which a rotation can be unfair to someone  *)
(* who is neither first nor last.  Two share an architecture and two a     *)
(* vector unit, so the affinity filters can disagree; one has a name that  *)
(* the hint parser cuts in two.                                            *)
(*                                                                         *)
(* A behaviour concentrates either on health (two overlapping checks, the  *)
(* clock up to two beyond the threshold, two workers, no jobs) or on       *)
(* scheduling (three workers, jobs, one check, heartbeats and checks at the *)
(* beginning and when a worker can just be found silent).                  *)
EXTENDS Coordinator

CONSTANTS w1, w2, w3, c1, c2

Arm  == <<"aarch64">>
X86  == <<"x86", "64">>
Neon == <<"neon">>

Archs == [w \in Workers |-> IF w = w3 THEN X86 ELSE Arm]
Simds == [w \in Workers |-> IF w = w1 THEN {} ELSE {Neon}]

SomeHints == [arch : {Arm, X86, NoHint}, simd : {Neon, NoHint}]

VARIABLE focus

HealthBounds     == w2 \notin Registered /\ \A w \in Workers : active[w] = 0
SchedulingBounds ==
  /\ check[c2] = NotChecking
  /\ clock <= Threshold + 1
  /\ check[c1] \in {NotChecking, Threshold + 1}
  /\ \A w \in Workers : heartbeat[w] \in {0, Threshold + 1}

FocusedInit == CoordInit /\ focus \in {"health", "scheduling"}

FocusedNext ==
  \/ focus = "health" /\ UNCHANGED focus /\ CoordNext /\ HealthBounds'
  \/ focus = "scheduling" /\ UNCHANGED focus /\ CoordNext /\ SchedulingBounds'

FocusedSpec == FocusedInit /\ [][FocusedNext]_<<coordVars, focus>>
=============================================================================
