----------------------------- MODULE GpuProofs -----------------------------
(***************************************************************************)
(* DeviceMemoryAccounted, PluginsSound and AnswersRight for any number of  *)
(* threads, plugins, calls and requests, any block size and whatever driver *)
(* calls fail.                                                             *)
(*                                                                         *)
(* MemoryInvariant says whose every buffer is and which are released by    *)
(* now; PluginsInvariant what the manager's table and its threads hold.    *)
(* AnswersInvariant adds what each buffer of a call holds at every place of *)
(* its program.                                                            *)
(***************************************************************************)
EXTENDS GpuPlugins, NumberLemmas, FiniteSetTheorems, SequenceTheorems, TLAPS

Vendors == {"nvidia", "amd", "intel", "cuda"}
Drivers == {"nvidia", "amd", "cuda"}

(* What the calls have in common: where the driver calls refer to, and that *)
(* nothing is allocated or filled once the first buffer is freed.          *)
Orderly(program, n) ==
  /\ Len(program) = n
  /\ \A j \in 1 .. n :
       /\ program[j] = <<program[j][1], program[j][2]>>
       /\ program[j][1] \in {"alloc", "upload", "launch", "download", "free"} =>
            program[j][2] \in 1 .. 3
       /\ program[j][1] = "launch" => program[j][2] = 3
  /\ program[1][1] # "free" /\ program[n][1] = "free"
  /\ \A k \in 1 .. 3 : \E j \in 1 .. n : program[j] = <<"free", k>>
  /\ \A i, j \in 1 .. n :
       i < j /\ program[i][1] = "free" => program[j][1] \in {"download", "free"}

(* In these two the three buffers are freed at the end.                    *)
LEMMA CopyCallOrderly == Orderly(NvidiaCall, 10) /\ Orderly(AmdCall, 10)
<1>1. /\ NvidiaCall[8] = <<"free", 1>> /\ NvidiaCall[9] = <<"free", 2>>
      /\ NvidiaCall[10] = <<"free", 3>>
  BY DEF NvidiaCall
<1>2. \A k \in 1 .. 3 : \E j \in 1 .. 10 : NvidiaCall[j] = <<"free", k>>
  <2>1. \A k \in 1 .. 3 : NvidiaCall[7 + k] = <<"free", k>> /\ 7 + k \in 1 .. 10
    BY <1>1
  <2> QED
    BY <2>1, Zenon
<1>10. /\ NvidiaCall[1] = <<"alloc", 1>>
       /\ NvidiaCall[2] = <<"upload", 1>>
       /\ NvidiaCall[3] = <<"alloc", 2>>
       /\ NvidiaCall[4] = <<"upload", 2>>
       /\ NvidiaCall[5] = <<"alloc", 3>>
       /\ NvidiaCall[6] = <<"launch", 3>>
       /\ NvidiaCall[7] = <<"download", 3>>
       /\ NvidiaCall[8] = <<"free", 1>>
       /\ NvidiaCall[9] = <<"free", 2>>
       /\ NvidiaCall[10] = <<"free", 3>>
  BY DEF NvidiaCall
<1>3. \A i, j \in 1 .. 10 :
        i < j /\ NvidiaCall[i][1] = "free" => NvidiaCall[j][1] \in {"download", "free"}
  <2>1. \A i \in 1 .. 7 : NvidiaCall[i][1] # "free"
    BY <1>10
  <2>2. \A j \in 8 .. 10 : NvidiaCall[j][1] \in {"download", "free"}
    BY <1>10
  <2>3. \A i, j \in 1 .. 10 : i < j => i \in 1 .. 7 \/ j \in 8 .. 10
    OBVIOUS
  <2> QED
    BY <2>1, <2>2, <2>3
<1>4. \A j \in 1 .. 10 :
        /\ NvidiaCall[j] = <<NvidiaCall[j][1], NvidiaCall[j][2]>>
        /\ NvidiaCall[j][2] \in 1 .. 3
        /\ NvidiaCall[j][1] = "launch" => NvidiaCall[j][2] = 3
  BY <1>10
<1>5. Len(NvidiaCall) = 10 /\ NvidiaCall[1][1] = "alloc"
  BY DEF NvidiaCall
<1>6. Orderly(NvidiaCall, 10)
  BY <1>1, <1>2, <1>3, <1>4, <1>5 DEF Orderly
<1>7. AmdCall = NvidiaCall
  BY DEF AmdCall, NvidiaCall
<1> QED
  BY <1>6, <1>7

(* In this one the result is read when the operands are freed. *)
LEMMA CudaCallOrderly == Orderly(CudaCall, 10)
<1>1. CudaCall[7] = <<"free", 1>> /\ CudaCall[8] = <<"free", 2>> /\ CudaCall[10] = <<"free", 3>>
  BY DEF CudaCall
<1>2. \A k \in 1 .. 3 : \E j \in 1 .. 10 : CudaCall[j] = <<"free", k>>
  BY <1>1
<1>10. /\ CudaCall[1] = <<"alloc", 1>>
       /\ CudaCall[2] = <<"upload", 1>>
       /\ CudaCall[3] = <<"alloc", 2>>
       /\ CudaCall[4] = <<"upload", 2>>
       /\ CudaCall[5] = <<"alloc", 3>>
       /\ CudaCall[6] = <<"launch", 3>>
       /\ CudaCall[7] = <<"free", 1>>
       /\ CudaCall[8] = <<"free", 2>>
       /\ CudaCall[9] = <<"download", 3>>
       /\ CudaCall[10] = <<"free", 3>>
  BY DEF CudaCall
<1>3. \A i, j \in 1 .. 10 :
        i < j /\ CudaCall[i][1] = "free" => CudaCall[j][1] \in {"download", "free"}
  <2>1. \A i \in 1 .. 6 : CudaCall[i][1] # "free"
    BY <1>10
  <2>2. \A j \in 7 .. 10 : CudaCall[j][1] \in {"download", "free"}
    BY <1>10
  <2>3. \A i, j \in 1 .. 10 : i < j => i \in 1 .. 6 \/ j \in 7 .. 10
    OBVIOUS
  <2> QED
    BY <2>1, <2>2, <2>3
<1>4. \A j \in 1 .. 10 :
        /\ CudaCall[j] = <<CudaCall[j][1], CudaCall[j][2]>>
        /\ CudaCall[j][2] \in 1 .. 3
        /\ CudaCall[j][1] = "launch" => CudaCall[j][2] = 3
  BY <1>10
<1>5. Len(CudaCall) = 10 /\ CudaCall[1][1] = "alloc"
  BY DEF CudaCall
<1> QED
  BY <1>1, <1>2, <1>3, <1>4, <1>5 DEF Orderly

(* The same for all that ever launch. *)
LEMMA ProgramOrderly ==
  ASSUME NEW name \in Drivers
  PROVE  \E n \in Nat \ {0} : Orderly(Program(name), n)
BY CopyCallOrderly, CudaCallOrderly DEF Program, Drivers

(* A call under way.                                                       *)
CallForm(t) ==
  gpuCall[t] = [pc |-> gpuCall[t].pc, of |-> gpuCall[t].of, request |-> gpuCall[t].request,
                first |-> gpuCall[t].first, at |-> gpuCall[t].at,
                result |-> gpuCall[t].result]

(* The buffers freed so far are free; before the driver calls all three are. *)
FreedSoFar(t) ==
  /\ gpuCall[t].pc = "checks" =>
       gpuCall[t].at = 1 /\ \A k \in 1 .. 3 : memory[Buffer(t, k)] = Free
  /\ \A j \in 1 .. gpuCall[t].at - 1, k \in 1 .. 3 :
       Calls(t)[j] = <<"free", k>> => memory[Buffer(t, k)] = Free

CallSound(t) ==
  /\ CallForm(t)
  /\ gpuCall[t].pc \in {"checks", "driver"}
  /\ gpuCall[t].of \in Backend .. made /\ Plugin(t).name \in Vendors
  /\ gpuCall[t].pc = "driver" => Plugin(t).name \in Drivers /\ gpuCall[t].at \in 1 .. Len(Calls(t))
  /\ \E c \in 0 .. calls - 1 : gpuCall[t].first = 3 * c
  /\ FreedSoFar(t)

GpuTyped ==
  /\ made \in 0 .. MaxMade /\ calls \in 0 .. MaxCalls
  /\ plugins \in Seq({Gap} \cup 1 .. made)
  /\ kernels \in [Names -> 0 .. made]
  /\ plugin = [i \in Backend .. MaxMade |-> plugin[i]]
  /\ \A i \in Backend .. MaxMade :
       plugin[i] = [name |-> plugin[i].name, has |-> plugin[i].has, life |-> plugin[i].life]
  /\ \A i \in Backend .. MaxMade : i > made => plugin[i].name = "none" /\ plugin[i].life = "none"
  /\ \A i \in Backend .. MaxMade : plugin[i].name = "intel" => "available" \notin plugin[i].has
  /\ managing = [t \in Managers |-> managing[t]]
  /\ memory = [h \in Handles |-> memory[h]]
  /\ gpuCall = [t \in Callers |-> gpuCall[t]]

CallsSound ==
  /\ \A t \in Callers : gpuCall[t] # Idle => CallSound(t)
  /\ \A t, u \in Callers : t # u /\ gpuCall[t] # Idle /\ gpuCall[u] # Idle =>
       gpuCall[t].first # gpuCall[u].first
  /\ \A h \in Handles : h > 3 * calls => memory[h] = Free

MemoryInvariant == GpuTyped /\ CallsSound /\ DeviceMemoryAccounted

(* The buffers of a call have handles, and no two calls share one.         *)
LEMMA BuffersApart ==
  ASSUME MemoryInvariant, NEW t \in Callers, gpuCall[t] # Idle
  PROVE  /\ BuffersOf(t) \subseteq Handles
         /\ \A k \in 1 .. 3 : Buffer(t, k) \in Handles /\ Buffer(t, k) \in BuffersOf(t)
         /\ \A k \in 1 .. 3 : Buffer(t, k) <= 3 * calls
         /\ \A u \in Callers : u # t /\ gpuCall[u] # Idle =>
              \A k \in 1 .. 3 : Buffer(u, k) \notin BuffersOf(t)
<1>1. PICK c \in 0 .. calls - 1 : gpuCall[t].first = 3 * c
  BY DEF MemoryInvariant, CallsSound, CallSound
<1>2. calls \in 0 .. MaxCalls /\ MaxCalls \in Nat
  BY GpuAssumption DEF MemoryInvariant, GpuTyped
<1>3. \A k \in 1 .. 3 : Buffer(t, k) \in Handles /\ Buffer(t, k) <= 3 * calls
  BY <1>1, <1>2 DEF Buffer, Handles
<1>4. ASSUME NEW u \in Callers, u # t, gpuCall[u] # Idle, NEW k \in 1 .. 3,
             NEW l \in 1 .. 3
      PROVE  Buffer(u, k) # Buffer(t, l)
  <2>1. PICK d \in 0 .. calls - 1 : gpuCall[u].first = 3 * d
    BY <1>4 DEF MemoryInvariant, CallsSound, CallSound
  <2>2. 3 * d # 3 * c
    BY <1>1, <1>4, <2>1 DEF MemoryInvariant, CallsSound
  <2>3. c \in Nat /\ d \in Nat
    BY <1>2
  <2> QED
    BY <1>1, <2>1, <2>2, <2>3 DEF Buffer
<1> QED
  BY <1>3, <1>4 DEF BuffersOf

(* A driver call that is not the last.                                     *)
LEMMA DriverStep ==
  ASSUME MemoryInvariant, NEW t \in Callers, gpuCall[t] # Idle, gpuCall[t].pc = "driver",
         gpuCall[t].at < Len(Calls(t)),
         UNCHANGED <<managerVars, calls, abandoned>>,
         gpuCall' = [u \in Callers |-> gpuCall'[u]], memory' = [h \in Handles |-> memory'[h]],
         \A u \in Callers : gpuCall[u] = Idle => gpuCall'[u] = Idle,
         \A u \in Callers : gpuCall[u] # Idle =>
           /\ CallForm(u)'
           /\ gpuCall'[u].pc = gpuCall[u].pc /\ gpuCall'[u].of = gpuCall[u].of
           /\ gpuCall'[u].first = gpuCall[u].first
           /\ gpuCall'[u].at = IF u = t THEN gpuCall[u].at + 1 ELSE gpuCall[u].at,
         \A h \in Handles : memory[h] = Free /\ memory'[h] # Free =>
           h \in BuffersOf(t) /\ Now(t)[1] \notin {"download", "free"},
         Now(t)[1] = "free" => memory'[This(t)] = Free
  PROVE  MemoryInvariant'
<1>1. GpuTyped'
  BY DEF MemoryInvariant, GpuTyped, managerVars
<1>2. ASSUME NEW u \in Callers
      PROVE  /\ gpuCall[u] # Idle <=> gpuCall'[u] # Idle
             /\ gpuCall[u] # Idle =>
                  /\ Plugin(u)' = Plugin(u) /\ Calls(u)' = Calls(u)
                  /\ BuffersOf(u)' = BuffersOf(u)
                  /\ \A k \in 1 .. 3 : Buffer(u, k)' = Buffer(u, k)
  <2>1. gpuCall[u] # Idle => gpuCall[u].pc \in {"checks", "driver"}
    BY DEF MemoryInvariant, CallsSound, CallSound
  <2>2. Idle.pc = "idle"
    BY DEF Idle
  <2>3. gpuCall[u] # Idle => gpuCall'[u] # Idle
    BY <2>1, <2>2
  <2>4. gpuCall[u] # Idle => Plugin(u)' = Plugin(u) /\ Calls(u)' = Calls(u)
    BY DEF Plugin, Calls, managerVars
  <2>5. gpuCall[u] # Idle => \A k \in 1 .. 3 : Buffer(u, k)' = Buffer(u, k)
    BY DEF Buffer
  <2>6. gpuCall[u] # Idle => BuffersOf(u)' = BuffersOf(u)
    BY <2>5 DEF BuffersOf
  <2> QED
    BY <2>3, <2>4, <2>5, <2>6
<1>3. CallsSound'
  <2>1. ASSUME NEW u \in Callers, u # t, gpuCall[u] # Idle
        PROVE  FreedSoFar(u)'
    <3>1. \A k \in 1 .. 3 : memory[Buffer(u, k)] = Free => memory'[Buffer(u, k)] = Free
      BY <2>1, BuffersApart
    <3>2. FreedSoFar(u)
      BY <2>1 DEF MemoryInvariant, CallsSound, CallSound
    <3> QED
      BY <1>2, <2>1, <3>1, <3>2 DEF FreedSoFar
  <2>2. FreedSoFar(t)'
    <3> DEFINE program == Calls(t)
               at == gpuCall[t].at
    <3>1. PICK n \in Nat \ {0} : Orderly(program, n)
      BY ProgramOrderly DEF MemoryInvariant, CallsSound, CallSound, Calls
    <3>2. at \in 1 .. n - 1 /\ Now(t) = program[at]
      BY <3>1 DEF MemoryInvariant, CallsSound, CallSound, Orderly, Now
    <3>3. ASSUME NEW j \in 1 .. at, NEW k \in 1 .. 3, program[j] = <<"free", k>>
          PROVE  memory'[Buffer(t, k)] = Free
      <4>1. CASE j = at
        BY <3>2, <3>3, <4>1 DEF This
      <4>2. CASE j < at
        <5>1. memory[Buffer(t, k)] = Free
          <6>1. FreedSoFar(t)
            BY DEF MemoryInvariant, CallsSound, CallSound
          <6>2. j \in 1 .. gpuCall[t].at - 1
            BY <3>2, <4>2
          <6> QED
            BY <3>3, <6>1, <6>2 DEF FreedSoFar
        <5>2. program[at][1] \in {"download", "free"}
          BY <3>1, <3>2, <3>3, <4>2 DEF Orderly
        <5> QED
          BY <3>2, <5>1, <5>2, BuffersApart
      <4> QED
        BY <3>2, <4>1, <4>2
    <3>4. gpuCall'[t].pc # "checks" /\ gpuCall'[t].at - 1 = at
      BY <3>2
    <3> QED
      BY <1>2, <3>3, <3>4 DEF FreedSoFar
  <2>3. ASSUME NEW u \in Callers, gpuCall[u] # Idle
        PROVE  CallSound(u)'
    <3>1. FreedSoFar(u)'
      BY <2>1, <2>2, <2>3
    <3>2. CallSound(u)
      BY <2>3 DEF MemoryInvariant, CallsSound
    <3>3. ASSUME gpuCall[u].pc = "driver"
          PROVE  Plugin(u).name \in Drivers /\ gpuCall'[u].at \in 1 .. Len(Calls(u))
      <4>1. Plugin(u).name \in Drivers /\ gpuCall[u].at \in 1 .. Len(Calls(u))
        BY <3>2, <3>3 DEF CallSound
      <4>2. Len(Calls(u)) \in Nat
        BY <4>1, ProgramOrderly DEF Calls, Orderly
      <4> QED
        BY <2>3, <4>1, <4>2
    <3> QED
      BY <1>2, <2>3, <3>1, <3>2, <3>3 DEF CallSound, managerVars
  <2>4. \A h \in Handles : h > 3 * calls => memory'[h] = Free
    <3>1. \A h \in BuffersOf(t) : h <= 3 * calls
      BY BuffersApart DEF BuffersOf
    <3>2. calls \in Nat /\ Handles \subseteq Nat
      BY GpuAssumption DEF MemoryInvariant, GpuTyped, Handles
    <3>3. BuffersOf(t) \subseteq Handles
      BY BuffersApart
    <3> QED
      BY <3>1, <3>2, <3>3 DEF MemoryInvariant, CallsSound
  <2> QED
    BY <1>2, <2>3, <2>4 DEF MemoryInvariant, CallsSound
<1>4. DeviceMemoryAccounted'
  <2>1. ASSUME NEW h \in Handles, memory'[h] # Free
        PROVE  h \in abandoned \/ \E u \in Callers : gpuCall'[u] # Idle /\ h \in BuffersOf(u)'
    <3>1. CASE memory[h] = Free
      BY <1>2, <2>1, <3>1
    <3>2. CASE memory[h] # Free
      <4>1. h \in abandoned \/ \E u \in Callers : gpuCall[u] # Idle /\ h \in BuffersOf(u)
        BY <3>2 DEF MemoryInvariant, DeviceMemoryAccounted, Live
      <4> QED
        BY <1>2, <4>1
    <3> QED
      BY <3>1, <3>2
  <2> QED
    BY <2>1, Zenon DEF DeviceMemoryAccounted, Live
<1> QED
  BY <1>1, <1>3, <1>4 DEF MemoryInvariant

(* A call that ends leaves no buffer that is not abandoned.                *)
LEMMA EndStep ==
  ASSUME MemoryInvariant, NEW t \in Callers, gpuCall[t] # Idle,
         gpuCall' = [gpuCall EXCEPT ![t] = Idle], memory' = [h \in Handles |-> memory'[h]],
         UNCHANGED <<managerVars, calls>>, abandoned \subseteq abandoned',
         \A h \in Handles : memory[h] = Free => memory'[h] = Free,
         \A k \in 1 .. 3 : memory'[Buffer(t, k)] = Free \/ Buffer(t, k) \in abandoned'
  PROVE  MemoryInvariant'
<1>1. /\ gpuCall = [u \in Callers |-> gpuCall[u]]
      /\ gpuCall' = [u \in Callers |-> gpuCall'[u]]
      /\ gpuCall'[t] = Idle
      /\ \A u \in Callers : u # t => gpuCall'[u] = gpuCall[u]
  BY DEF MemoryInvariant, GpuTyped
<1>2. GpuTyped'
  BY <1>1 DEF MemoryInvariant, GpuTyped, managerVars
<1>3. CallsSound'
  <2>1. ASSUME NEW u \in Callers, u # t, gpuCall[u] # Idle
        PROVE  CallSound(u)'
    <3>1. \A k \in 1 .. 3 : memory[Buffer(u, k)] = Free => memory'[Buffer(u, k)] = Free
      BY <2>1, BuffersApart
    <3>2. /\ CallSound(u) /\ Plugin(u)' = Plugin(u) /\ Calls(u)' = Calls(u)
          /\ \A k \in 1 .. 3 : Buffer(u, k)' = Buffer(u, k)
      BY <1>1, <2>1 DEF MemoryInvariant, CallsSound, Plugin, Calls, Buffer, managerVars
    <3>3. FreedSoFar(u)'
      BY <1>1, <2>1, <3>1, <3>2 DEF CallSound, FreedSoFar
    <3> QED
      BY <1>1, <2>1, <3>2, <3>3 DEF CallSound, CallForm, managerVars
  <2> QED
    BY <1>1, <2>1 DEF MemoryInvariant, CallsSound
<1>4. DeviceMemoryAccounted'
  <2>1. ASSUME NEW h \in Handles, memory'[h] # Free
        PROVE  h \in abandoned' \/ \E u \in Callers : gpuCall'[u] # Idle /\ h \in BuffersOf(u)'
    <3>1. h \in abandoned \/ \E u \in Callers : gpuCall[u] # Idle /\ h \in BuffersOf(u)
      BY <2>1 DEF MemoryInvariant, DeviceMemoryAccounted, Live
    <3>2. ASSUME NEW u \in Callers, gpuCall[u] # Idle, h \in BuffersOf(u)
          PROVE  h \in abandoned' \/ (gpuCall'[u] # Idle /\ h \in BuffersOf(u)')
      <4>1. CASE u = t
        BY <2>1, <3>2, <4>1 DEF BuffersOf
      <4>2. CASE u # t
        BY <1>1, <3>2, <4>2 DEF BuffersOf, Buffer
      <4> QED
        BY <4>1, <4>2
    <3> QED
      BY <3>1, <3>2
  <2> QED
    BY <2>1, Zenon DEF DeviceMemoryAccounted, Live
<1> QED
  BY <1>2, <1>3, <1>4 DEF MemoryInvariant

(* Loading and unloading plugins touches no call and no memory.            *)
LEMMA ManagerStep ==
  ASSUME MemoryInvariant, GpuTyped', made <= made',
         \A i \in Backend .. made : plugin'[i].name = plugin[i].name,
         UNCHANGED <<gpuCall, memory, calls, abandoned>>
  PROVE  MemoryInvariant'
<1>1. ASSUME NEW t \in Callers, gpuCall[t] # Idle
      PROVE  CallSound(t)'
  <2>1. CallSound(t) /\ made \in Nat /\ made' \in Nat
    BY <1>1, GpuAssumption DEF MemoryInvariant, CallsSound, GpuTyped
  <2>2. /\ Plugin(t)'.name = Plugin(t).name /\ Calls(t)' = Calls(t)
        /\ \A k \in 1 .. 3 : Buffer(t, k)' = Buffer(t, k)
    BY <2>1 DEF CallSound, Plugin, Calls, Buffer
  <2>3. FreedSoFar(t)'
    BY <2>1, <2>2 DEF CallSound, FreedSoFar
  <2>4. gpuCall[t].of \in Backend .. made'
    BY <2>1 DEF CallSound, Backend
  <2> QED
    BY <2>1, <2>2, <2>3, <2>4 DEF CallSound, CallForm
<1>2. CallsSound'
  BY <1>1 DEF MemoryInvariant, CallsSound
<1>3. DeviceMemoryAccounted'
  BY DEF MemoryInvariant, DeviceMemoryAccounted, Live, BuffersOf, Buffer
<1> QED
  BY <1>2, <1>3 DEF MemoryInvariant

(* A call that begins has three handles nobody had.                        *)
LEMMA BeginStep ==
  ASSUME MemoryInvariant, NEW t \in Callers, NEW i \in Backend .. MaxMade, NEW r \in Requests,
         Begin(t, i, r)
  PROVE  MemoryInvariant'
<1> DEFINE new == [pc |-> "checks", of |-> i, request |-> r, first |-> 3 * calls, at |-> 1,
                   result |-> <<>>]
<1>1. /\ gpuCall[t] = Idle /\ calls < MaxCalls /\ calls' = calls + 1
      /\ Offers(plugin[i].name, r.op)
      /\ gpuCall' = [gpuCall EXCEPT ![t] = new]
      /\ UNCHANGED <<managerVars, memory, abandoned>>
  BY DEF Begin
<1>2. /\ gpuCall' = [u \in Callers |-> gpuCall'[u]] /\ gpuCall'[t] = new
      /\ \A u \in Callers : u # t => gpuCall'[u] = gpuCall[u]
  BY <1>1 DEF MemoryInvariant, GpuTyped
<1>3. calls \in Nat /\ MaxCalls \in Nat /\ calls' \in 0 .. MaxCalls /\ calls \in 0 .. calls' - 1
  BY <1>1, GpuAssumption DEF MemoryInvariant, GpuTyped
<1>4. GpuTyped'
  BY <1>1, <1>2, <1>3 DEF MemoryInvariant, GpuTyped, managerVars
<1>5. plugin[i].name \in Vendors
  BY <1>1 DEF Offers, Vendors
<1>6. i \in Backend .. made
  <2>1. "none" \notin Vendors
    BY DEF Vendors
  <2>2. made \in Nat /\ MaxMade \in Nat
    BY GpuAssumption DEF MemoryInvariant, GpuTyped
  <2> QED
    BY <1>5, <2>1, <2>2 DEF MemoryInvariant, GpuTyped, Backend
<1>7. CallSound(t)'
  <2>1. CallForm(t)'
    BY <1>2 DEF CallForm
  <2>3. Plugin(t)' = plugin[i]
    BY <1>1, <1>2 DEF Plugin, managerVars
  <2>5. \A k \in 1 .. 3 : Buffer(t, k)' = 3 * calls + k
    BY <1>2 DEF Buffer
  <2>6. \A k \in 1 .. 3 : 3 * calls + k \in Handles /\ 3 * calls + k > 3 * calls
    BY <1>1, <1>3 DEF Handles
  <2>7. \A k \in 1 .. 3 : memory'[Buffer(t, k)'] = Free
    BY <1>1, <2>5, <2>6 DEF MemoryInvariant, CallsSound
  <2>8. gpuCall'[t].at = 1 /\ 1 .. gpuCall'[t].at - 1 = {}
    BY <1>2
  <2>9. FreedSoFar(t)'
    BY <2>7, <2>8 DEF FreedSoFar
  <2> QED
    BY <1>1, <1>2, <1>3, <1>5, <1>6, <2>1, <2>3, <2>8, <2>9 DEF CallSound, managerVars
<1>8. ASSUME NEW u \in Callers, u # t, gpuCall[u] # Idle
      PROVE  CallSound(u)' /\ gpuCall'[u].first # gpuCall'[t].first
  <2>1. CallSound(u)
    BY <1>8 DEF MemoryInvariant, CallsSound
  <2>2. /\ Plugin(u)' = Plugin(u) /\ Calls(u)' = Calls(u)
        /\ \A k \in 1 .. 3 : Buffer(u, k)' = Buffer(u, k)
    BY <1>1, <1>2, <1>8 DEF Plugin, Calls, Buffer, managerVars
  <2>3. FreedSoFar(u)'
    BY <1>1, <1>2, <1>8, <2>1, <2>2 DEF CallSound, FreedSoFar
  <2>4. PICK c \in 0 .. calls - 1 : gpuCall[u].first = 3 * c
    BY <2>1 DEF CallSound
  <2>5. c \in 0 .. calls' - 1 /\ 3 * c # 3 * calls
    BY <1>1, <1>3
  <2>6. CallSound(u)'
    BY <1>1, <1>2, <1>8, <2>1, <2>2, <2>3, <2>4, <2>5 DEF CallSound, CallForm, managerVars
  <2> QED
    BY <1>2, <1>8, <2>4, <2>5, <2>6
<1>9. \A h \in Handles : h > 3 * calls' => memory'[h] = Free
  <2>1. \A h \in Handles : h > 3 * calls' => h > 3 * calls
    BY <1>1, <1>3 DEF Handles
  <2> QED
    BY <1>1, <2>1 DEF MemoryInvariant, CallsSound
<1>10. CallsSound'
  BY <1>2, <1>7, <1>8, <1>9 DEF MemoryInvariant, CallsSound
<1>11. DeviceMemoryAccounted'
  <2>1. \A u \in Callers : gpuCall[u] # Idle =>
          u # t /\ gpuCall'[u] # Idle /\ BuffersOf(u)' = BuffersOf(u)
    BY <1>1, <1>2 DEF BuffersOf, Buffer
  <2>2. \A h \in Handles : memory'[h] # Free =>
          h \in abandoned \/ \E u \in Callers : gpuCall[u] # Idle /\ h \in BuffersOf(u)
    BY <1>1 DEF MemoryInvariant, DeviceMemoryAccounted, Live
  <2>3. \A h \in Handles : memory'[h] # Free =>
          h \in abandoned' \/ \E u \in Callers : gpuCall'[u] # Idle /\ h \in BuffersOf(u)'
    BY <1>1, <2>1, <2>2
  <2> QED
    BY <2>3, Zenon DEF DeviceMemoryAccounted, Live
<1> QED
  BY <1>4, <1>10, <1>11 DEF MemoryInvariant

(* A call that passed its checks.                                          *)
LEMMA AcceptStep ==
  ASSUME MemoryInvariant, NEW t \in Callers, Accept(t)
  PROVE  MemoryInvariant'
<1>1. /\ gpuCall[t].pc = "checks"
      /\ gpuCall' = [gpuCall EXCEPT ![t].pc = "driver"]
      /\ UNCHANGED <<managerVars, memory, calls, abandoned>>
  BY DEF Accept, Checking
<1>2. gpuCall[t] # Idle
  BY <1>1 DEF Idle
<1>3. CallSound(t)
  BY <1>2 DEF MemoryInvariant, CallsSound
<1>0. Plugin(t).name \in Drivers /\ gpuCall[t].at \in 1 .. Len(Calls(t))
  <2>1. gpuCall[t].of \in Backend .. MaxMade
    <3>1. made \in 0 .. MaxMade /\ MaxMade \in Nat
      BY GpuAssumption DEF MemoryInvariant, GpuTyped
    <3> QED
      BY <1>3, <3>1 DEF CallSound, Backend
  <2>2. "available" \in Plugin(t).has
    BY DEF Accept
  <2>3. Plugin(t).name \in Drivers
    BY <1>3, <2>1, <2>2 DEF CallSound, Plugin, Vendors, Drivers, MemoryInvariant, GpuTyped
  <2>4. gpuCall[t].at = 1
    BY <1>1, <1>3 DEF CallSound, FreedSoFar
  <2> QED
    BY <2>3, <2>4, ProgramOrderly DEF Calls, Orderly
<1>4. gpuCall'[t] = [pc |-> "driver", of |-> gpuCall[t].of, request |-> gpuCall[t].request,
                     first |-> gpuCall[t].first, at |-> gpuCall[t].at,
                     result |-> gpuCall[t].result]
  <2>1. gpuCall'[t] = [gpuCall[t] EXCEPT !.pc = "driver"]
    BY <1>1 DEF MemoryInvariant, GpuTyped
  <2>2. CallForm(t)
    BY <1>3 DEF CallSound
  <2> QED
    BY <2>1, <2>2 DEF CallForm
<1>5. /\ gpuCall' = [u \in Callers |-> gpuCall'[u]]
      /\ \A u \in Callers : u # t => gpuCall'[u] = gpuCall[u]
  BY <1>1 DEF MemoryInvariant, GpuTyped
<1>6. GpuTyped'
  BY <1>1, <1>5 DEF MemoryInvariant, GpuTyped, managerVars
<1>7. gpuCall'[t] # Idle
  BY <1>4 DEF Idle
<1>8. ASSUME NEW u \in Callers, gpuCall[u] # Idle
      PROVE  /\ CallSound(u)' /\ BuffersOf(u)' = BuffersOf(u)
             /\ gpuCall'[u].first = gpuCall[u].first
  <2>1. CallSound(u)
    BY <1>8 DEF MemoryInvariant, CallsSound
  <2>2. /\ gpuCall'[u].first = gpuCall[u].first /\ gpuCall'[u].of = gpuCall[u].of
        /\ gpuCall'[u].at = gpuCall[u].at
        /\ u = t \/ gpuCall'[u] = gpuCall[u]
    BY <1>4, <1>5
  <2>3. /\ Plugin(u)' = Plugin(u) /\ Calls(u)' = Calls(u)
        /\ \A k \in 1 .. 3 : Buffer(u, k)' = Buffer(u, k)
    BY <1>1, <2>2 DEF Plugin, Calls, Buffer, managerVars
  <2>4. gpuCall'[t].pc = "driver"
    BY <1>4
  <2>5. FreedSoFar(u)'
    BY <1>1, <2>1, <2>2, <2>3, <2>4 DEF CallSound, FreedSoFar
  <2>6. CallForm(u)'
    BY <1>4, <2>1, <2>2 DEF CallForm, CallSound
  <2>7. CallSound(u)'
    BY <1>0, <1>1, <2>1, <2>2, <2>3, <2>4, <2>5, <2>6 DEF CallSound, managerVars
  <2> QED
    BY <2>2, <2>3, <2>7 DEF BuffersOf
<1>9. \A u \in Callers : gpuCall'[u] # Idle <=> gpuCall[u] # Idle
  BY <1>2, <1>5, <1>7
<1>10. CallsSound'
  BY <1>1, <1>8, <1>9 DEF MemoryInvariant, CallsSound
<1>11. DeviceMemoryAccounted'
  <2>1. \A h \in Handles : memory'[h] # Free =>
          h \in abandoned \/ \E u \in Callers : gpuCall[u] # Idle /\ h \in BuffersOf(u)
    BY <1>1 DEF MemoryInvariant, DeviceMemoryAccounted, Live
  <2>2. \A h \in Handles : memory'[h] # Free =>
          h \in abandoned' \/ \E u \in Callers : gpuCall'[u] # Idle /\ h \in BuffersOf(u)'
    BY <1>1, <1>8, <1>9, <2>1
  <2> QED
    BY <2>2, Zenon DEF DeviceMemoryAccounted, Live
<1> QED
  BY <1>6, <1>10, <1>11 DEF MemoryInvariant

(* What a driver call under way knows.                                     *)
LEMMA DoingMeans ==
  ASSUME MemoryInvariant, NEW t \in Callers, NEW kind, Doing(t, kind)
  PROVE  /\ gpuCall[t] # Idle /\ gpuCall[t].pc = "driver"
         /\ CallSound(t) /\ Now(t)[1] = kind
         /\ kind # "free" => gpuCall[t].at < Len(Calls(t))
         /\ kind \in {"alloc", "upload", "launch", "download", "free"} =>
              Now(t)[2] \in 1 .. 3 /\ This(t) \in BuffersOf(t) /\ This(t) \in Handles
         /\ kind = "launch" => Now(t)[2] = 3
<1>1. gpuCall[t].pc = "driver" /\ Now(t)[1] = kind /\ gpuCall[t] # Idle
  BY DEF Doing, Idle
<1>2. CallSound(t)
  BY <1>1 DEF MemoryInvariant, CallsSound
<1>3. PICK n \in Nat \ {0} : Orderly(Calls(t), n)
  BY <1>1, <1>2, ProgramOrderly DEF CallSound, Calls
<1>4. gpuCall[t].at \in 1 .. n /\ Len(Calls(t)) = n /\ Now(t) = Calls(t)[gpuCall[t].at]
  BY <1>1, <1>2, <1>3 DEF CallSound, Orderly, Now
<1>5. kind # "free" => gpuCall[t].at # n
  BY <1>1, <1>3, <1>4 DEF Orderly
<1>6. /\ kind \in {"alloc", "upload", "launch", "download", "free"} =>
           Now(t)[2] \in 1 .. 3
      /\ kind = "launch" => Now(t)[2] = 3
  BY <1>1, <1>3, <1>4 DEF Orderly
<1>7. Now(t)[2] \in 1 .. 3 => This(t) \in BuffersOf(t) /\ This(t) \in Handles
  BY <1>1, BuffersApart DEF This
<1> QED
  BY <1>1, <1>2, <1>4, <1>5, <1>6, <1>7

(* The records of the calls after one went on to its next driver call.     *)
LEMMA WentOn ==
  ASSUME MemoryInvariant, NEW t \in Callers, gpuCall[t] # Idle, GoOn(t)
  PROVE  /\ gpuCall' = [u \in Callers |-> gpuCall'[u]]
         /\ \A u \in Callers : gpuCall[u] = Idle => gpuCall'[u] = Idle
         /\ \A u \in Callers : gpuCall[u] # Idle =>
              /\ CallForm(u)'
              /\ gpuCall'[u].pc = gpuCall[u].pc /\ gpuCall'[u].of = gpuCall[u].of
              /\ gpuCall'[u].first = gpuCall[u].first
              /\ gpuCall'[u].at = IF u = t THEN gpuCall[u].at + 1 ELSE gpuCall[u].at
<1>1. gpuCall = [u \in Callers |-> gpuCall[u]]
  BY DEF MemoryInvariant, GpuTyped
<1>2. \A u \in Callers : gpuCall[u] # Idle => CallForm(u)
  BY DEF MemoryInvariant, CallsSound, CallSound
<1>3. /\ gpuCall' = [u \in Callers |-> gpuCall'[u]]
      /\ gpuCall'[t] = [gpuCall[t] EXCEPT !.at = @ + 1]
      /\ \A u \in Callers : u # t => gpuCall'[u] = gpuCall[u]
  BY <1>1 DEF GoOn
<1>4. gpuCall'[t] = [pc |-> gpuCall[t].pc, of |-> gpuCall[t].of, request |-> gpuCall[t].request,
                     first |-> gpuCall[t].first, at |-> gpuCall[t].at + 1,
                     result |-> gpuCall[t].result]
  <2>1. CallForm(t)
    BY <1>2
  <2> QED
    BY <1>3, <2>1 DEF CallForm
<1>5. \A u \in Callers : gpuCall[u] # Idle => CallForm(u)'
  BY <1>2, <1>3, <1>4 DEF CallForm
<1> QED
  BY <1>3, <1>4, <1>5

(* A driver call that fails and is not noticed, or is noticed and raises.  *)
LEMMA RaiseStep ==
  ASSUME MemoryInvariant, NEW t \in Callers, gpuCall[t] # Idle, Raise(t),
         UNCHANGED <<managerVars, memory, calls>>
  PROVE  MemoryInvariant'
<1>1. /\ gpuCall' = [gpuCall EXCEPT ![t] = Idle]
      /\ abandoned' = abandoned \cup Live(BuffersOf(t))
  BY DEF Raise
<1>2. memory' = [h \in Handles |-> memory'[h]]
  BY DEF MemoryInvariant, GpuTyped
<1>3. \A k \in 1 .. 3 : memory'[Buffer(t, k)] = Free \/ Buffer(t, k) \in abandoned'
  BY <1>1, BuffersApart DEF Live
<1> QED
  BY <1>1, <1>2, <1>3, EndStep

(* A driver call other than a free that is not the last: it writes at most its own buffer. *)
LEMMA GoOnStep ==
  ASSUME MemoryInvariant, NEW t \in Callers, NEW kind, kind # "free", Doing(t, kind), GoOn(t),
         UNCHANGED <<managerVars, calls, abandoned>>, memory' = [h \in Handles |-> memory'[h]],
         \A h \in Handles : memory[h] = Free /\ memory'[h] # Free =>
           h = This(t) /\ kind \in {"alloc", "upload", "launch"}
  PROVE  MemoryInvariant'
<1>1. /\ gpuCall[t] # Idle /\ gpuCall[t].pc = "driver" /\ Now(t)[1] = kind
      /\ gpuCall[t].at < Len(Calls(t))
      /\ kind \in {"alloc", "upload", "launch"} => This(t) \in BuffersOf(t)
  BY DoingMeans
<1>2. \A h \in Handles : memory[h] = Free /\ memory'[h] # Free =>
        h \in BuffersOf(t) /\ Now(t)[1] \notin {"download", "free"}
  BY <1>1
<1>3. Now(t)[1] = "free" => memory'[This(t)] = Free
  BY <1>1
<1> QED
  BY <1>1, <1>2, <1>3, WentOn, DriverStep

(* A failing driver call, noticed or not. *)
LEMMA DriverFailsKeeps ==
  ASSUME MemoryInvariant, NEW t \in Callers, DriverFails(t)
  PROVE  MemoryInvariant'
<1>1. PICK kind \in {"alloc", "upload", "download", "launch"} :
        Doing(t, kind)
  BY DEF DriverFails
<1>2. gpuCall[t] # Idle
  BY <1>1, DoingMeans
<1>3. UNCHANGED <<managerVars, memory, calls>> /\ memory' = [h \in Handles |-> memory'[h]]
  BY DEF DriverFails, MemoryInvariant, GpuTyped
<1>4. CASE GoOn(t) /\ UNCHANGED abandoned
  BY <1>1, <1>3, <1>4, GoOnStep
<1>5. CASE Raise(t)
  BY <1>2, <1>3, <1>5, RaiseStep
<1> QED
  BY <1>4, <1>5 DEF DriverFails

(* What an assignment to one handle leaves of the memory. *)
LEMMA MemoryWritten ==
  ASSUME MemoryInvariant, NEW x, NEW y, memory' = [memory EXCEPT ![x] = y]
  PROVE  /\ memory' = [h \in Handles |-> memory'[h]]
         /\ \A h \in Handles : h # x => memory'[h] = memory[h]
         /\ x \in Handles => memory'[x] = y
BY DEF MemoryInvariant, GpuTyped

(* Allocation and copies to the device. *)
LEMMA FillKeeps ==
  ASSUME MemoryInvariant, NEW t \in Callers, Allocate(t) \/ Copy(t)
  PROVE  MemoryInvariant'
<1>1. ASSUME NEW kind \in {"alloc", "upload"}, NEW y,
             Doing(t, kind), GoOn(t), memory' = [memory EXCEPT ![This(t)] = y],
             UNCHANGED <<managerVars, calls, abandoned>>
      PROVE  MemoryInvariant'
  <2>1. /\ memory' = [h \in Handles |-> memory'[h]]
        /\ \A h \in Handles : h # This(t) => memory'[h] = memory[h]
    BY <1>1, MemoryWritten
  <2>2. \A h \in Handles : memory[h] = Free /\ memory'[h] # Free => h = This(t)
    BY <2>1
  <2> QED
    BY <1>1, <2>1, <2>2, GoOnStep
<1>2. CASE Allocate(t)
  <2> DEFINE y == [i \in 1 .. Size(t) |-> Garbage]
  <2>1. /\ Doing(t, "alloc") /\ GoOn(t) /\ memory' = [memory EXCEPT ![This(t)] = y]
        /\ UNCHANGED <<managerVars, calls, abandoned>>
    BY <1>2 DEF Allocate
  <2> HIDE DEF y
  <2> QED
    BY <1>1, <2>1
<1>3. CASE Copy(t)
  <2>1. Doing(t, "upload")
    BY <1>3 DEF Copy
  <2>2. /\ GoOn(t) /\ memory' = [memory EXCEPT ![This(t)] = Operand(t)]
        /\ UNCHANGED <<managerVars, calls, abandoned>>
    BY <1>3 DEF Copy
  <2> QED
    BY <1>1, <2>1, <2>2
<1> QED
  BY <1>2, <1>3

(* The launches of NVIDIA and AMD, which raise, and of the CUDA backend.   *)
LEMMA LaunchKeeps ==
  ASSUME MemoryInvariant, NEW t \in Callers, LaunchCuda(t) \/ LaunchRaises(t)
  PROVE  MemoryInvariant'
<1>1. CASE LaunchRaises(t)
  <2>1. gpuCall[t] # Idle
    BY <1>1, DoingMeans DEF LaunchRaises
  <2> QED
    BY <1>1, <2>1, RaiseStep DEF LaunchRaises
<1>2. CASE LaunchCuda(t)
  <2> DEFINE r == Request(t)
             buffers == [k \in 1 .. 3 |-> Buffer(t, k)]
             y == Computed(Template(r.op), buffers, r.m, r.n, r.k)
  <2>1. Doing(t, "launch") /\ GoOn(t) /\ UNCHANGED <<managerVars, calls, abandoned>>
    BY <1>2 DEF LaunchCuda
  <2>2. This(t) = Buffer(t, 3) /\ buffers[3] = Buffer(t, 3)
    BY <2>1, DoingMeans DEF This
  <2>3. memory' = [memory EXCEPT ![This(t)] = y]
    BY <1>2, <2>2 DEF LaunchCuda
  <2> HIDE DEF y
  <2>4. /\ memory' = [h \in Handles |-> memory'[h]]
        /\ \A h \in Handles : h # This(t) => memory'[h] = memory[h]
    BY <2>3, MemoryWritten
  <2>5. \A h \in Handles : memory[h] = Free /\ memory'[h] # Free => h = This(t)
    BY <2>4
  <2> QED
    BY <2>1, <2>4, <2>5, GoOnStep
<1> QED
  BY <1>1, <1>2

(* The copy of the result to the host. *)
LEMMA DownloadKeeps ==
  ASSUME MemoryInvariant, NEW t \in Callers, Download(t)
  PROVE  MemoryInvariant'
<1>1. /\ Doing(t, "download") /\ UNCHANGED <<managerVars, memory, calls, abandoned>>
      /\ gpuCall' = [gpuCall EXCEPT ![t].at = @ + 1, ![t].result = memory[This(t)]]
  BY DEF Download
<1>2. /\ gpuCall[t] # Idle /\ gpuCall[t].pc = "driver" /\ Now(t)[1] = "download"
      /\ gpuCall[t].at < Len(Calls(t))
  BY <1>1, DoingMeans
<1>3. /\ gpuCall' = [u \in Callers |-> gpuCall'[u]] /\ memory' = [h \in Handles |-> memory'[h]]
      /\ gpuCall'[t] = [gpuCall[t] EXCEPT !.at = @ + 1, !.result = memory[This(t)]]
      /\ \A u \in Callers : u # t => gpuCall'[u] = gpuCall[u]
  BY <1>1 DEF MemoryInvariant, GpuTyped
<1>4. \A u \in Callers : gpuCall[u] # Idle => CallForm(u)
  BY DEF MemoryInvariant, CallsSound, CallSound
<1>5. gpuCall'[t] = [pc |-> gpuCall[t].pc, of |-> gpuCall[t].of, request |-> gpuCall[t].request,
                     first |-> gpuCall[t].first, at |-> gpuCall[t].at + 1,
                     result |-> memory[This(t)]]
  <2>1. CallForm(t)
    BY <1>2, <1>4
  <2> QED
    BY <1>3, <2>1, Zenon DEF CallForm
<1>6. \A u \in Callers : gpuCall[u] # Idle =>
        /\ CallForm(u)'
        /\ gpuCall'[u].pc = gpuCall[u].pc /\ gpuCall'[u].of = gpuCall[u].of
        /\ gpuCall'[u].first = gpuCall[u].first
        /\ gpuCall'[u].at = IF u = t THEN gpuCall[u].at + 1 ELSE gpuCall[u].at
  <2>1. /\ CallForm(t)' /\ gpuCall'[t].pc = gpuCall[t].pc /\ gpuCall'[t].of = gpuCall[t].of
        /\ gpuCall'[t].first = gpuCall[t].first /\ gpuCall'[t].at = gpuCall[t].at + 1
    BY <1>5 DEF CallForm
  <2>2. \A u \in Callers : u # t /\ gpuCall[u] # Idle => CallForm(u)'
    BY <1>3, <1>4 DEF CallForm
  <2> QED
    BY <1>3, <2>1, <2>2
<1>7. \A u \in Callers : gpuCall[u] = Idle => gpuCall'[u] = Idle
  BY <1>2, <1>3
<1>8. \A h \in Handles : ~(memory[h] = Free /\ memory'[h] # Free)
  BY <1>1
<1>9. UNCHANGED <<managerVars, calls, abandoned>> /\ Now(t)[1] # "free"
  BY <1>1, <1>2
<1>10. gpuCall' = [u \in Callers |-> gpuCall'[u]] /\ memory' = [h \in Handles |-> memory'[h]]
  BY <1>3
<1> QED
  BY <1>2, <1>6, <1>7, <1>8, <1>9, <1>10, DriverStep

(* The last free ends the call, and by then all three buffers are free.    *)
LEMMA FreeKeeps ==
  ASSUME MemoryInvariant, NEW t \in Callers, FreeBuffer(t)
  PROVE  MemoryInvariant'
<1>1. /\ Doing(t, "free") /\ UNCHANGED <<managerVars, calls, abandoned>>
      /\ memory' = [memory EXCEPT ![This(t)] = Free]
  BY DEF FreeBuffer, Released
<1>2. /\ gpuCall[t] # Idle /\ gpuCall[t].pc = "driver" /\ Now(t)[1] = "free"
      /\ CallSound(t) /\ This(t) \in Handles
  BY <1>1, DoingMeans
<1>3. /\ memory' = [h \in Handles |-> memory'[h]] /\ memory'[This(t)] = Free
      /\ \A h \in Handles : h # This(t) => memory'[h] = memory[h]
  BY <1>1, <1>2, MemoryWritten
<1>4. \A h \in Handles : memory[h] = Free => memory'[h] = Free
  BY <1>3
<1>5. PICK n \in Nat \ {0} : Orderly(Calls(t), n)
  BY <1>2, ProgramOrderly DEF CallSound, Calls
<1>6. /\ gpuCall[t].at \in 1 .. n /\ Len(Calls(t)) = n /\ Now(t) = Calls(t)[gpuCall[t].at]
  BY <1>2, <1>5 DEF CallSound, Orderly, Now
<1>7. CASE gpuCall[t].at = n
  <2>1. gpuCall' = [gpuCall EXCEPT ![t] = Idle]
    BY <1>6, <1>7 DEF FreeBuffer, Answer
  <2>2. ASSUME NEW k \in 1 .. 3
        PROVE  memory'[Buffer(t, k)] = Free
    <3>1. PICK j \in 1 .. n : Calls(t)[j] = <<"free", k>>
      BY <1>5 DEF Orderly
    <3>2. CASE j = n
      <4>1. Now(t)[2] = k
        BY <1>6, <1>7, <3>1, <3>2
      <4> QED
        BY <1>3, <4>1 DEF This
    <3>3. CASE j < n
      <4>1. j \in 1 .. gpuCall[t].at - 1
        BY <1>7, <3>3
      <4>2. memory[Buffer(t, k)] = Free
        BY <1>2, <3>1, <4>1 DEF CallSound, FreedSoFar
      <4> QED
        BY <1>2, <1>4, <4>2, BuffersApart
    <3> QED
      BY <3>2, <3>3
  <2> QED
    BY <1>1, <1>2, <1>3, <1>4, <2>1, <2>2, EndStep
<1>8. CASE gpuCall[t].at # n
  <2>1. GoOn(t) /\ gpuCall[t].at < Len(Calls(t))
    BY <1>6, <1>8 DEF FreeBuffer
  <2> QED
    BY <1>1, <1>2, <1>3, <1>4, <2>1, WentOn, DriverStep
<1> QED
  BY <1>7, <1>8

(* A call that ends before any driver call has allocated nothing.          *)
LEMMA LeaveKeeps ==
  ASSUME MemoryInvariant, NEW t \in Callers, FallBack(t) \/ Refuse(t)
  PROVE  MemoryInvariant'
<1>1. /\ gpuCall[t].pc = "checks" /\ gpuCall' = [gpuCall EXCEPT ![t] = Idle]
      /\ UNCHANGED <<managerVars, memory, calls, abandoned>>
  BY DEF FallBack, Refuse, Checking, Answer
<1>2. gpuCall[t] # Idle
  BY <1>1 DEF Idle
<1>3. \A k \in 1 .. 3 : memory[Buffer(t, k)] = Free
  BY <1>1, <1>2 DEF MemoryInvariant, CallsSound, CallSound, FreedSoFar
<1>4. memory' = [h \in Handles |-> memory'[h]]
  BY <1>1 DEF MemoryInvariant, GpuTyped
<1> QED
  BY <1>1, <1>2, <1>3, <1>4, EndStep

(* Nothing is allocated in the beginning. *)
LEMMA MemoryInit == GpuInit => MemoryInvariant
<1> SUFFICES ASSUME GpuInit
             PROVE  MemoryInvariant
  OBVIOUS
<1>1. MaxMade \in Nat /\ MaxCalls \in Nat
  BY GpuAssumption
<1>2. GpuTyped
  <2>1. plugin = [i \in Backend .. MaxMade |->
          IF i = Backend THEN [name |-> "cuda", has |-> {"context", "kernels", "available"},
                               life |-> "live"]
          ELSE [name |-> "none", has |-> {}, life |-> "none"]]
    BY DEF GpuInit
  <2>2. \A i \in Backend .. MaxMade :
          plugin[i] = [name |-> plugin[i].name, has |-> plugin[i].has, life |-> plugin[i].life]
    BY <2>1
  <2>3. \A i \in Backend .. MaxMade : i > 0 => plugin[i].name = "none" /\ plugin[i].life = "none"
    BY <2>1 DEF Backend
  <2>4. plugin = [i \in Backend .. MaxMade |-> plugin[i]]
    BY <2>1
  <2>5. /\ plugins = <<>> /\ made = 0 /\ calls = 0 /\ kernels = [v \in Names |-> Backend]
        /\ memory = [h \in Handles |-> Free] /\ gpuCall = [t \in Callers |-> Idle]
    BY DEF GpuInit
  <2>6. plugins \in Seq({Gap} \cup 1 .. made) /\ kernels \in [Names -> 0 .. made]
    BY <2>5 DEF Backend
  <2>7. \A i \in Backend .. MaxMade : plugin[i].name = "intel" => "available" \notin plugin[i].has
    BY <2>1
  <2>8. managing = [t \in Managers |-> managing[t]]
    BY DEF GpuInit
  <2> QED
    BY <1>1, <2>2, <2>3, <2>4, <2>5, <2>6, <2>7, <2>8 DEF GpuTyped
<1>3. CallsSound
  BY DEF GpuInit, CallsSound
<1>4. DeviceMemoryAccounted
  BY DEF GpuInit, DeviceMemoryAccounted, Live
<1> QED
  BY <1>2, <1>3, <1>4 DEF MemoryInvariant

-----------------------------------------------------------------------------
(* The manager.  Its threads hold plugins that are in the table no more, or *)
(* not yet, and shutdown_all has left behind it plugins that are over, or  *)
(* came late.                                                              *)

(* Every plugin is in the table at most once.                              *)
TableOnce ==
  \A d, e \in DOMAIN plugins : plugins[d] # Gap /\ plugins[d] = plugins[e] => d = e

InHand(t) == managing[t].pc \in {"loaded", "closing"}
Past(i)   == plugin[i].life # "live" \/ i \in late

ManagerForm(t) ==
  \/ managing[t] = Rest \/ managing[t] = [pc |-> "clearing"]
  \/ \E i : managing[t] \in {[pc |-> "loaded", who |-> i], [pc |-> "closing", who |-> i]}
  \/ \E p \in Nat : \E n, m :
       managing[t] = [pc |-> "iterating", place |-> p, size |-> n, left |-> m]

ManagerSound(t) ==
  /\ ManagerForm(t)
  /\ InHand(t) => managing[t].who \in (1 .. made) \ Table
  /\ managing[t].pc = "loaded" => plugin[managing[t].who].life = "live"
  /\ managing[t].pc = "iterating" =>
       \A e \in DOMAIN plugins :
         e <= managing[t].place /\ plugins[e] # Gap => Past(plugins[e])
  /\ managing[t].pc = "clearing" => \A i \in Table : Past(i)

HandsApart ==
  \A t, u \in Managers : t # u /\ InHand(t) /\ InHand(u) => managing[t].who # managing[u].who

PluginsInvariant ==
  /\ GpuTyped /\ TableOnce /\ HandsApart
  /\ \A t \in Managers : ManagerSound(t)
  /\ PluginsSound

(* PluginsSound by its parts.                                              *)
NoneLost ==
  \A i \in 1 .. made : plugin[i].life = "live" =>
    \/ i \in Table \cup replaced \cup late
    \/ \E t \in Managers : InHand(t) /\ managing[t].who = i
NoneStale == aborted \/ (\E t \in Managers : ShuttingDown(t)) \/
             \A i \in Table : i \in 1 .. made /\ plugin[i].life = "live"
Equipped ==
  \A i \in 1 .. made : plugin[i].life = "live" =>
    ("available" \in plugin[i].has => {"context", "kernels"} \subseteq plugin[i].has)

(* The parts are together what PluginsSound says.                          *)
LEMMA SoundParts == PluginsSound <=> NoneLost /\ NoneStale /\ Equipped
<1> DEFINE live   == {i \in 1 .. made : plugin[i].life = "live"}
           inHand == {t \in Managers : InHand(t)}
           held   == {managing[t].who : t \in inHand}
<1>1. NoneLost <=> live \subseteq Table \cup held \cup replaced \cup late
  BY DEF NoneLost
<1>2. NoneStale <=> (Table \subseteq live \/ aborted \/ \E t \in Managers : ShuttingDown(t))
  BY DEF NoneStale
<1>3. Equipped <=> \A i \in live : "available" \in plugin[i].has =>
                     {"context", "kernels"} \subseteq plugin[i].has
  BY DEF Equipped
<1>4. PluginsSound <=>
        /\ live \subseteq Table \cup held \cup replaced \cup late
        /\ Table \subseteq live \/ aborted \/ \E t \in Managers : ShuttingDown(t)
        /\ \A i \in live : "available" \in plugin[i].has =>
             {"context", "kernels"} \subseteq plugin[i].has
  BY DEF PluginsSound, InHand
<1> HIDE DEF live, inHand, held
<1> QED
  BY <1>1, <1>2, <1>3, <1>4

(* The table by its entries. *)
LEMMA TableEntries ==
  ASSUME GpuTyped
  PROVE  /\ made \in Nat /\ MaxMade \in Nat /\ 1 .. made \subseteq Backend .. MaxMade
         /\ Len(plugins) \in Nat /\ DOMAIN plugins = 1 .. Len(plugins)
         /\ \A e \in DOMAIN plugins : plugins[e] = Gap \/ plugins[e] \in 1 .. made
         /\ \A i : i \in Table <=> i # Gap /\ \E e \in DOMAIN plugins : plugins[e] = i
         /\ Table \subseteq 1 .. made
<1>1. /\ made \in 0 .. MaxMade /\ MaxMade \in Nat /\ plugins \in Seq({Gap} \cup 1 .. made)
  BY GpuAssumption DEF GpuTyped
<1>2. \A e \in DOMAIN plugins : plugins[e] \in {Gap} \cup 1 .. made
  BY <1>1
<1>3. \A i : i \in Table <=> i # Gap /\ \E e \in DOMAIN plugins : plugins[e] = i
  BY DEF Table, ToSet
<1>4. \A e \in DOMAIN plugins : plugins[e] = Gap \/ plugins[e] \in 1 .. made
  BY <1>2
<1>5. Table \subseteq 1 .. made
  BY <1>3, <1>4, Zenon
<1> QED
  BY <1>1, <1>3, <1>4, <1>5 DEF Backend

(* What one thread's step in the manager leaves of the others'.            *)
LEMMA BusyMeans ==
  ASSUME GpuTyped, NEW t \in Managers, NEW m, Busy(t, m)
  PROVE  /\ managing' = [u \in Managers |-> managing'[u]]
         /\ managing'[t] = m
         /\ \A u \in Managers : u # t => managing'[u] = managing[u]
BY DEF GpuTyped, Busy

(* A thread that is not at work stays sound if the others respect what it  *)
(* holds and has left behind.                                              *)
LEMMA OtherManager ==
  ASSUME NEW u \in Managers, ManagerSound(u), managing'[u] = managing[u],
         InHand(u) => managing[u].who \in (1 .. made') \ Table',
         managing[u].pc = "loaded" => plugin'[managing[u].who].life = "live",
         managing[u].pc = "iterating" =>
           \A e \in DOMAIN plugins' : e <= managing[u].place /\ plugins'[e] # Gap =>
             \E i : i = plugins'[e] /\ (plugin'[i].life # "live" \/ i \in late'),
         managing[u].pc = "clearing" =>
           \A i \in Table' : plugin'[i].life # "live" \/ i \in late'
  PROVE  ManagerSound(u)'
<1>1. ManagerForm(u)'
  BY DEF ManagerSound, ManagerForm, Rest
<1>2. InHand(u)' = InHand(u)
  BY DEF InHand
<1>3. managing[u].pc = "iterating" =>
        \A e \in DOMAIN plugins' : e <= managing[u].place /\ plugins'[e] # Gap =>
          plugin'[plugins'[e]].life # "live" \/ plugins'[e] \in late'
  OBVIOUS
<1> QED
  BY <1>1, <1>2, <1>3 DEF ManagerSound, Past

(* The invariant by its parts. *)
LEMMA PartsNow == PluginsInvariant => NoneLost /\ NoneStale /\ Equipped
BY SoundParts DEF PluginsInvariant

(* The invariant of the plugins from its parts, after a step.              *)
LEMMA PartsKept ==
  ASSUME GpuTyped', TableOnce', HandsApart', \A t \in Managers : ManagerSound(t)',
         NoneLost', NoneStale', Equipped'
  PROVE  PluginsInvariant'
<1>1. (PluginsSound <=> NoneLost /\ NoneStale /\ Equipped)'
  BY SoundParts, PTL
<1> QED
  BY <1>1 DEF PluginsInvariant

(* A step that leaves the plugins and the table alone. *)
LEMMA HandsOnly ==
  ASSUME PluginsInvariant, NEW t \in Managers, NEW m, Busy(t, m),
         UNCHANGED <<plugins, plugin, made, kernels, replaced, late, callVars>>,
         ~InHand(t), m.pc \notin {"loaded", "closing"}, aborted => aborted',
         ManagerSound(t)',
         ShuttingDown(t) => aborted' \/ m.pc \in {"iterating", "clearing"}
  PROVE  PluginsInvariant'
<1>1. /\ managing' = [u \in Managers |-> managing'[u]]
      /\ managing'[t] = m
      /\ \A u \in Managers : u # t => managing'[u] = managing[u]
  BY BusyMeans DEF PluginsInvariant
<1>2. GpuTyped'
  BY <1>1 DEF PluginsInvariant, GpuTyped, callVars
<1>3. TableOnce' /\ Table' = Table
  BY DEF PluginsInvariant, TableOnce, Table
<1>4. ~InHand(t)'
  BY <1>1 DEF InHand
<1>5. HandsApart'
  BY <1>1, <1>4 DEF PluginsInvariant, HandsApart, InHand
<1>6. ASSUME NEW u \in Managers
      PROVE  ManagerSound(u)'
  <2>1. CASE u # t
    <3>1. ManagerSound(u) /\ managing'[u] = managing[u]
      BY <1>1, <2>1 DEF PluginsInvariant
    <3> QED
      BY <1>3, <3>1, OtherManager DEF ManagerSound, Past
  <2> QED
    BY <2>1
<1>7. NoneLost'
  <2>1. NoneLost
    BY SoundParts DEF PluginsInvariant
  <2>2. \A u \in Managers : InHand(u) => u # t /\ InHand(u)' /\ managing'[u] = managing[u]
    BY <1>1 DEF InHand
  <2> QED
    BY <1>3, <2>1, <2>2 DEF NoneLost
<1>8. NoneStale'
  <2>1. NoneStale
    BY SoundParts DEF PluginsInvariant
  <2>2. \A u \in Managers : ShuttingDown(u) => ShuttingDown(u)' \/ aborted'
    BY <1>1 DEF ShuttingDown
  <2> QED
    BY <1>3, <2>1, <2>2 DEF NoneStale
<1>9. Equipped'
  <2>1. Equipped
    BY SoundParts DEF PluginsInvariant
  <2> QED
    BY <2>1 DEF Equipped
<1> QED
  BY <1>2, <1>3, <1>5, <1>6, <1>7, <1>8, <1>9, PartsKept

(* A thread in the loop of shutdown_all knows its place. *)
LEMMA IteratingMeans ==
  ASSUME NEW t \in Managers, ManagerSound(t), managing[t].pc = "iterating"
  PROVE  \E p \in Nat : \E n, m :
           managing[t] = [pc |-> "iterating", place |-> p, size |-> n, left |-> m]
<1>1. managing[t] # Rest /\ managing[t] # [pc |-> "clearing"]
  BY DEF Rest
<1>2. \A i : managing[t] \notin {[pc |-> "loaded", who |-> i], [pc |-> "closing", who |-> i]}
  OBVIOUS
<1> QED
  BY <1>1, <1>2, Zenon DEF ManagerSound, ManagerForm

(* shutdown_all: where it begins nothing is behind it, where an exception  *)
(* ends it nothing is claimed, and at the end everything is behind it.     *)
LEMMA IterationKeeps ==
  ASSUME PluginsInvariant, NEW t \in Managers,
         BeginShutdown(t) \/ IterationFails(t) \/ EndIteration(t)
  PROVE  PluginsInvariant'
<1>0. /\ GpuTyped /\ Len(plugins) \in Nat /\ DOMAIN plugins = 1 .. Len(plugins)
      /\ \A i : i \in Table <=> i # Gap /\ \E e \in DOMAIN plugins : plugins[e] = i
  BY TableEntries DEF PluginsInvariant
<1>1. CASE BeginShutdown(t)
  <2> DEFINE size == Cardinality(Table)
             m == [pc |-> "iterating", place |-> 0, size |-> size, left |-> size]
  <2>1. /\ managing[t] = Rest /\ Busy(t, m)
        /\ UNCHANGED <<plugins, plugin, made, kernels, historyVars, callVars>>
    BY <1>1 DEF BeginShutdown
  <2>2. managing'[t] = m
    BY <1>0, <2>1, BusyMeans
  <2>3. ManagerSound(t)'
    <3>1. managing'[t].pc = "iterating" /\ managing'[t].place = 0
      BY <2>2
    <3>4. \E p \in Nat : \E n, k :
            managing'[t] = [pc |-> "iterating", place |-> p, size |-> n, left |-> k]
      <4>1. 0 \in Nat
        OBVIOUS
      <4> HIDE DEF size
      <4> QED
        BY <2>2, <4>1, Zenon
    <3>5. ManagerForm(t)'
      BY <3>4, Zenon DEF ManagerForm
    <3>2. \A e \in DOMAIN plugins' : ~(e <= 0)
      BY <1>0, <2>1
    <3>3. ~InHand(t)'
      BY <3>1 DEF InHand
    <3> QED
      BY <3>1, <3>2, <3>3, <3>5 DEF ManagerSound
  <2>4. ~InHand(t) /\ ~ShuttingDown(t)
    BY <2>1 DEF InHand, ShuttingDown, Rest
  <2>5. UNCHANGED <<plugins, plugin, made, kernels, replaced, late, callVars>> /\ aborted' = aborted
    BY <2>1 DEF historyVars
  <2>6. m.pc \notin {"loaded", "closing"}
    OBVIOUS
  <2> HIDE DEF m
  <2> QED
    BY <2>1, <2>3, <2>4, <2>5, <2>6, HandsOnly
<1>2. CASE IterationFails(t)
  <2>1. /\ managing[t].pc = "iterating" /\ Busy(t, Rest) /\ aborted'
        /\ UNCHANGED <<plugins, plugin, made, kernels, replaced, late, callVars>>
    BY <1>2 DEF IterationFails
  <2>2. managing'[t] = Rest
    BY <1>0, <2>1, BusyMeans
  <2>3. ManagerSound(t)' /\ Rest.pc \notin {"loaded", "closing"}
    BY <2>2 DEF ManagerSound, ManagerForm, InHand, Rest
  <2>4. ~InHand(t)
    BY <2>1 DEF InHand
  <2> QED
    BY <2>1, <2>3, <2>4, HandsOnly
<1>3. CASE EndIteration(t)
  <2> DEFINE m == [pc |-> "clearing"]
  <2>1. /\ managing[t].pc = "iterating" /\ Ahead(t) = {} /\ Busy(t, m)
        /\ UNCHANGED <<plugins, plugin, made, kernels, historyVars, callVars>>
    BY <1>3 DEF EndIteration
  <2>2. managing'[t] = m
    BY <1>0, <2>1, BusyMeans
  <2>3. UNCHANGED <<plugins, plugin, made, kernels, replaced, late, callVars>> /\ aborted' = aborted
    BY <2>1 DEF historyVars
  <2>4. ASSUME NEW i \in Table
        PROVE  Past(i)
    <3>1. PICK e \in DOMAIN plugins : plugins[e] = i /\ i # Gap
      BY <1>0
    <3>2. ManagerSound(t)
      BY DEF PluginsInvariant
    <3>3. PICK p \in Nat : managing[t].place = p
      <4>1. PICK p \in Nat : \E n, k :
              managing[t] = [pc |-> "iterating", place |-> p, size |-> n, left |-> k]
        BY <2>1, <3>2, IteratingMeans
      <4> QED
        BY <4>1
    <3>4. ~(e > p)
      BY <2>1, <3>1, <3>3 DEF Ahead
    <3>5. e <= p
      BY <1>0, <3>4
    <3> QED
      BY <2>1, <3>1, <3>2, <3>3, <3>5 DEF ManagerSound
  <2>5. ManagerSound(t)'
    <3>1. ManagerForm(t)' /\ managing'[t].pc = "clearing" /\ ~InHand(t)'
      BY <2>2 DEF ManagerForm, InHand
    <3>2. Table' = Table /\ \A i : Past(i)' = Past(i)
      BY <2>3 DEF Table, Past
    <3> QED
      BY <2>4, <3>1, <3>2 DEF ManagerSound
  <2>6. ~InHand(t) /\ m.pc \in {"iterating", "clearing"} /\ m.pc \notin {"loaded", "closing"}
    BY <2>1 DEF InHand
  <2> HIDE DEF m
  <2> QED
    BY <2>1, <2>3, <2>5, <2>6, HandsOnly
<1> QED
  BY <1>1, <1>2, <1>3

(* shutdown() of a plugin.                                                 *)
LEMMA ShutDownFields ==
  ASSUME GpuTyped, NEW i \in 1 .. made, ShutDown(i)
  PROVE  /\ plugin' = [j \in Backend .. MaxMade |-> plugin'[j]]
         /\ \A j \in Backend .. MaxMade :
              /\ plugin'[j] = [name |-> plugin'[j].name, has |-> plugin'[j].has,
                               life |-> plugin'[j].life]
              /\ plugin'[j].name = plugin[j].name
              /\ "available" \in plugin'[j].has => "available" \in plugin[j].has
              /\ j # i => plugin'[j] = plugin[j]
         /\ plugin'[i].life = "shut"
<1>1. plugin = [j \in Backend .. MaxMade |-> plugin[j]] /\ i \in Backend .. MaxMade
  BY TableEntries DEF GpuTyped
<1>2. plugin[i] = [name |-> plugin[i].name, has |-> plugin[i].has, life |-> plugin[i].life]
  BY <1>1 DEF GpuTyped
<1>3. /\ plugin' = [j \in Backend .. MaxMade |-> plugin'[j]]
      /\ plugin'[i] = [plugin[i] EXCEPT !.has = @ \ {"context"}, !.life = "shut"]
      /\ \A j \in Backend .. MaxMade : j # i => plugin'[j] = plugin[j]
  BY <1>1 DEF ShutDown
<1>4. plugin'[i] = [name |-> plugin[i].name, has |-> plugin[i].has \ {"context"},
                    life |-> "shut"]
  BY <1>2, <1>3
<1>5. ASSUME NEW j \in Backend .. MaxMade
      PROVE  /\ plugin'[j] = [name |-> plugin'[j].name, has |-> plugin'[j].has,
                              life |-> plugin'[j].life]
             /\ plugin'[j].name = plugin[j].name
             /\ "available" \in plugin'[j].has => "available" \in plugin[j].has
  <2>1. CASE j = i
    BY <1>2, <1>4, <2>1
  <2>2. CASE j # i
    <3>1. plugin'[j] = plugin[j]
      BY <1>3, <2>2
    <3>2. plugin[j] = [name |-> plugin[j].name, has |-> plugin[j].has, life |-> plugin[j].life]
      BY DEF GpuTyped
    <3> QED
      BY <3>1, <3>2
  <2> QED
    BY <2>1, <2>2
<1>6. plugin'[i].life = "shut"
  BY <1>4
<1> QED
  BY <1>3, <1>5, <1>6

(* A thread shuts a plugin down that nobody else has in hand: the one it   *)
(* took out, or the next one of the table in a shutdown_all.               *)
LEMMA ShutPlugin ==
  ASSUME PluginsInvariant, NEW t \in Managers, NEW m, Busy(t, m),
         NEW i \in 1 .. made, ShutDown(i),
         UNCHANGED <<plugins, made, kernels, replaced, late, callVars>>, aborted => aborted',
         \A u \in Managers : u # t /\ InHand(u) => managing[u].who # i,
         InHand(t) => managing[t].who = i, m.pc \notin {"loaded", "closing"},
         ManagerSound(t)', i \in Table => ShuttingDown(t),
         ShuttingDown(t) => aborted' \/ m.pc \in {"iterating", "clearing"}
  PROVE  PluginsInvariant' /\ \A j \in Backend .. made : plugin'[j].name = plugin[j].name
<1>1. /\ managing' = [u \in Managers |-> managing'[u]]
      /\ managing'[t] = m
      /\ \A u \in Managers : u # t => managing'[u] = managing[u]
  BY BusyMeans DEF PluginsInvariant
<1>2. /\ plugin' = [j \in Backend .. MaxMade |-> plugin'[j]]
      /\ \A j \in Backend .. MaxMade :
           /\ plugin'[j] = [name |-> plugin'[j].name, has |-> plugin'[j].has,
                            life |-> plugin'[j].life]
           /\ plugin'[j].name = plugin[j].name
           /\ "available" \in plugin'[j].has => "available" \in plugin[j].has
           /\ j # i => plugin'[j] = plugin[j]
      /\ plugin'[i].life = "shut"
  BY ShutDownFields DEF PluginsInvariant
<1>3. /\ made \in Nat /\ MaxMade \in Nat /\ 1 .. made \subseteq Backend .. MaxMade
      /\ Backend .. made \subseteq Backend .. MaxMade /\ Table \subseteq 1 .. made
      /\ \A j : j \in Table <=> j # Gap /\ \E e \in DOMAIN plugins : plugins[e] = j
  <2>1. made \in 0 .. MaxMade
    BY DEF PluginsInvariant, GpuTyped
  <2>2. made \in Nat /\ MaxMade \in Nat
    BY <2>1, GpuAssumption
  <2> QED
    BY <2>1, <2>2, TableEntries DEF PluginsInvariant, Backend
<1>4. GpuTyped'
  <2>1. \A j \in Backend .. MaxMade :
          j > made => plugin'[j].name = "none" /\ plugin'[j].life = "none"
    <3>1. \A j \in Backend .. MaxMade : j > made => j # i
      BY <1>3 DEF Backend
    <3> QED
      BY <1>2, <3>1 DEF PluginsInvariant, GpuTyped
  <2>2. \A j \in Backend .. MaxMade : plugin'[j].name = "intel" => "available" \notin plugin'[j].has
    BY <1>2 DEF PluginsInvariant, GpuTyped
  <2> QED
    BY <1>1, <1>2, <2>1, <2>2 DEF PluginsInvariant, GpuTyped, callVars
<1>5. TableOnce' /\ Table' = Table
  BY DEF PluginsInvariant, TableOnce, Table
<1>6. ~InHand(t)' /\ \A u \in Managers : u # t => InHand(u)' = InHand(u)
  BY <1>1 DEF InHand
<1>7. HandsApart'
  BY <1>1, <1>6 DEF PluginsInvariant, HandsApart
<1>8. \A j \in 1 .. made : plugin[j].life # "live" => plugin'[j].life # "live"
  BY <1>2, <1>3
<1>9. \A j \in 1 .. made : j # i => plugin'[j] = plugin[j]
  BY <1>2, <1>3
<1>10. ASSUME NEW u \in Managers
       PROVE  ManagerSound(u)'
  <2>1. CASE u # t
    <3>1. ManagerSound(u) /\ managing'[u] = managing[u]
      BY <1>1, <2>1 DEF PluginsInvariant
    <3>2. InHand(u) => managing[u].who \in (1 .. made') \ Table'
      BY <1>5, <3>1 DEF ManagerSound
    <3>3. managing[u].pc = "loaded" => plugin'[managing[u].who].life = "live"
      <4>1. managing[u].pc = "loaded" => InHand(u)
        BY DEF InHand
      <4>2. InHand(u) => managing[u].who \in 1 .. made /\ managing[u].who # i
        BY <2>1, <3>1 DEF ManagerSound
      <4> QED
        BY <1>9, <3>1, <4>1, <4>2 DEF ManagerSound
    <3>4. \A j \in Table : Past(j) => plugin'[j].life # "live" \/ j \in late'
      BY <1>3, <1>8 DEF Past
    <3>5. managing[u].pc = "iterating" =>
            \A e \in DOMAIN plugins' : e <= managing[u].place /\ plugins'[e] # Gap =>
              \E j : j = plugins'[e] /\ (plugin'[j].life # "live" \/ j \in late')
      <4>1. \A e \in DOMAIN plugins : plugins[e] # Gap => plugins[e] \in Table
        BY <1>3
      <4> QED
        BY <3>1, <3>4, <4>1 DEF ManagerSound
    <3>6. managing[u].pc = "clearing" => \A j \in Table' : plugin'[j].life # "live" \/ j \in late'
      BY <1>5, <3>1, <3>4 DEF ManagerSound
    <3> QED
      BY <3>1, <3>2, <3>3, <3>5, <3>6, OtherManager
  <2> QED
    BY <2>1
<1>11. NoneLost'
  <2>1. ASSUME NEW j \in 1 .. made, plugin'[j].life = "live"
        PROVE  \/ j \in Table' \cup replaced' \cup late'
               \/ \E u \in Managers : InHand(u)' /\ managing'[u].who = j
    <3>1. j # i /\ plugin[j].life = "live"
      BY <1>2, <1>8, <2>1
    <3>2. CASE j \in Table \cup replaced \cup late
      BY <1>5, <3>2
    <3>3. CASE \E u \in Managers : InHand(u) /\ managing[u].who = j
      <4>1. PICK u \in Managers : InHand(u) /\ managing[u].who = j
        BY <3>3
      <4>2. u # t
        BY <3>1, <4>1
      <4> QED
        BY <1>1, <1>6, <4>1, <4>2
    <3> QED
      BY <3>1, <3>2, <3>3, PartsNow DEF NoneLost
  <2> QED
    BY <2>1 DEF NoneLost
<1>12. NoneStale'
  <2>1. \A u \in Managers : ShuttingDown(u) => ShuttingDown(u)' \/ aborted'
    BY <1>1 DEF ShuttingDown
  <2>2. CASE aborted \/ \E u \in Managers : ShuttingDown(u)
    BY <2>1, <2>2 DEF NoneStale
  <2>3. CASE ~(aborted \/ \E u \in Managers : ShuttingDown(u))
    <3>1. i \notin Table /\ \A j \in Table : j \in 1 .. made /\ plugin[j].life = "live"
      BY <2>3, PartsNow DEF NoneStale
    <3>2. \A j \in Table : j \in 1 .. made /\ plugin'[j].life = "live"
      BY <1>9, <3>1
    <3> QED
      BY <1>5, <3>2 DEF NoneStale
  <2> QED
    BY <2>2, <2>3
<1>13. Equipped'
  <2>1. \A j \in 1 .. made : plugin'[j].life = "live" => plugin'[j] = plugin[j]
    BY <1>2, <1>9
  <2> QED
    BY <2>1, PartsNow DEF Equipped
<1> QED
  BY <1>2, <1>3, <1>4, <1>5, <1>7, <1>10, <1>11, <1>12, <1>13, PartsKept

(* unload, after the pop.                                                  *)
LEMMA CloseKeeps ==
  ASSUME PluginsInvariant, NEW t \in Managers, Close(t)
  PROVE  PluginsInvariant' /\ \A j \in Backend .. made : plugin'[j].name = plugin[j].name
<1> DEFINE i == managing[t].who
<1>1. /\ managing[t].pc = "closing" /\ ShutDown(i) /\ Busy(t, Rest)
      /\ UNCHANGED <<plugins, made, kernels, historyVars, callVars>>
  BY DEF Close
<1>2. InHand(t) /\ ~ShuttingDown(t)
  BY <1>1 DEF InHand, ShuttingDown
<1>3. i \in 1 .. made /\ i \notin Table
  BY <1>2 DEF PluginsInvariant, ManagerSound
<1>4. \A u \in Managers : u # t /\ InHand(u) => managing[u].who # i
  BY <1>2 DEF PluginsInvariant, HandsApart
<1>5. managing'[t] = Rest
  BY <1>1, BusyMeans DEF PluginsInvariant
<1>6. ManagerSound(t)' /\ Rest.pc \notin {"loaded", "closing"}
  BY <1>5 DEF ManagerSound, ManagerForm, InHand, Rest
<1>7. UNCHANGED <<plugins, made, kernels, replaced, late, callVars>> /\ aborted' = aborted
  BY <1>1 DEF historyVars
<1> HIDE DEF i
<1>8. InHand(t) => managing[t].who = i
  BY DEF i
<1> QED
  BY <1>1, <1>2, <1>3, <1>4, <1>6, <1>7, <1>8, ShutPlugin

(* shutdown_all, at the next plugin: its shutdown is over, or it raised.   *)
LEMMA ShutdownNextKeeps ==
  ASSUME PluginsInvariant, NEW t \in Managers, ShutdownNext(t)
  PROVE  PluginsInvariant' /\ \A j \in Backend .. made : plugin'[j].name = plugin[j].name
<1>1. managing[t].pc = "iterating" /\ UNCHANGED <<plugins, made, kernels, replaced, late, callVars>>
  BY DEF ShutdownNext
<1>2. PICK e \in Ahead(t) :
        /\ \A d \in Ahead(t) : e <= d
        /\ ShutDown(plugins[e])
        /\ \/ /\ Busy(t, [managing[t] EXCEPT !.place = e, !.left = @ - 1])
              /\ UNCHANGED aborted
           \/ Busy(t, Rest) /\ aborted' = TRUE
  BY DEF ShutdownNext
<1> DEFINE i == plugins[e]
<1>3. /\ GpuTyped /\ Len(plugins) \in Nat /\ DOMAIN plugins = 1 .. Len(plugins)
      /\ \A j : j \in Table <=> j # Gap /\ \E d \in DOMAIN plugins : plugins[d] = j
      /\ Table \subseteq 1 .. made /\ 1 .. made \subseteq Backend .. MaxMade
  BY TableEntries DEF PluginsInvariant
<1>4. e \in DOMAIN plugins /\ i # Gap /\ i \in Table /\ i \in 1 .. made
  BY <1>3 DEF Ahead
<1>5. \A u \in Managers : InHand(u) => managing[u].who # i
  BY <1>4 DEF PluginsInvariant, ManagerSound
<1>6. ~InHand(t) /\ ShuttingDown(t) /\ ManagerSound(t)
  BY <1>1 DEF InHand, ShuttingDown, PluginsInvariant
<1> HIDE DEF i
<1>7. ShutDown(i)
  BY <1>2 DEF i
<1>8. CASE Busy(t, Rest) /\ aborted' = TRUE
  <2>1. managing'[t] = Rest
    BY <1>3, <1>8, BusyMeans
  <2>2. ManagerSound(t)' /\ Rest.pc \notin {"loaded", "closing"}
    BY <2>1 DEF ManagerSound, ManagerForm, InHand, Rest
  <2> QED
    BY <1>1, <1>4, <1>5, <1>6, <1>7, <1>8, <2>2, ShutPlugin
<1>9. CASE Busy(t, [managing[t] EXCEPT !.place = e, !.left = @ - 1]) /\ aborted' = aborted
  <2>1. PICK p \in Nat : \E n, k :
          managing[t] = [pc |-> "iterating", place |-> p, size |-> n, left |-> k]
    BY <1>1, <1>6, IteratingMeans
  <2>2. PICK n, k : managing[t] = [pc |-> "iterating", place |-> p, size |-> n, left |-> k]
    BY <2>1
  <2> DEFINE m == [pc |-> "iterating", place |-> e, size |-> n, left |-> k - 1]
  <2>3. [managing[t] EXCEPT !.place = e, !.left = @ - 1] = m
    <3>1. PICK r : r = managing[t]
      OBVIOUS
    <3>2. r = [pc |-> "iterating", place |-> p, size |-> n, left |-> k]
      BY <2>2, <3>1
    <3>3. PICK x : x = k - 1
      OBVIOUS
    <3>4. PICK y : y = [r EXCEPT !.place = e]
      OBVIOUS
    <3>5. y = [pc |-> "iterating", place |-> e, size |-> n, left |-> k]
      BY <3>2, <3>4
    <3>6. [y EXCEPT !.left = x] = [pc |-> "iterating", place |-> e, size |-> n, left |-> x]
      BY <3>5
    <3>7. [[r EXCEPT !.place = e] EXCEPT !.left = x] = [y EXCEPT !.left = x]
      BY <3>4, Zenon
    <3>8. [r EXCEPT !.place = e, !.left = x] = [[r EXCEPT !.place = e] EXCEPT !.left = x]
      BY <3>2
    <3>9. [r EXCEPT !.place = e, !.left = @ - 1] = [r EXCEPT !.place = e, !.left = x]
      BY <3>2, <3>3
    <3>10. [r EXCEPT !.place = e, !.left = @ - 1] = m
      BY <3>3, <3>6, <3>7, <3>8, <3>9, Zenon
    <3> HIDE DEF m
    <3> QED
      BY <3>1, <3>10, Zenon
  <2>4. Busy(t, m)
    BY <1>9, <2>3
  <2>5. managing'[t] = m
    BY <1>3, <2>4, BusyMeans
  <2>6. managing[t].place = p
    BY <2>2
  <2>7. ManagerForm(t)'
    <3>1. e \in Nat
      BY <1>3, <1>4
    <3> QED
      BY <2>5, <3>1, Zenon DEF ManagerForm
  <2>8. managing'[t].pc = "iterating" /\ managing'[t].place = e /\ m.pc = "iterating"
    BY <2>5
  <2>9. ASSUME NEW d \in DOMAIN plugins, d <= e, plugins[d] # Gap
        PROVE  plugin'[plugins[d]].life # "live" \/ plugins[d] \in late
    <3>0. /\ plugin'[i].life = "shut" /\ i \in Backend .. MaxMade
          /\ \A j \in Backend .. MaxMade : j # i => plugin'[j] = plugin[j]
      BY <1>3, <1>4, <1>7, ShutDownFields
    <3>1. CASE d > p
      <4>1. d \in Ahead(t)
        BY <2>6, <2>9, <3>1 DEF Ahead
      <4>2. d = e
        BY <1>2, <1>3, <1>4, <2>9, <4>1
      <4> QED
        BY <3>0, <4>2 DEF i
    <3>2. CASE d <= p
      <4>1. Past(plugins[d])
        BY <1>1, <1>6, <2>6, <2>9, <3>2 DEF ManagerSound
      <4>2. PICK j : j = plugins[d]
        OBVIOUS
      <4>3. j \in Backend .. MaxMade
        BY <1>3, <2>9, <4>2
      <4>4. plugin[j].life # "live" \/ j \in late
        BY <4>1, <4>2 DEF Past
      <4>5. plugin'[j].life # "live" \/ j \in late
        BY <3>0, <4>3, <4>4
      <4> QED
        BY <4>2, <4>5
    <3> QED
      BY <1>3, <2>1, <3>1, <3>2
  <2>10. ManagerSound(t)'
    <3>1. ~InHand(t)'
      BY <2>8 DEF InHand
    <3>2. plugins' = plugins /\ late' = late
      BY <1>1
    <3> QED
      BY <2>7, <2>8, <2>9, <3>1, <3>2 DEF ManagerSound, Past
  <2> HIDE DEF m
  <2>11. m.pc \notin {"loaded", "closing"} /\ m.pc \in {"iterating", "clearing"}
    BY <2>8
  <2> QED
    BY <1>1, <1>4, <1>5, <1>6, <1>7, <1>9, <2>4, <2>10, <2>11, ShutPlugin
<1> QED
  BY <1>2, <1>8, <1>9

(* unload, the pop: the thread has the plugin in hand.                     *)
LEMMA TakeOutKeeps ==
  ASSUME PluginsInvariant, NEW t \in Managers, NEW name \in Names, TakeOut(t, name)
  PROVE  PluginsInvariant'
<1>1. PICK e \in EntryOf(name) :
        /\ plugins' = [plugins EXCEPT ![e] = Gap]
        /\ Busy(t, [pc |-> "closing", who |-> plugins[e]])
  BY DEF TakeOut
<1>2. managing[t] = Rest /\ UNCHANGED <<plugin, made, kernels, historyVars, callVars>>
  BY DEF TakeOut
<1> DEFINE i == plugins[e]
<1>3. /\ GpuTyped /\ Len(plugins) \in Nat /\ DOMAIN plugins = 1 .. Len(plugins)
      /\ \A j : j \in Table <=> j # Gap /\ \E d \in DOMAIN plugins : plugins[d] = j
      /\ Table \subseteq 1 .. made
  BY TableEntries DEF PluginsInvariant
<1>4. e \in DOMAIN plugins /\ i # Gap /\ i \in Table /\ i \in 1 .. made
  BY <1>3 DEF EntryOf
<1>5. /\ managing' = [u \in Managers |-> managing'[u]]
      /\ managing'[t] = [pc |-> "closing", who |-> i]
      /\ \A u \in Managers : u # t => managing'[u] = managing[u]
  BY <1>1, <1>3, BusyMeans
<1> HIDE DEF i
<1>6. /\ plugins' \in Seq({Gap} \cup 1 .. made) /\ DOMAIN plugins' = DOMAIN plugins
      /\ plugins'[e] = Gap /\ \A d \in DOMAIN plugins : d # e => plugins'[d] = plugins[d]
  <2>1. plugins \in Seq({Gap} \cup 1 .. made)
    BY <1>3 DEF GpuTyped
  <2> QED
    BY <1>1, <1>4, <2>1
<1>7. GpuTyped'
  BY <1>2, <1>5, <1>6 DEF PluginsInvariant, GpuTyped, callVars, historyVars
<1>8. TableOnce'
  BY <1>6 DEF PluginsInvariant, TableOnce
<1>9. Table' \subseteq Table /\ i \notin Table' /\ Table \subseteq Table' \cup {i}
  <2>1. \A j : j \in Table' <=> j # Gap /\ \E d \in DOMAIN plugins' : plugins'[d] = j
    BY DEF Table, ToSet
  <2>2. \A d \in DOMAIN plugins : d # e => plugins[d] # i
    BY <1>4 DEF PluginsInvariant, TableOnce, i
  <2>3. plugins[e] = i
    BY DEF i
  <2> QED
    BY <1>3, <1>4, <1>6, <2>1, <2>2, <2>3
<1>10. /\ InHand(t)' /\ managing'[t].who = i /\ ~InHand(t) /\ ~ShuttingDown(t)
       /\ \A u \in Managers : u # t => InHand(u)' = InHand(u) /\ ShuttingDown(u)' = ShuttingDown(u)
  BY <1>2, <1>5 DEF InHand, ShuttingDown, Rest
<1>11. HandsApart'
  <2>1. \A u \in Managers : InHand(u) => managing[u].who # i
    BY <1>4 DEF PluginsInvariant, ManagerSound
  <2> QED
    BY <1>5, <1>10, <2>1 DEF PluginsInvariant, HandsApart
<1>12. ASSUME NEW u \in Managers
       PROVE  ManagerSound(u)'
  <2>1. CASE u = t
    <3>1. managing'[t].pc = "closing"
      BY <1>5
    <3>2. managing'[t] \in {[pc |-> "loaded", who |-> i], [pc |-> "closing", who |-> i]}
      BY <1>5
    <3>3. ManagerForm(t)'
      BY <3>2, Zenon DEF ManagerForm
    <3> QED
      BY <1>2, <1>4, <1>9, <1>10, <2>1, <3>1, <3>3 DEF ManagerSound
  <2>2. CASE u # t
    <3>1. ManagerSound(u) /\ managing'[u] = managing[u]
      BY <1>5, <2>2 DEF PluginsInvariant
    <3>2. plugin' = plugin /\ late' = late /\ made' = made
      BY <1>2 DEF historyVars
    <3>3. InHand(u) => managing[u].who \in (1 .. made') \ Table'
      BY <1>9, <3>1, <3>2 DEF ManagerSound
    <3>4. managing[u].pc = "loaded" => plugin'[managing[u].who].life = "live"
      BY <3>1, <3>2 DEF ManagerSound
    <3>5. managing[u].pc = "iterating" =>
            \A d \in DOMAIN plugins' : d <= managing[u].place /\ plugins'[d] # Gap =>
              \E j : j = plugins'[d] /\ (plugin'[j].life # "live" \/ j \in late')
      BY <1>6, <3>1, <3>2 DEF ManagerSound, Past
    <3>6. managing[u].pc = "clearing" => \A j \in Table' : plugin'[j].life # "live" \/ j \in late'
      BY <1>9, <3>1, <3>2 DEF ManagerSound, Past
    <3> QED
      BY <3>1, <3>3, <3>4, <3>5, <3>6, OtherManager
  <2> QED
    BY <2>1, <2>2
<1>13. NoneLost'
  <2>1. plugin' = plugin /\ late' = late /\ made' = made /\ replaced' = replaced
    BY <1>2 DEF historyVars
  <2>2. ASSUME NEW j \in 1 .. made, plugin[j].life = "live"
        PROVE  \/ j \in Table' \cup replaced' \cup late'
               \/ \E u \in Managers : InHand(u)' /\ managing'[u].who = j
    <3>1. CASE j \in Table \cup replaced \cup late
      BY <1>9, <1>10, <2>1, <3>1
    <3>2. CASE \E u \in Managers : InHand(u) /\ managing[u].who = j
      BY <1>5, <1>10, <3>2
    <3> QED
      BY <2>2, <3>1, <3>2, PartsNow DEF NoneLost
  <2> QED
    BY <2>1, <2>2 DEF NoneLost
<1>14. NoneStale'
  BY <1>2, <1>9, <1>10, PartsNow DEF NoneStale, historyVars
<1>15. Equipped'
  BY <1>2, PartsNow DEF Equipped
<1> QED
  BY <1>7, <1>8, <1>11, <1>12, <1>13, <1>14, <1>15, PartsKept

(* The end of a shutdown_all: all that is in the table is over or came late. *)
LEMMA ClearKeeps ==
  ASSUME PluginsInvariant, NEW t \in Managers, ClearTable(t)
  PROVE  PluginsInvariant'
<1>1. /\ managing[t].pc = "clearing" /\ plugins' = <<>> /\ Busy(t, Rest)
      /\ UNCHANGED <<plugin, made, kernels, historyVars, callVars>>
  BY DEF ClearTable
<1>2. /\ managing' = [u \in Managers |-> managing'[u]] /\ managing'[t] = Rest
      /\ \A u \in Managers : u # t => managing'[u] = managing[u]
  BY <1>1, BusyMeans DEF PluginsInvariant
<1>3. plugins' \in Seq({Gap} \cup 1 .. made) /\ DOMAIN plugins' = {}
  BY <1>1
<1>4. GpuTyped'
  BY <1>1, <1>2, <1>3 DEF PluginsInvariant, GpuTyped, callVars, historyVars
<1>5. TableOnce' /\ Table' = {}
  BY <1>3 DEF TableOnce, Table, ToSet
<1>6. ~InHand(t) /\ ~InHand(t)' /\ \A u \in Managers : u # t => InHand(u)' = InHand(u)
  BY <1>1, <1>2 DEF InHand, Rest
<1>7. HandsApart'
  BY <1>2, <1>6 DEF PluginsInvariant, HandsApart
<1>8. ASSUME NEW u \in Managers
      PROVE  ManagerSound(u)'
  <2>1. CASE u = t
    BY <1>2, <2>1 DEF ManagerSound, ManagerForm, InHand, Rest
  <2>2. CASE u # t
    <3>1. ManagerSound(u) /\ managing'[u] = managing[u]
      BY <1>2, <2>2 DEF PluginsInvariant
    <3> QED
      BY <1>1, <1>3, <1>5, <3>1, OtherManager DEF ManagerSound
  <2> QED
    BY <2>1, <2>2
<1>9. NoneLost'
  <2>1. ASSUME NEW j \in 1 .. made, plugin[j].life = "live"
        PROVE  \/ j \in Table' \cup replaced' \cup late'
               \/ \E u \in Managers : InHand(u)' /\ managing'[u].who = j
    <3>1. ManagerSound(t)
      BY DEF PluginsInvariant
    <3>2. CASE j \in Table
      BY <1>1, <2>1, <3>1, <3>2 DEF ManagerSound, Past, historyVars
    <3>3. CASE j \in replaced \cup late
      BY <1>1, <3>3 DEF historyVars
    <3>4. CASE \E u \in Managers : InHand(u) /\ managing[u].who = j
      BY <1>2, <1>6, <3>4
    <3> QED
      BY <2>1, <3>2, <3>3, <3>4, PartsNow DEF NoneLost
  <2> QED
    BY <1>1, <2>1 DEF NoneLost
<1>10. NoneStale'
  BY <1>5 DEF NoneStale
<1>11. Equipped'
  BY <1>1, PartsNow DEF Equipped
<1> QED
  BY <1>4, <1>5, <1>7, <1>8, <1>9, <1>10, <1>11, PartsKept

(* The plugin a thread has loaded comes into the table, which may be       *)
(* compacted or lose the entry of the same name.                           *)
LEMMA EnterParts ==
  ASSUME PluginsInvariant, NEW t \in Managers, Busy(t, Rest), managing[t].pc = "loaded",
         NEW i, i = managing[t].who,
         UNCHANGED <<plugin, made, kernels, aborted, callVars>>,
         plugins' \in Seq({Gap} \cup 1 .. made), TableOnce',
         i \in Table', Table' \subseteq Table \cup {i}, Table \ Table' \subseteq replaced',
         replaced \subseteq replaced', late \subseteq late',
         (\E u \in Managers : ShuttingDown(u)) =>
           /\ i \in late'
           /\ \A e \in DOMAIN plugins' :
                \/ plugins'[e] \in {Gap} \cup late'
                \/ e \in DOMAIN plugins /\ plugins'[e] = plugins[e]
  PROVE  PluginsInvariant'
<1>1. /\ managing' = [u \in Managers |-> managing'[u]] /\ managing'[t] = Rest
      /\ \A u \in Managers : u # t => managing'[u] = managing[u]
  BY BusyMeans DEF PluginsInvariant
<1>2. /\ InHand(t) /\ ~InHand(t)' /\ ~ShuttingDown(t)
      /\ \A u \in Managers : u # t => InHand(u)' = InHand(u) /\ ShuttingDown(u)' = ShuttingDown(u)
  BY <1>1 DEF InHand, ShuttingDown, Rest
<1>3. i \in 1 .. made /\ i \notin Table /\ plugin[i].life = "live"
  BY <1>2 DEF PluginsInvariant, ManagerSound
<1>4. GpuTyped'
  BY <1>1 DEF PluginsInvariant, GpuTyped, callVars
<1>5. HandsApart'
  BY <1>1, <1>2 DEF PluginsInvariant, HandsApart
<1>6. ASSUME NEW u \in Managers
      PROVE  ManagerSound(u)'
  <2>1. CASE u = t
    BY <1>1, <2>1 DEF ManagerSound, ManagerForm, InHand, Rest
  <2>2. CASE u # t
    <3>1. ManagerSound(u) /\ managing'[u] = managing[u]
      BY <1>1, <2>2 DEF PluginsInvariant
    <3>2. InHand(u) => managing[u].who # i
      BY <1>2, <2>2 DEF PluginsInvariant, HandsApart
    <3>3. InHand(u) => managing[u].who \in (1 .. made') \ Table'
      BY <3>1, <3>2 DEF ManagerSound
    <3>4. managing[u].pc = "loaded" => plugin'[managing[u].who].life = "live"
      BY <3>1 DEF ManagerSound
    <3>5. ASSUME managing[u].pc = "iterating", NEW e \in DOMAIN plugins',
                 e <= managing[u].place, plugins'[e] # Gap
          PROVE  \E j : j = plugins'[e] /\ (plugin'[j].life # "live" \/ j \in late')
      <4>1. ShuttingDown(u)
        BY <3>5 DEF ShuttingDown
      <4>2. CASE plugins'[e] \in late'
        BY <4>2
      <4>3. CASE e \in DOMAIN plugins /\ plugins'[e] = plugins[e]
        BY <3>1, <3>5, <4>3 DEF ManagerSound, Past
      <4> QED
        BY <3>5, <4>1, <4>2, <4>3
    <3>6. ASSUME managing[u].pc = "clearing", NEW j \in Table'
          PROVE  plugin'[j].life # "live" \/ j \in late'
      <4>1. ShuttingDown(u)
        BY <3>6 DEF ShuttingDown
      <4>2. j = i \/ j \in Table
        OBVIOUS
      <4> QED
        BY <3>1, <3>6, <4>1, <4>2 DEF ManagerSound, Past
    <3> QED
      BY <3>1, <3>3, <3>4, <3>5, <3>6, OtherManager
  <2> QED
    BY <2>1, <2>2
<1>7. NoneLost'
  <2>1. ASSUME NEW j \in 1 .. made, plugin[j].life = "live"
        PROVE  \/ j \in Table' \cup replaced' \cup late'
               \/ \E u \in Managers : InHand(u)' /\ managing'[u].who = j
    <3>1. CASE j \in Table \cup replaced \cup late
      BY <3>1
    <3>2. CASE \E u \in Managers : InHand(u) /\ managing[u].who = j
      <4>1. PICK u \in Managers : InHand(u) /\ managing[u].who = j
        BY <3>2
      <4> QED
        BY <1>1, <1>2, <4>1
    <3> QED
      BY <2>1, <3>1, <3>2, PartsNow DEF NoneLost
  <2> QED
    BY <2>1 DEF NoneLost
<1>8. NoneStale'
  <2>1. CASE aborted \/ \E u \in Managers : ShuttingDown(u)
    BY <1>2, <2>1 DEF NoneStale
  <2>2. CASE ~(aborted \/ \E u \in Managers : ShuttingDown(u))
    BY <1>3, <2>2, PartsNow DEF NoneStale
  <2> QED
    BY <2>1, <2>2
<1>9. Equipped'
  BY PartsNow DEF Equipped
<1> QED
  BY <1>4, <1>5, <1>6, <1>7, <1>8, <1>9, PartsKept

(* The table with its gaps closed has the same plugins, each once.         *)
LEMMA CompactMeans ==
  ASSUME PluginsInvariant, NEW table \in {plugins} \cup Compact
  PROVE  /\ table \in Seq({Gap} \cup 1 .. made) /\ ToSet(table) \ {Gap} = Table
         /\ \A d, e \in DOMAIN table : table[d] # Gap /\ table[d] = table[e] => d = e
<1>1. /\ GpuTyped /\ made \in Nat /\ Table \subseteq 1 .. made
      /\ Len(plugins) \in Nat /\ DOMAIN plugins = 1 .. Len(plugins)
  BY TableEntries DEF PluginsInvariant
<1>2. CASE table = plugins
  BY <1>1, <1>2 DEF PluginsInvariant, TableOnce, GpuTyped, Table
<1>3. CASE table \in Compact
  <2>1. /\ table \in [1 .. Cardinality(Table) -> Table] /\ ToSet(table) = Table
        /\ \A j, k \in DOMAIN table : j < k =>
             \E d, e \in DOMAIN plugins : d < e /\ plugins[d] = table[j] /\ plugins[e] = table[k]
    BY <1>3 DEF Compact
  <2>2. Cardinality(Table) \in Nat
    <3>1. IsFiniteSet(1 .. made)
      BY <1>1, FS_Interval
    <3> QED
      BY <1>1, <3>1, FS_Subset, FS_CardinalityType
  <2>3. PICK c \in Nat : c = Cardinality(Table)
    BY <2>2
  <2>4. table \in Seq({Gap} \cup 1 .. made)
    <3>1. table \in [1 .. c -> {Gap} \cup 1 .. made]
      BY <1>1, <2>1, <2>3
    <3> QED
      BY <3>1
  <2>5. Gap \notin Table
    BY DEF Table
  <2>6. ASSUME NEW j \in DOMAIN table, NEW k \in DOMAIN table, j < k
        PROVE  table[j] # table[k]
    <3>1. PICK d \in DOMAIN plugins, e \in DOMAIN plugins :
            d < e /\ plugins[d] = table[j] /\ plugins[e] = table[k]
      BY <2>1, <2>6
    <3>2. table[j] \in Table
      BY <2>1
    <3>3. d # e
      BY <1>1, <3>1
    <3> QED
      BY <2>5, <3>1, <3>2, <3>3 DEF PluginsInvariant, TableOnce
  <2>7. \A j, k \in DOMAIN table : j # k => j < k \/ k < j
    BY <2>1, <2>3
  <2>8. \A d, e \in DOMAIN table : table[d] = table[e] => d = e
    BY <2>6, <2>7
  <2> QED
    BY <2>1, <2>4, <2>5, <2>8
<1> QED
  BY <1>2, <1>3

(* The assignment after load_plugin.                                       *)
LEMMA EnterKeeps ==
  ASSUME PluginsInvariant, NEW t \in Managers, Enter(t)
  PROVE  PluginsInvariant'
<1> DEFINE meets == \E u \in Managers : ShuttingDown(u)
<1>1. /\ managing[t].pc = "loaded" /\ Busy(t, Rest)
      /\ UNCHANGED <<plugin, made, kernels, aborted, callVars>>
  BY DEF Enter
<1>2. PICK i : i = managing[t].who
  OBVIOUS
<1>3. /\ made \in Nat /\ Len(plugins) \in Nat /\ DOMAIN plugins = 1 .. Len(plugins)
      /\ \A j : j \in Table <=> j # Gap /\ \E e \in DOMAIN plugins : plugins[e] = j
      /\ Table \subseteq 1 .. made /\ plugins \in Seq({Gap} \cup 1 .. made)
  BY TableEntries DEF PluginsInvariant, GpuTyped
<1>4. i \in 1 .. made /\ i \notin Table /\ i # Gap
  <2>1. InHand(t)
    BY <1>1 DEF InHand
  <2>2. i \in 1 .. made /\ i \notin Table
    BY <1>2, <2>1 DEF PluginsInvariant, ManagerSound
  <2> QED
    BY <1>3, <2>2 DEF Gap
<1>5. ASSUME NEW table \in {plugins} \cup Compact, plugins' = Append(table, i),
             late' = IF meets THEN late \cup (IF table = plugins THEN {i} ELSE {i} \cup Table)
                     ELSE late,
             replaced' = replaced
      PROVE  PluginsInvariant'
  <2>1. /\ table \in Seq({Gap} \cup 1 .. made) /\ ToSet(table) \ {Gap} = Table
        /\ \A d, e \in DOMAIN table : table[d] # Gap /\ table[d] = table[e] => d = e
    BY CompactMeans
  <2>2. PICK n \in Nat : n = Len(table) /\ DOMAIN table = 1 .. n
    BY <2>1
  <2>3. /\ plugins' \in Seq({Gap} \cup 1 .. made) /\ DOMAIN plugins' = 1 .. n + 1
        /\ plugins'[n + 1] = i /\ \A d \in 1 .. n : plugins'[d] = table[d]
    BY <1>4, <1>5, <2>1, <2>2
  <2>4. \A d \in 1 .. n + 1 : d \in 1 .. n \/ d = n + 1
    BY <2>2
  <2>5. \A d \in 1 .. n : table[d] \in {Gap} \cup Table
    BY <2>1, <2>2 DEF ToSet
  <2>6. TableOnce'
    <3>1. \A d, e \in 1 .. n + 1 : plugins'[d] # Gap /\ plugins'[d] = plugins'[e] => d = e
      BY <1>4, <2>1, <2>2, <2>3, <2>4, <2>5
    <3> QED
      BY <2>3, <3>1 DEF TableOnce
  <2>7. \A j : j \in Table' <=> j # Gap /\ \E d \in 1 .. n + 1 : plugins'[d] = j
    BY <2>3 DEF Table, ToSet
  <2>8. i \in Table' /\ Table' \subseteq Table \cup {i} /\ Table \subseteq Table'
    <3>1. i \in Table'
      BY <1>4, <2>2, <2>3, <2>7
    <3>2. Table' \subseteq Table \cup {i}
      BY <2>3, <2>4, <2>5, <2>7
    <3>3. \A j \in Table : \E d \in 1 .. n : table[d] = j
      BY <2>1, <2>2 DEF ToSet
    <3>4. 1 .. n \subseteq 1 .. n + 1
      BY <2>2
    <3>5. Table \subseteq Table'
      BY <2>3, <2>7, <3>3, <3>4 DEF Table
    <3> QED
      BY <3>1, <3>2, <3>5
  <2>9. late \subseteq late'
    BY <1>5
  <2>10. ASSUME meets
         PROVE  /\ i \in late'
                /\ \A e \in DOMAIN plugins' :
                     \/ plugins'[e] \in {Gap} \cup late'
                     \/ e \in DOMAIN plugins /\ plugins'[e] = plugins[e]
    <3>1. i \in late'
      BY <1>5, <2>10
    <3>2. CASE table = plugins
      BY <2>2, <2>3, <2>4, <3>1, <3>2
    <3>3. CASE table # plugins
      <4>1. Table \subseteq late'
        BY <1>5, <2>10, <3>3
      <4> QED
        BY <2>3, <2>4, <2>5, <3>1, <4>1
    <3> QED
      BY <3>2, <3>3
  <2> HIDE DEF meets
  <2>11. meets <=> \E u \in Managers : ShuttingDown(u)
    BY DEF meets
  <2> QED
    BY <1>1, <1>2, <1>5, <2>3, <2>6, <2>8, <2>9, <2>10, <2>11, EnterParts
<1>6. ASSUME NEW e \in EntryOf(plugin[i].name), plugins' = [plugins EXCEPT ![e] = i],
             late' = IF meets THEN late \cup {i} ELSE late,
             replaced' = replaced \cup {plugins[e]}
      PROVE  PluginsInvariant'
  <2>1. e \in DOMAIN plugins
    BY DEF EntryOf
  <2>2. /\ plugins' \in Seq({Gap} \cup 1 .. made) /\ DOMAIN plugins' = DOMAIN plugins
        /\ plugins'[e] = i /\ \A d \in DOMAIN plugins : d # e => plugins'[d] = plugins[d]
    BY <1>3, <1>4, <1>6, <2>1
  <2>3. \A j : j \in Table' <=> j # Gap /\ \E d \in DOMAIN plugins' : plugins'[d] = j
    BY DEF Table, ToSet
  <2>4. \A d \in DOMAIN plugins : plugins[d] # i
    BY <1>3, <1>4
  <2>5. TableOnce'
    BY <2>2, <2>4 DEF PluginsInvariant, TableOnce
  <2>6. i \in Table' /\ Table' \subseteq Table \cup {i}
    BY <1>3, <1>4, <2>1, <2>2, <2>3
  <2>7. Table \ Table' \subseteq replaced'
    <3>1. ASSUME NEW j \in Table, j \notin Table'
          PROVE  j = plugins[e]
      <4>1. PICK d \in DOMAIN plugins : plugins[d] = j /\ j # Gap
        BY <1>3
      <4> QED
        BY <2>2, <2>3, <3>1, <4>1
    <3> QED
      BY <1>6, <3>1
  <2>8. late \subseteq late' /\ replaced \subseteq replaced'
    BY <1>6
  <2>9. ASSUME meets
        PROVE  /\ i \in late'
               /\ \A d \in DOMAIN plugins' :
                    \/ plugins'[d] \in {Gap} \cup late'
                    \/ d \in DOMAIN plugins /\ plugins'[d] = plugins[d]
    <3>1. i \in late'
      BY <1>6, <2>9
    <3> QED
      BY <2>2, <3>1
  <2> HIDE DEF meets
  <2>10. meets <=> \E u \in Managers : ShuttingDown(u)
    BY DEF meets
  <2> QED
    BY <1>1, <1>2, <2>2, <2>5, <2>6, <2>7, <2>8, <2>9, <2>10, EnterParts
<1> QED
  BY <1>2, <1>5, <1>6 DEF Enter

(* What initialize leaves a plugin with: the flag only with all the rest.  *)
LEMMA AvailableEquipped ==
  ASSUME NEW name \in Names, NEW s \in 0 .. 5, "available" \in Has(name, s),
         s = 0 => CanSucceed(name)
  PROVE  {"context", "kernels"} \subseteq Has(name, s) /\ name # "intel"
<1>1. s = 0 /\ "available" \in ToSet(SetUp(name)) /\ name # "intel"
  BY DEF Has, FlagReset, CanSucceed
<1>2. name \in {"nvidia", "amd", "other"}
  BY <1>1, GpuAssumption
<1>3. CASE name = "nvidia"
  <2>1. SetUp(name) = NvidiaSetUp
    BY <1>3 DEF SetUp
  <2>2. /\ NvidiaSetUp[2] = "context" /\ NvidiaSetUp[4] = "kernels"
        /\ {2, 4} \subseteq DOMAIN NvidiaSetUp
    BY DEF NvidiaSetUp
  <2> QED
    BY <1>1, <2>1, <2>2 DEF Has, ToSet
<1>4. CASE name = "amd"
  <2>1. SetUp(name) = AmdSetUp
    BY <1>4 DEF SetUp
  <2>2. AmdSetUp[2] = "context" /\ AmdSetUp[3] = "kernels" /\ {2, 3} \subseteq DOMAIN AmdSetUp
    BY DEF AmdSetUp
  <2> QED
    BY <1>1, <2>1, <2>2 DEF Has, ToSet
<1>5. CASE name = "other"
  <2>1. SetUp(name) = <<"registered">>
    BY <1>5 DEF SetUp
  <2>2. \A e \in DOMAIN SetUp(name) : SetUp(name)[e] # "available"
    BY <2>1
  <2> QED
    BY <1>1, <2>2 DEF ToSet
<1> QED
  BY <1>2, <1>3, <1>4, <1>5

(* load_plugin: the new plugin is in the hands of the thread, unless its
   initialize raised. *)
LEMMA LoadKeeps ==
  ASSUME PluginsInvariant, NEW t \in Managers, NEW name \in Names, NEW s \in 0 .. 5,
         LoadPlugin(t, name, s)
  PROVE  PluginsInvariant' /\ \A i \in Backend .. made : plugin'[i].name = plugin[i].name
<1> DEFINE raises == name = "other" /\ s # 0
           new == [name |-> name, has |-> Has(name, s),
                   life |-> IF raises THEN "failed" ELSE "live"]
           m == IF raises THEN Rest ELSE [pc |-> "loaded", who |-> made']
<1>1. /\ managing[t] = Rest /\ made < MaxMade /\ made' = made + 1
      /\ plugin' = [plugin EXCEPT ![made'] = new] /\ Busy(t, m)
      /\ kernels' = IF "registered" \in Has(name, s) THEN [kernels EXCEPT ![name] = made']
                    ELSE kernels
      /\ UNCHANGED <<plugins, historyVars, callVars>>
      /\ s = 0 => CanSucceed(name)
  BY DEF LoadPlugin
<1>2. /\ made \in Nat /\ MaxMade \in Nat /\ 1 .. made \subseteq Backend .. MaxMade
      /\ Table \subseteq 1 .. made
      /\ \A j : j \in Table <=> j # Gap /\ \E e \in DOMAIN plugins : plugins[e] = j
  BY TableEntries DEF PluginsInvariant
<1>3. /\ plugin' = [i \in Backend .. MaxMade |-> plugin'[i]] /\ plugin'[made'] = new
      /\ \A i \in Backend .. MaxMade : i # made' => plugin'[i] = plugin[i]
  <2>1. plugin = [i \in Backend .. MaxMade |-> plugin[i]] /\ made' \in Backend .. MaxMade
    BY <1>1, <1>2 DEF PluginsInvariant, GpuTyped, Backend
  <2> HIDE DEF new
  <2> QED
    BY <1>1, <2>1
<1>4. kernels' \in [Names -> 0 .. made']
  <2>1. kernels \in [Names -> 0 .. made'] /\ made' \in 0 .. made'
    <3>1. kernels \in [Names -> 0 .. made]
      BY DEF PluginsInvariant, GpuTyped
    <3>2. 0 .. made \subseteq 0 .. made' /\ made' \in 0 .. made'
      BY <1>1, <1>2
    <3> QED
      BY <3>1, <3>2
  <2>2. [kernels EXCEPT ![name] = made'] \in [Names -> 0 .. made']
    BY <2>1
  <2> QED
    BY <1>1, <2>1, <2>2
<1>5. /\ managing' = [u \in Managers |-> managing'[u]] /\ managing'[t] = m
      /\ \A u \in Managers : u # t => managing'[u] = managing[u]
  BY <1>1, BusyMeans DEF PluginsInvariant
<1>6. /\ new.name = name /\ new.has = Has(name, s) /\ (new.life = "live" <=> ~raises)
      /\ new = [name |-> new.name, has |-> new.has, life |-> new.life]
  OBVIOUS
<1> HIDE DEF new
<1>7. GpuTyped'
  <2>1. \A i \in Backend .. MaxMade :
          plugin'[i] = [name |-> plugin'[i].name, has |-> plugin'[i].has, life |-> plugin'[i].life]
    BY <1>3, <1>6 DEF PluginsInvariant, GpuTyped
  <2>2. \A i \in Backend .. MaxMade :
          i > made' => plugin'[i].name = "none" /\ plugin'[i].life = "none"
    <3>1. \A i \in Backend .. MaxMade : i > made' => i > made /\ i # made'
      BY <1>1, <1>2 DEF Backend
    <3> QED
      BY <1>3, <3>1 DEF PluginsInvariant, GpuTyped
  <2>3. \A i \in Backend .. MaxMade : plugin'[i].name = "intel" => "available" \notin plugin'[i].has
    BY <1>1, <1>3, <1>6, AvailableEquipped DEF PluginsInvariant, GpuTyped
  <2>4. made' \in 0 .. MaxMade
    BY <1>1, <1>2
  <2>5. plugins' \in Seq({Gap} \cup 1 .. made')
    <3>1. plugins \in Seq({Gap} \cup 1 .. made)
      BY DEF PluginsInvariant, GpuTyped
    <3>2. {Gap} \cup 1 .. made \subseteq {Gap} \cup 1 .. made'
      BY <1>1, <1>2
    <3> QED
      BY <1>1, <3>1, <3>2, SeqMonotonic
  <2> QED
    BY <1>1, <1>3, <1>4, <1>5, <2>1, <2>2, <2>3, <2>4, <2>5
       DEF PluginsInvariant, GpuTyped, callVars
<1>8. TableOnce' /\ Table' = Table
  BY <1>1 DEF PluginsInvariant, TableOnce, Table
<1>9. /\ ~InHand(t) /\ ~ShuttingDown(t)
      /\ InHand(t)' => managing'[t].who = made' /\ managing'[t] = m /\ ~raises
      /\ ~raises => InHand(t)' /\ managing'[t].who = made'
      /\ \A u \in Managers : u # t => InHand(u)' = InHand(u) /\ ShuttingDown(u)' = ShuttingDown(u)
  <2>1. CASE raises
    BY <1>1, <1>5, <2>1 DEF InHand, ShuttingDown, Rest
  <2>2. CASE ~raises
    BY <1>1, <1>5, <2>2 DEF InHand, ShuttingDown, Rest
  <2> QED
    BY <2>1, <2>2
<1>10. /\ made' \notin 1 .. made /\ 1 .. made \subseteq 1 .. made' /\ made' \in 1 .. made'
       /\ \A i \in 1 .. made' : i \in 1 .. made \/ i = made'
       /\ \A i \in 1 .. made : plugin'[i] = plugin[i]
  <2>1. made' \notin 1 .. made /\ 1 .. made \subseteq 1 .. made' /\ made' \in 1 .. made'
    BY <1>1, <1>2
  <2>2. \A i \in 1 .. made' : i \in 1 .. made \/ i = made'
    BY <1>1, <1>2
  <2> QED
    BY <1>2, <1>3, <2>1, <2>2
<1>11. \A u \in Managers : InHand(u) => managing[u].who \in 1 .. made
  BY DEF PluginsInvariant, ManagerSound
<1>12. HandsApart'
  <2> HIDE DEF raises, m
  <2>1. ASSUME NEW u \in Managers, NEW v \in Managers, u # v, InHand(u)', InHand(v)'
        PROVE  managing'[u].who # managing'[v].who
    <3>1. CASE u # t /\ v # t
      BY <1>5, <1>9, <2>1, <3>1 DEF PluginsInvariant, HandsApart
    <3>2. CASE u = t
      BY <1>5, <1>9, <1>10, <1>11, <2>1, <3>2
    <3>3. CASE v = t
      BY <1>5, <1>9, <1>10, <1>11, <2>1, <3>3
    <3> QED
      BY <3>1, <3>2, <3>3
  <2> QED
    BY <2>1 DEF HandsApart
<1>13. ASSUME NEW u \in Managers
       PROVE  ManagerSound(u)'
  <2>1. CASE u = t
    <3>1. CASE raises
      BY <1>5, <2>1, <3>1 DEF ManagerSound, ManagerForm, InHand, Rest
    <3>2. CASE ~raises
      <4>1. managing'[t] = [pc |-> "loaded", who |-> made']
        BY <1>5, <3>2
      <4>2. PICK i : i = made'
        OBVIOUS
      <4>3. managing'[t] \in {[pc |-> "loaded", who |-> i], [pc |-> "closing", who |-> i]}
        BY <4>1, <4>2
      <4>4. ManagerForm(t)'
        BY <4>3, Zenon DEF ManagerForm
      <4>5. managing'[t].pc = "loaded" /\ managing'[t].who = made'
        BY <4>1
      <4>6. plugin'[made'].life = "live" /\ made' \in (1 .. made') \ Table'
        BY <1>2, <1>3, <1>6, <1>8, <1>10, <3>2
      <4> QED
        BY <2>1, <4>4, <4>5, <4>6 DEF ManagerSound
    <3> QED
      BY <3>1, <3>2
  <2>2. CASE u # t
    <3>1. ManagerSound(u) /\ managing'[u] = managing[u]
      BY <1>5, <2>2 DEF PluginsInvariant
    <3>2. late' = late /\ plugins' = plugins
      BY <1>1 DEF historyVars
    <3>3. InHand(u) => managing[u].who \in (1 .. made') \ Table'
      BY <1>8, <1>10, <3>1 DEF ManagerSound
    <3>4. managing[u].pc = "loaded" => plugin'[managing[u].who].life = "live"
      <4>1. managing[u].pc = "loaded" => InHand(u)
        BY DEF InHand
      <4> QED
        BY <1>10, <1>11, <3>1, <4>1 DEF ManagerSound
    <3>5. \A j \in Table : Past(j) => plugin'[j].life # "live" \/ j \in late'
      BY <1>2, <1>10, <3>2 DEF Past
    <3>6. managing[u].pc = "iterating" =>
            \A e \in DOMAIN plugins' : e <= managing[u].place /\ plugins'[e] # Gap =>
              \E j : j = plugins'[e] /\ (plugin'[j].life # "live" \/ j \in late')
      <4>1. \A e \in DOMAIN plugins : plugins[e] # Gap => plugins[e] \in Table
        BY <1>2
      <4> QED
        BY <3>1, <3>2, <3>5, <4>1 DEF ManagerSound
    <3>7. managing[u].pc = "clearing" => \A j \in Table' : plugin'[j].life # "live" \/ j \in late'
      BY <1>8, <3>1, <3>5 DEF ManagerSound
    <3> QED
      BY <3>1, <3>3, <3>4, <3>6, <3>7, OtherManager
  <2> QED
    BY <2>1, <2>2
<1>14. NoneLost'
  <2>1. late' = late /\ replaced' = replaced
    BY <1>1 DEF historyVars
  <2>2. ASSUME NEW j \in 1 .. made', plugin'[j].life = "live"
        PROVE  \/ j \in Table' \cup replaced' \cup late'
               \/ \E u \in Managers : InHand(u)' /\ managing'[u].who = j
    <3>1. CASE j = made'
      <4>1. ~raises
        BY <1>3, <1>6, <2>2, <3>1
      <4> QED
        BY <1>9, <3>1, <4>1
    <3>2. CASE j \in 1 .. made
      <4>1. plugin[j].life = "live"
        BY <1>10, <2>2, <3>2
      <4>2. CASE j \in Table \cup replaced \cup late
        BY <1>8, <2>1, <4>2
      <4>3. CASE \E u \in Managers : InHand(u) /\ managing[u].who = j
        <5>1. PICK u \in Managers : InHand(u) /\ managing[u].who = j
          BY <4>3
        <5>2. u # t
          BY <1>9, <5>1
        <5> QED
          BY <1>5, <1>9, <5>1, <5>2
      <4> QED
        BY <3>2, <4>1, <4>2, <4>3, PartsNow DEF NoneLost
    <3> QED
      BY <1>10, <2>2, <3>1, <3>2
  <2> QED
    BY <2>2 DEF NoneLost
<1>15. NoneStale'
  <2>1. aborted' = aborted
    BY <1>1 DEF historyVars
  <2>2. CASE aborted \/ \E u \in Managers : ShuttingDown(u)
    BY <1>9, <2>1, <2>2 DEF NoneStale
  <2>3. CASE ~(aborted \/ \E u \in Managers : ShuttingDown(u))
    BY <1>8, <1>10, <2>3, PartsNow DEF NoneStale
  <2> QED
    BY <2>2, <2>3
<1>16. Equipped'
  <2>1. "available" \in plugin'[made'].has => {"context", "kernels"} \subseteq plugin'[made'].has
    BY <1>1, <1>3, <1>6, AvailableEquipped
  <2> QED
    BY <1>10, <2>1, PartsNow DEF Equipped
<1>17. \A i \in Backend .. made : plugin'[i].name = plugin[i].name
  <2>1. \A i \in Backend .. made : i \in Backend .. MaxMade /\ i # made'
    BY <1>1, <1>2 DEF Backend
  <2> QED
    BY <1>3, <2>1
<1> QED
  BY <1>7, <1>8, <1>12, <1>13, <1>14, <1>15, <1>16, <1>17, PartsKept

(* What calls do leaves the plugins alone. *)
LEMMA OtherStepsKeepPlugins ==
  ASSUME PluginsInvariant, UNCHANGED managerVars, calls' \in 0 .. MaxCalls,
         memory' = [h \in Handles |-> memory'[h]], gpuCall' = [t \in Callers |-> gpuCall'[t]]
  PROVE  PluginsInvariant'
<1>1. GpuTyped'
  BY DEF PluginsInvariant, GpuTyped, managerVars
<1>2. TableOnce' /\ HandsApart'
  BY DEF PluginsInvariant, TableOnce, HandsApart, InHand, managerVars
<1>3. ASSUME NEW t \in Managers
      PROVE  ManagerSound(t)'
  <2>1. /\ plugins' = plugins /\ plugin' = plugin /\ made' = made /\ managing' = managing
        /\ late' = late
    BY DEF managerVars, historyVars
  <2>2. ManagerSound(t) /\ Table' = Table /\ managing'[t] = managing[t]
    BY <2>1 DEF PluginsInvariant, Table
  <2> QED
    BY <2>1, <2>2, OtherManager DEF ManagerSound, Past
<1>4. PluginsSound'
  BY DEF PluginsInvariant, PluginsSound, ShuttingDown, Table, managerVars, historyVars
<1> QED
  BY <1>1, <1>2, <1>3, <1>4 DEF PluginsInvariant

GpuInvariant == MemoryInvariant /\ PluginsInvariant

(* No plugin is made in the beginning, and no thread is in the manager.    *)
LEMMA GpuInitially == GpuInit => GpuInvariant
<1> SUFFICES ASSUME GpuInit
             PROVE  GpuInvariant
  OBVIOUS
<1>1. MemoryInvariant /\ GpuTyped
  BY MemoryInit DEF MemoryInvariant
<1>2. plugins = <<>> /\ made = 0 /\ DOMAIN plugins = {} /\ \A t \in Managers : managing[t] = Rest
  BY DEF GpuInit
<1>3. TableOnce /\ Table = {} /\ 1 .. made = {}
  BY <1>2 DEF TableOnce, Table, ToSet
<1>4. HandsApart /\ \A t \in Managers : ManagerSound(t)
  BY <1>2 DEF HandsApart, ManagerSound, ManagerForm, InHand, Rest
<1>5. NoneLost /\ NoneStale /\ Equipped
  BY <1>3 DEF NoneLost, NoneStale, Equipped
<1> QED
  BY <1>1, <1>3, <1>4, <1>5, SoundParts DEF GpuInvariant, PluginsInvariant

(* The operations of the manager keep the invariant of memory too, and the *)
(* names of plugins.                                                       *)
LEMMA ManagerKeeps ==
  ASSUME GpuInvariant, NEW t \in Managers,
         \/ \E name \in Names, s \in 0 .. 5 : LoadPlugin(t, name, s)
         \/ \E name \in Names : TakeOut(t, name)
         \/ Enter(t) \/ Close(t)
         \/ BeginShutdown(t) \/ ShutdownNext(t) \/ IterationFails(t) \/ EndIteration(t)
         \/ ClearTable(t)
  PROVE  /\ GpuInvariant' /\ made <= made'
         /\ \A i \in Backend .. made : plugin'[i].name = plugin[i].name
         /\ UNCHANGED callVars
<1>1. made \in Nat
  BY TableEntries DEF GpuInvariant, PluginsInvariant
<1>2. UNCHANGED callVars
  BY DEF LoadPlugin, TakeOut, Enter, Close, BeginShutdown, ShutdownNext, IterationFails,
         EndIteration, ClearTable
<1>3. made <= made'
  <2>1. made' = made + 1 \/ made' = made
    BY Zenon DEF LoadPlugin, TakeOut, Enter, Close, BeginShutdown, ShutdownNext, IterationFails,
         EndIteration, ClearTable
  <2> QED
    BY <1>1, <2>1
<1>4. PluginsInvariant' /\ \A i \in Backend .. made : plugin'[i].name = plugin[i].name
  <2>1. CASE \E name \in Names, s \in 0 .. 5 : LoadPlugin(t, name, s)
    BY <2>1, LoadKeeps DEF GpuInvariant
  <2>2. CASE \E name \in Names : TakeOut(t, name)
    BY <2>2, TakeOutKeeps DEF GpuInvariant, TakeOut
  <2>3. CASE Enter(t)
    BY <2>3, EnterKeeps DEF GpuInvariant, Enter
  <2>4. CASE Close(t) \/ ShutdownNext(t)
    BY <2>4, CloseKeeps, ShutdownNextKeeps DEF GpuInvariant
  <2>5. CASE BeginShutdown(t) \/ IterationFails(t) \/ EndIteration(t)
    BY <2>5, IterationKeeps DEF GpuInvariant, BeginShutdown, IterationFails, EndIteration
  <2>6. CASE ClearTable(t)
    BY <2>6, ClearKeeps DEF GpuInvariant, ClearTable
  <2> QED
    BY <2>1, <2>2, <2>3, <2>4, <2>5, <2>6
<1>5. MemoryInvariant'
  BY <1>2, <1>3, <1>4, ManagerStep DEF GpuInvariant, PluginsInvariant, callVars
<1> QED
  BY <1>2, <1>3, <1>4, <1>5 DEF GpuInvariant

(* The steps of calls keep both invariants. *)
LEMMA CallKeeps ==
  ASSUME GpuInvariant, NEW t \in Callers,
         \/ \E i \in Backend .. MaxMade, r \in Requests : Begin(t, i, r)
         \/ FallBack(t) \/ Refuse(t) \/ Accept(t)
         \/ DriverFails(t) \/ Allocate(t) \/ Copy(t)
         \/ LaunchRaises(t) \/ LaunchCuda(t)
         \/ Download(t) \/ FreeBuffer(t)
  PROVE  GpuInvariant'
<1>1. MemoryInvariant'
  BY BeginStep, LeaveKeeps, AcceptStep, DriverFailsKeeps, FillKeeps, LaunchKeeps,
     DownloadKeeps, FreeKeeps DEF GpuInvariant
<1>2. UNCHANGED managerVars
  BY DEF Begin, FallBack, Refuse, Accept, DriverFails, Allocate, Copy, LaunchRaises, LaunchCuda,
         Download, FreeBuffer
<1>3. PluginsInvariant'
  BY <1>1, <1>2, OtherStepsKeepPlugins DEF GpuInvariant, MemoryInvariant, GpuTyped
<1> QED
  BY <1>1, <1>3 DEF GpuInvariant

(* Every step keeps the invariant. *)
LEMMA GpuStep == GpuInvariant /\ [GpuNext]_gpuVars => GpuInvariant'
<1> SUFFICES ASSUME GpuInvariant, [GpuNext]_gpuVars
             PROVE  GpuInvariant'
  OBVIOUS
<1>1. CASE GpuNext
  BY <1>1, ManagerKeeps, CallKeeps, Zenon DEF GpuNext
<1>2. CASE UNCHANGED gpuVars
  <2>1. UNCHANGED managerVars /\ UNCHANGED callVars
    BY <1>2 DEF gpuVars
  <2>2. PluginsInvariant'
    BY <2>1, OtherStepsKeepPlugins DEF GpuInvariant, PluginsInvariant, GpuTyped, callVars
  <2>3. MemoryInvariant'
    <3>1. made' = made /\ made \in Nat /\ plugin' = plugin
      BY <2>1, TableEntries DEF GpuInvariant, PluginsInvariant, managerVars
    <3> QED
      BY <2>1, <2>2, <3>1, ManagerStep DEF GpuInvariant, PluginsInvariant, callVars
  <2> QED
    BY <2>2, <2>3 DEF GpuInvariant
<1> QED
  BY <1>1, <1>2

(* Device memory is lost by calls that raise and by nothing else: every    *)
(* buffer that is allocated belongs to a call under way or to one that     *)
(* raised, for any number of threads, plugins and calls, whatever driver   *)
(* call fails (the plugins' vec_add to matmul and the CUDA backend's       *)
(* runner).                                                                *)
THEOREM DeviceMemoryAlwaysAccounted == GpuSpec => []DeviceMemoryAccounted
<1>1. GpuInvariant => DeviceMemoryAccounted
  BY DEF GpuInvariant, MemoryInvariant
<1> QED
  BY <1>1, GpuInitially, GpuStep, PTL DEF GpuSpec

(* A plugin that was initialized and not shut down is in the table, in the *)
(* hands of a thread that loads or unloads it, lost its entry to another   *)
(* load or came in during a shutdown_all; none can be looked up after its  *)
(* shutdown but during a shutdown_all or after one that raised; and one    *)
(* that says it is available has its context and its kernels (load_plugin, *)
(* load_single, unload and shutdown_all of plugins/base.py, by any number  *)
(* of threads, and initialize).                                            *)
THEOREM PluginsAlwaysSound == GpuSpec => []PluginsSound
<1>1. GpuInvariant => PluginsSound
  BY DEF GpuInvariant, PluginsInvariant
<1> QED
  BY <1>1, GpuInitially, GpuStep, PTL DEF GpuSpec

-----------------------------------------------------------------------------
(* ANSWERS *)

(* What callers may ask for: vectors of n elements, or an m by k and a k by *)
(* n matrix.                                                               *)
RequestsFit == \A r \in Requests :
  /\ r.m \in Nat /\ r.n \in Nat /\ r.k \in Nat
  /\ r.op \in {"vec_add", "vec_mul"} => Len(r.a) = r.n /\ Len(r.b) = r.n
  /\ r.op = "matmul" => Len(r.a) = r.m * r.k /\ Len(r.b) = r.k * r.n

(* The grid covers all elements.                                           *)
LEMMA GridCovers ==
  ASSUME NEW n \in Nat
  PROVE  0 .. n - 1 = {i \in Threads(n) : i < n}
<1>1. Block \in Nat \ {0}
  BY KernelAssumption
<1>2. PICK x \in Int : x = n + Block - 1
  BY <1>1
<1>3. PICK q \in Int, r \in 0 .. Block - 1 : q = x \div Block /\ x = Block * q + r
  BY <1>1, <1>2, DivMod
<1>4. PICK z \in Int : z = Block * q /\ z = q * Block
  BY <1>1
<1>5. n - 1 <= z - 1
  BY <1>1, <1>2, <1>3, <1>4
<1>6. Threads(n) = 0 .. z - 1
  BY <1>2, <1>3, <1>4 DEF Threads, Blocks
<1> QED
  BY <1>5, <1>6

(* What a combination of vectors is meant to be.                           *)
Elements(op, a, b, n) == [i \in 1 .. n |-> Combined(op, a[i], b[i])]

(* The kernel of one element a thread computes what it is meant to.        *)
LEMMA ElementsRight ==
  ASSUME NEW op, NEW n \in Nat, NEW a, NEW b, Len(a) = n, Len(b) = n,
         NEW c, DOMAIN c = 1 .. n
  PROVE  ElementKernel(op, a, b, c, n)
           = Elements(op, a, b, n)
<1> DEFINE value == [i \in Threads(n) |-> Combined(op, At(a, i), At(b, i))]
<1>1. ElementKernel(op, a, b, c, n)
        = [i \in 1 .. n |-> IF i - 1 \in 0 .. n - 1 THEN value[i - 1] ELSE c[i]]
  BY GridCovers DEF ElementKernel, Stored
<1>2. ASSUME NEW i \in 1 .. n
      PROVE  i - 1 \in 0 .. n - 1 /\ value[i - 1] = Combined(op, a[i], b[i])
  <2>1. i - 1 \in 0 .. n - 1 /\ i - 1 < n /\ (i - 1) + 1 = i
    OBVIOUS
  <2>2. i - 1 \in Threads(n)
    BY <2>1, GridCovers
  <2>3. At(a, i - 1) = a[i] /\ At(b, i - 1) = b[i]
    BY <2>1 DEF At
  <2> QED
    BY <2>1, <2>2, <2>3
<1> HIDE DEF value
<1> QED
  BY <1>1, <1>2 DEF Elements

(* Element address of an m by n matrix is in a row and in a column of it.  *)
LEMMA RowAndColumn ==
  ASSUME NEW m \in Nat, NEW n \in Nat, NEW address \in 0 .. m * n - 1
  PROVE  address \div n \in 0 .. m - 1 /\ address % n \in 0 .. n - 1
<1>1. n # 0
  <2>1. n = 0 => m * n = 0
    OBVIOUS
  <2> QED
    BY <2>1
<1>2. PICK q \in Int, r \in 0 .. n - 1 :
        q = address \div n /\ r = address % n /\ address = n * q + r
  <2>1. n \in Nat \ {0} /\ address \in Int
    BY <1>1
  <2> QED
    BY <2>1, DivMod
<1>3. q >= 0
  <2>1. q < 0 => n * q <= -n
    OBVIOUS
  <2> QED
    BY <1>2, <2>1
<1>4. q < m
  <2>1. q >= m => n * q >= m * n
    BY <1>3
  <2> QED
    BY <1>2, <2>1
<1> QED
  BY <1>2, <1>3, <1>4

(* Element j of row i of a matrix of n columns.                            *)
LEMMA ElementOfRow ==
  ASSUME NEW m \in Nat, NEW n \in Nat, NEW i \in 0 .. m - 1, NEW j \in 0 .. n - 1
  PROVE  i * n + j \in 0 .. m * n - 1
<1>1. (i + 1) * n <= m * n
  OBVIOUS
<1>2. (i + 1) * n = i * n + n /\ i * n \in Nat
  OBVIOUS
<1>3. m * n \in Nat
  OBVIOUS
<1> QED
  BY <1>1, <1>2, <1>3

(* What the product of matrices is meant to be.                            *)
Product(a, b, m, n, k) ==
  [i \in 1 .. m * n |->
     Sum([j \in 1 .. k |-> a[((i - 1) \div n) * k + j] * b[(j - 1) * n + ((i - 1) % n) + 1]])]

(* So does the kernel of the product of matrices.                          *)
LEMMA ProductRight ==
  ASSUME NEW m \in Nat, NEW n \in Nat, NEW k \in Nat, NEW a, NEW b,
         Len(a) = m * k, Len(b) = k * n, NEW c, DOMAIN c = 1 .. m * n
  PROVE  MatmulKernel(a, b, c, m, n, k)
           = Product(a, b, m, n, k)
<1> DEFINE cell(address) == Sum([j \in 1 .. k |->
             At(a, (address \div n) * k + j - 1) * At(b, (j - 1) * n + (address % n))])
           value == [address \in 0 .. m * n - 1 |-> cell(address)]
           meant(i) == Sum([j \in 1 .. k |->
             a[((i - 1) \div n) * k + j] * b[(j - 1) * n + ((i - 1) % n) + 1]])
<1>1. MatmulKernel(a, b, c, m, n, k)
        = [i \in 1 .. m * n |-> IF i - 1 \in 0 .. m * n - 1 THEN value[i - 1] ELSE c[i]]
  BY DEF MatmulKernel, Stored
<1>2. ASSUME NEW i \in 1 .. m * n
      PROVE  i - 1 \in 0 .. m * n - 1 /\ cell(i - 1) = meant(i)
  <2>1. i - 1 \in 0 .. m * n - 1
    <3>1. m * n \in Nat
      OBVIOUS
    <3> QED
      BY <3>1
  <2>2. PICK row \in 0 .. m - 1, col \in 0 .. n - 1 : row = (i - 1) \div n /\ col = (i - 1) % n
    BY <2>1, RowAndColumn
  <2>3. ASSUME NEW j \in 1 .. k
        PROVE  /\ At(a, row * k + j - 1) = a[row * k + j]
               /\ At(b, (j - 1) * n + col) = b[(j - 1) * n + col + 1]
    <3>1. j - 1 \in 0 .. k - 1
      OBVIOUS
    <3>2. row * k + (j - 1) \in 0 .. m * k - 1 /\ (j - 1) * n + col \in 0 .. k * n - 1
      BY <3>1, ElementOfRow
    <3>3. row * k \in Int /\ m * k \in Int /\ k * n \in Int
      OBVIOUS
    <3>4. row * k + j - 1 < Len(a) /\ (row * k + j - 1) + 1 = row * k + j
      BY <3>2, <3>3
    <3>5. (j - 1) * n + col < Len(b)
      BY <3>2, <3>3
    <3> QED
      BY <3>4, <3>5 DEF At
  <2>4. [j \in 1 .. k |-> At(a, row * k + j - 1) * At(b, (j - 1) * n + col)]
          = [j \in 1 .. k |-> a[row * k + j] * b[(j - 1) * n + col + 1]]
    BY <2>3
  <2> QED
    BY <2>1, <2>2, <2>4
<1> HIDE DEF cell, meant
<1>3. [i \in 1 .. m * n |-> IF i - 1 \in 0 .. m * n - 1 THEN value[i - 1] ELSE c[i]]
        = [i \in 1 .. m * n |-> meant(i)]
  BY <1>2
<1>4. Product(a, b, m, n, k) = [i \in 1 .. m * n |-> meant(i)]
  BY DEF Product, meant
<1> QED
  BY <1>1, <1>3, <1>4

(* What a device is to answer: the CUDA backend's templates know two kernels. *)
Outcome(name, r) ==
  Reference(IF name = "cuda" THEN Template(r.op) ELSE r.op, r.a, r.b, r.m, r.n, r.k)

Extent(r) ==
  CASE r.op = "matmul" -> r.m * r.n
    [] r.op = "dot" -> Blocks(r.n)
    [] OTHER -> r.n

Fresh(r) == [i \in 1 .. Extent(r) |-> Garbage]

(* The contents of a call's buffers along the CUDA backend's program.      *)
CudaFilled(t) ==
  LET r  == Request(t)
      at == gpuCall[t].at
  IN  /\ at \in 3 .. 7 => memory[Buffer(t, 1)] = r.a
      /\ at \in 5 .. 8 => memory[Buffer(t, 2)] = r.b
      /\ at = 6 => memory[Buffer(t, 3)] = Fresh(r)
      /\ at \in 7 .. 9 => memory[Buffer(t, 3)] = Outcome("cuda", r)
      /\ at = 10 => gpuCall[t].result = Outcome("cuda", r)

(* The launch of the others is as far as they get.                         *)
Filled(t) == gpuCall[t].pc = "driver" =>
  /\ Plugin(t).name = "cuda" => CudaFilled(t)
  /\ Plugin(t).name \in {"nvidia", "amd"} => gpuCall[t].at <= 6

CallFits(t) ==
  /\ Request(t) \in Requests
  /\ Offers(Plugin(t).name, Request(t).op)
  /\ gpuCall[t].pc = "driver" => Admitted(t)
  /\ Filled(t)

ContentsOK ==
  /\ plugin[Backend].name = "cuda"
  /\ \A t \in Callers : gpuCall[t] # Idle => CallFits(t)

(* An answer is right, or it is of the CUDA backend, which adds where it   *)
(* should multiply elements.                                               *)
AnswersOK == \A x \in answers :
  /\ x.request \in Requests
  /\ \/ x.result = Correct(x.request)
     \/ x.request.op = "vec_mul" /\ x.result = Outcome("cuda", x.request)

AnswersInvariant == GpuInvariant /\ ContentsOK /\ AnswersOK

(* The driver calls by their places.                                       *)
LEMMA Places ==
  /\ CudaCall[1] = <<"alloc", 1>> /\ CudaCall[2] = <<"upload", 1>>
  /\ CudaCall[3] = <<"alloc", 2>> /\ CudaCall[4] = <<"upload", 2>>
  /\ CudaCall[5] = <<"alloc", 3>> /\ CudaCall[6] = <<"launch", 3>>
  /\ CudaCall[7] = <<"free", 1>> /\ CudaCall[8] = <<"free", 2>>
  /\ CudaCall[9] = <<"download", 3>> /\ CudaCall[10] = <<"free", 3>>
  /\ \A program \in {NvidiaCall, AmdCall} :
       /\ program[1] = <<"alloc", 1>> /\ program[2] = <<"upload", 1>>
       /\ program[3] = <<"alloc", 2>> /\ program[4] = <<"upload", 2>>
       /\ program[5] = <<"alloc", 3>> /\ program[6] = <<"launch", 3>>
BY DEF CudaCall, NvidiaCall, AmdCall

(* Where a call in the driver is, and what it does there.                  *)
LEMMA PlaceOf ==
  ASSUME MemoryInvariant, NEW t \in Callers, gpuCall[t] # Idle, gpuCall[t].pc = "driver"
  PROVE  /\ Plugin(t).name = "cuda" => gpuCall[t].at \in 1 .. 10 /\ Now(t) = CudaCall[gpuCall[t].at]
         /\ Plugin(t).name \in {"nvidia", "amd"} =>
              gpuCall[t].at \in 1 .. 10 /\ Now(t) = NvidiaCall[gpuCall[t].at]
         /\ Plugin(t).name \in Drivers
<1>1. CallSound(t)
  BY DEF MemoryInvariant, CallsSound
<1>2. Len(CudaCall) = 10 /\ Len(NvidiaCall) = 10 /\ AmdCall = NvidiaCall
  BY DEF CudaCall, NvidiaCall, AmdCall
<1>3. /\ Now(t) = Calls(t)[gpuCall[t].at] /\ gpuCall[t].at \in 1 .. Len(Calls(t))
      /\ Plugin(t).name \in Drivers
  BY <1>1 DEF CallSound, Now
<1>4. /\ Plugin(t).name = "cuda" => Calls(t) = CudaCall
      /\ Plugin(t).name \in {"nvidia", "amd"} => Calls(t) = NvidiaCall
  BY <1>2 DEF Calls, Program
<1> QED
  BY <1>2, <1>3, <1>4

(* The device computes what is meant from the operands in place.           *)
LEMMA DeviceRight ==
  ASSUME NEW r \in Requests, RequestsFit, NEW op \in {"vec_add", "vec_mul", "matmul"},
         NEW m, NEW k,
         op = "matmul" => r.op = "matmul" /\ m = r.m /\ k = r.k,
         op # "matmul" => r.op \in {"vec_add", "vec_mul"},
         NEW buffers, memory[buffers[1]] = r.a, memory[buffers[2]] = r.b,
         memory[buffers[3]] = Fresh(r)
  PROVE  Computed(op, buffers, m, r.n, k) = Reference(op, r.a, r.b, r.m, r.n, r.k)
<1>1. r.m \in Nat /\ r.n \in Nat /\ r.k \in Nat
  BY DEF RequestsFit
<1>2. CASE op = "matmul"
  <2>1. Computed(op, buffers, m, r.n, k) = MatmulKernel(r.a, r.b, Fresh(r), r.m, r.n, r.k)
    BY <1>2 DEF Computed
  <2>2. DOMAIN Fresh(r) = 1 .. r.m * r.n
    BY <1>2 DEF Fresh, Extent
  <2>3. Len(r.a) = r.m * r.k /\ Len(r.b) = r.k * r.n
    BY <1>2 DEF RequestsFit
  <2>4. Reference(op, r.a, r.b, r.m, r.n, r.k) = Product(r.a, r.b, r.m, r.n, r.k)
    BY <1>2 DEF Reference, Product
  <2>5. MatmulKernel(r.a, r.b, Fresh(r), r.m, r.n, r.k) = Product(r.a, r.b, r.m, r.n, r.k)
    <3>1. PICK a, b, c, x, y, z :
            a = r.a /\ b = r.b /\ c = Fresh(r) /\ x = r.m /\ y = r.n /\ z = r.k
      OBVIOUS
    <3>2. /\ x \in Nat /\ y \in Nat /\ z \in Nat
          /\ Len(a) = x * z /\ Len(b) = z * y /\ DOMAIN c = 1 .. x * y
      BY <1>1, <2>2, <2>3, <3>1
    <3>3. MatmulKernel(a, b, c, x, y, z) = Product(a, b, x, y, z)
      BY ONLY <3>2, ProductRight
    <3> QED
      BY <3>1, <3>3
  <2> QED
    BY <2>1, <2>4, <2>5
<1>3. CASE op # "matmul"
  <2>1. Computed(op, buffers, m, r.n, k) = ElementKernel(op, r.a, r.b, Fresh(r), r.n)
    BY <1>3 DEF Computed
  <2>2. DOMAIN Fresh(r) = 1 .. r.n
    BY <1>3 DEF Fresh, Extent
  <2>3. Len(r.a) = r.n /\ Len(r.b) = r.n
    BY <1>3 DEF RequestsFit
  <2>4. Reference(op, r.a, r.b, r.m, r.n, r.k) = Elements(op, r.a, r.b, r.n)
    BY <1>3 DEF Reference, Elements
  <2>5. ElementKernel(op, r.a, r.b, Fresh(r), r.n) = Elements(op, r.a, r.b, r.n)
    <3>1. PICK a, b, c, n : a = r.a /\ b = r.b /\ c = Fresh(r) /\ n = r.n
      OBVIOUS
    <3>2. n \in Nat /\ Len(a) = n /\ Len(b) = n /\ DOMAIN c = 1 .. n
      BY <1>1, <2>2, <2>3, <3>1
    <3>3. ElementKernel(op, a, b, c, n) = Elements(op, a, b, n)
      BY ONLY <3>2, ElementsRight
    <3> QED
      BY <3>1, <3>3
  <2> QED
    BY <2>1, <2>4, <2>5
<1> QED
  BY <1>2, <1>3

(* What a call has does not change with the rest.                          *)
LEMMA FilledFrame ==
  ASSUME NEW u, Filled(u),
         gpuCall'[u].pc = gpuCall[u].pc, gpuCall'[u].request = gpuCall[u].request,
         gpuCall'[u].first = gpuCall[u].first, gpuCall'[u].at = gpuCall[u].at,
         gpuCall'[u].result = gpuCall[u].result,
         Plugin(u)'.name = Plugin(u).name,
         \A k \in 1 .. 3 : memory'[Buffer(u, k)] = memory[Buffer(u, k)]
  PROVE  Filled(u)'
<1>1. Request(u)' = Request(u) /\ \A k \in 1 .. 3 : Buffer(u, k)' = Buffer(u, k)
  BY DEF Request, Buffer
<1>2. CudaFilled(u) => CudaFilled(u)'
  BY <1>1 DEF CudaFilled
<1> QED
  BY <1>2 DEF Filled

(* The other calls, when their buffers stay as they are.                   *)
LEMMA OthersFit ==
  ASSUME AnswersInvariant, NEW t \in Callers, plugin'[Backend].name = plugin[Backend].name,
         \A u \in Callers : gpuCall[u] # Idle => Plugin(u)'.name = Plugin(u).name \/ u = t,
         \A u \in Callers \ {t} : gpuCall'[u] = gpuCall[u],
         \A u \in Callers \ {t}, k \in 1 .. 3 : gpuCall[u] # Idle =>
           memory'[Buffer(u, k)] = memory[Buffer(u, k)],
         gpuCall'[t] # Idle => CallFits(t)'
  PROVE  ContentsOK'
<1>1. ASSUME NEW u \in Callers, u # t, gpuCall'[u] # Idle
      PROVE  CallFits(u)'
  <2>1. gpuCall[u] # Idle /\ gpuCall'[u] = gpuCall[u]
    BY <1>1
  <2>2. CallFits(u)
    BY <2>1 DEF AnswersInvariant, ContentsOK
  <2>3. Filled(u)'
    BY <1>1, <2>1, <2>2, FilledFrame DEF CallFits
  <2>4. /\ Request(u)' = Request(u) /\ Plugin(u)'.name = Plugin(u).name
        /\ Admitted(u) => Admitted(u)'
    BY <1>1, <2>1 DEF Request, Admitted
  <2> QED
    BY <2>1, <2>2, <2>3, <2>4 DEF CallFits
<1> QED
  BY <1>1 DEF ContentsOK, AnswersInvariant

(* A driver call that is not the last.                                     *)
LEMMA DriverAnswers ==
  ASSUME AnswersInvariant, NEW t \in Callers, NEW kind, Doing(t, kind),
         UNCHANGED <<managerVars, calls, answers>>,
         \A u \in Callers \ {t} : gpuCall'[u] = gpuCall[u],
         gpuCall'[t].pc = "driver", gpuCall'[t].of = gpuCall[t].of,
         gpuCall'[t].request = gpuCall[t].request,
         \A u \in Callers \ {t}, k \in 1 .. 3 : gpuCall[u] # Idle =>
           memory'[Buffer(u, k)] = memory[Buffer(u, k)],
         Filled(t)'
  PROVE  ContentsOK' /\ AnswersOK'
<1>1. MemoryInvariant /\ gpuCall[t] # Idle /\ gpuCall[t].pc = "driver"
  BY DoingMeans DEF AnswersInvariant, GpuInvariant
<1>2. CallFits(t)
  BY <1>1 DEF AnswersInvariant, ContentsOK
<1>3. /\ Request(t)' = Request(t) /\ Plugin(t)' = Plugin(t) /\ plugin' = plugin
      /\ Admitted(t) => Admitted(t)'
  BY DEF Request, Plugin, Admitted, managerVars
<1>4. CallFits(t)'
  BY <1>1, <1>2, <1>3 DEF CallFits
<1>5. ContentsOK'
  BY <1>3, <1>4, OthersFit DEF Plugin
<1>6. AnswersOK'
  BY DEF AnswersInvariant, AnswersOK
<1> QED
  BY <1>5, <1>6

(* A call that ends.                                                       *)
LEMMA EndAnswers ==
  ASSUME AnswersInvariant, NEW t \in Callers, gpuCall' = [gpuCall EXCEPT ![t] = Idle],
         UNCHANGED <<managerVars, calls>>, AnswersOK',
         \A u \in Callers \ {t}, k \in 1 .. 3 : gpuCall[u] # Idle =>
           memory'[Buffer(u, k)] = memory[Buffer(u, k)]
  PROVE  ContentsOK' /\ AnswersOK'
<1>1. gpuCall'[t] = Idle /\ \A u \in Callers \ {t} : gpuCall'[u] = gpuCall[u]
  BY DEF AnswersInvariant, GpuInvariant, MemoryInvariant, GpuTyped
<1>2. plugin' = plugin
  BY DEF managerVars
<1>3. \A u \in Callers : gpuCall[u] # Idle => Plugin(u)'.name = Plugin(u).name \/ u = t
  BY <1>1, <1>2 DEF Plugin
<1>4. ContentsOK'
  BY <1>1, <1>2, <1>3, OthersFit
<1> QED
  BY <1>4

(* The record of a call that went on.                                      *)
LEMMA WentOnFields ==
  ASSUME MemoryInvariant, NEW t \in Callers, gpuCall[t] # Idle, GoOn(t)
  PROVE  /\ \A u \in Callers \ {t} : gpuCall'[u] = gpuCall[u]
         /\ gpuCall'[t].pc = gpuCall[t].pc /\ gpuCall'[t].of = gpuCall[t].of
         /\ gpuCall'[t].request = gpuCall[t].request /\ gpuCall'[t].first = gpuCall[t].first
         /\ gpuCall'[t].at = gpuCall[t].at + 1
         /\ gpuCall'[t].result = gpuCall[t].result
<1>1. /\ gpuCall'[t] = [gpuCall[t] EXCEPT !.at = @ + 1]
      /\ \A u \in Callers \ {t} : gpuCall'[u] = gpuCall[u]
  BY DEF GoOn, MemoryInvariant, GpuTyped
<1>2. CallForm(t)
  BY DEF MemoryInvariant, CallsSound, CallSound
<1>3. gpuCall'[t] = [pc |-> gpuCall[t].pc, of |-> gpuCall[t].of, request |-> gpuCall[t].request,
                     first |-> gpuCall[t].first, at |-> gpuCall[t].at + 1,
                     result |-> gpuCall[t].result]
  BY <1>1, <1>2 DEF CallForm
<1> QED
  BY <1>1, <1>3

(* A call's own buffers have three handles.                                *)
LEMMA OwnApart ==
  ASSUME MemoryInvariant, NEW t \in Callers, gpuCall[t] # Idle
  PROVE  /\ Buffer(t, 1) # Buffer(t, 2) /\ Buffer(t, 1) # Buffer(t, 3)
         /\ Buffer(t, 2) # Buffer(t, 3)
<1>1. gpuCall[t].first \in Int
  <2>1. \E c \in 0 .. calls - 1 : gpuCall[t].first = 3 * c
    BY DEF MemoryInvariant, CallsSound, CallSound
  <2> QED
    BY <2>1
<1> QED
  BY <1>1 DEF Buffer

(* What writing a buffer of its own leaves a call and the others.          *)
LEMMA OwnWritten ==
  ASSUME MemoryInvariant, NEW t \in Callers, gpuCall[t] # Idle, NEW own \in BuffersOf(t),
         \A h \in Handles : h # own => memory'[h] = memory[h]
  PROVE  /\ Buffer(t, 1) # own => memory'[Buffer(t, 1)] = memory[Buffer(t, 1)]
         /\ Buffer(t, 2) # own => memory'[Buffer(t, 2)] = memory[Buffer(t, 2)]
         /\ Buffer(t, 3) # own => memory'[Buffer(t, 3)] = memory[Buffer(t, 3)]
         /\ \A u \in Callers \ {t}, k \in 1 .. 3 : gpuCall[u] # Idle =>
              memory'[Buffer(u, k)] = memory[Buffer(u, k)]
<1>1. Buffer(t, 1) \in Handles /\ Buffer(t, 2) \in Handles /\ Buffer(t, 3) \in Handles
  BY BuffersApart
<1>2. \A u \in Callers \ {t}, k \in 1 .. 3 : gpuCall[u] # Idle =>
        Buffer(u, k) \in Handles /\ Buffer(u, k) # own
  BY BuffersApart
<1> QED
  BY <1>1, <1>2

(* A call that went on, wrote at most a buffer of its own, and has what it *)
(* should have at the next place.                                          *)
LEMMA OnAnswers ==
  ASSUME AnswersInvariant, NEW t \in Callers, NEW kind, Doing(t, kind), GoOn(t),
         UNCHANGED <<managerVars, calls, answers>>,
         \E own \in BuffersOf(t) : \A h \in Handles : h # own => memory'[h] = memory[h],
         Filled(t)'
  PROVE  ContentsOK' /\ AnswersOK'
<1>1. MemoryInvariant /\ gpuCall[t] # Idle /\ gpuCall[t].pc = "driver"
  BY DoingMeans DEF AnswersInvariant, GpuInvariant
<1>2. \A u \in Callers \ {t}, k \in 1 .. 3 : gpuCall[u] # Idle =>
        memory'[Buffer(u, k)] = memory[Buffer(u, k)]
  BY <1>1, OwnWritten
<1> QED
  BY <1>1, <1>2, WentOnFields, DriverAnswers

(* A failed driver call is noticed, or it is one of the first of a call    *)
(* that never gets past its launch.                                        *)
LEMMA DriverFailsAnswers ==
  ASSUME AnswersInvariant, NEW t \in Callers, DriverFails(t)
  PROVE  ContentsOK' /\ AnswersOK'
<1>1. PICK kind \in {"alloc", "upload", "download", "launch"} :
        Doing(t, kind)
  BY DEF DriverFails
<1>2. /\ MemoryInvariant /\ gpuCall[t] # Idle /\ gpuCall[t].pc = "driver" /\ Now(t)[1] = kind
  BY <1>1, DoingMeans DEF AnswersInvariant, GpuInvariant
<1>3. UNCHANGED <<managerVars, memory, calls, answers>>
  BY DEF DriverFails
<1>4. CASE Raise(t)
  <2>1. gpuCall' = [gpuCall EXCEPT ![t] = Idle]
    BY <1>4 DEF Raise
  <2>2. AnswersOK'
    BY <1>3 DEF AnswersInvariant, AnswersOK
  <2> QED
    BY <1>3, <2>1, <2>2, EndAnswers
<1>5. CASE Now(t)[1] \in Ignores(Plugin(t).name) /\ GoOn(t)
  <2>1. Plugin(t).name \in {"nvidia", "amd"} /\ Now(t)[1] \in {"alloc", "upload", "download"}
    BY <1>5 DEF Ignores, NvidiaIgnores, AmdIgnores
  <2>2. Filled(t)'
    <3>1. gpuCall[t].at \in 1 .. 10 /\ Now(t) = NvidiaCall[gpuCall[t].at]
      BY <1>2, <2>1, PlaceOf
    <3>2. gpuCall[t].at <= 6
      BY <1>2, <2>1 DEF AnswersInvariant, ContentsOK, CallFits, Filled
    <3>3. gpuCall[t].at # 6
      BY <2>1, <3>1, Places
    <3>4. gpuCall'[t].at = gpuCall[t].at + 1 /\ Plugin(t)' = Plugin(t)
      BY <1>2, <1>3, <1>5, WentOnFields DEF Plugin, managerVars
    <3> QED
      BY <2>1, <3>1, <3>2, <3>3, <3>4 DEF Filled
  <2>3. \E own \in BuffersOf(t) : \A h \in Handles : h # own => memory'[h] = memory[h]
    BY <1>2, <1>3, BuffersApart
  <2> QED
    BY <1>1, <1>3, <1>5, <2>2, <2>3, OnAnswers
<1> QED
  BY <1>4, <1>5 DEF DriverFails

(* Allocating and copying to the device.                                   *)
LEMMA FillAnswers ==
  ASSUME AnswersInvariant, NEW t \in Callers, Allocate(t) \/ Copy(t)
  PROVE  ContentsOK' /\ AnswersOK'
<1>0. PICK kind \in {"alloc", "upload"} : \E y :
        /\ Doing(t, kind) /\ GoOn(t) /\ memory' = [memory EXCEPT ![This(t)] = y]
        /\ kind = "alloc" => y = [i \in 1 .. Size(t) |-> Garbage]
        /\ kind # "alloc" => y = Operand(t)
        /\ UNCHANGED <<managerVars, calls, answers>>
  <2>1. CASE Allocate(t)
    <3>1. PICK y : y = [i \in 1 .. Size(t) |-> Garbage]
      OBVIOUS
    <3>2. /\ Doing(t, "alloc") /\ GoOn(t) /\ memory' = [memory EXCEPT ![This(t)] = y]
          /\ UNCHANGED <<managerVars, calls, answers>>
      BY <2>1, <3>1 DEF Allocate
    <3> QED
      BY <3>1, <3>2
  <2>2. CASE Copy(t)
    <3>1. Doing(t, "upload")
      BY <2>2 DEF Copy
    <3>2. /\ GoOn(t) /\ memory' = [memory EXCEPT ![This(t)] = Operand(t)]
          /\ UNCHANGED <<managerVars, calls, answers>>
      BY <2>2 DEF Copy
    <3> QED
      BY <3>1, <3>2
  <2> QED
    BY <2>1, <2>2
<1>1. PICK y :
        /\ Doing(t, kind) /\ GoOn(t) /\ memory' = [memory EXCEPT ![This(t)] = y]
        /\ kind = "alloc" => y = [i \in 1 .. Size(t) |-> Garbage]
        /\ kind # "alloc" => y = Operand(t)
        /\ UNCHANGED <<managerVars, calls, answers>>
  BY <1>0
<1>2. /\ MemoryInvariant /\ gpuCall[t] # Idle /\ gpuCall[t].pc = "driver" /\ Now(t)[1] = kind
      /\ Now(t)[2] \in 1 .. 3
  BY <1>1, DoingMeans DEF AnswersInvariant, GpuInvariant
<1>3. /\ This(t) \in BuffersOf(t) /\ memory'[This(t)] = y
      /\ \A h \in Handles : h # This(t) => memory'[h] = memory[h]
  <2>1. This(t) \in BuffersOf(t) /\ This(t) \in Handles
    BY <1>1, <1>2, DoingMeans
  <2> QED
    BY <1>1, <1>2, <2>1, MemoryWritten
<1>4. /\ memory'[Buffer(t, Now(t)[2])] = y
      /\ \A k \in 1 .. 3 : k # Now(t)[2] => memory'[Buffer(t, k)] = memory[Buffer(t, k)]
  <2>1. /\ Buffer(t, 1) # This(t) => memory'[Buffer(t, 1)] = memory[Buffer(t, 1)]
        /\ Buffer(t, 2) # This(t) => memory'[Buffer(t, 2)] = memory[Buffer(t, 2)]
        /\ Buffer(t, 3) # This(t) => memory'[Buffer(t, 3)] = memory[Buffer(t, 3)]
    BY <1>2, <1>3, OwnWritten
  <2>2. This(t) = Buffer(t, Now(t)[2])
    BY DEF This
  <2>3. CASE Now(t)[2] = 1
    BY <1>2, <1>3, <2>1, <2>2, <2>3, OwnApart
  <2>4. CASE Now(t)[2] = 2
    BY <1>2, <1>3, <2>1, <2>2, <2>4, OwnApart
  <2>5. CASE Now(t)[2] = 3
    BY <1>2, <1>3, <2>1, <2>2, <2>5, OwnApart
  <2> QED
    BY <1>2, <2>3, <2>4, <2>5
<1>5. /\ gpuCall'[t].at = gpuCall[t].at + 1 /\ gpuCall'[t].pc = "driver"
      /\ Plugin(t)' = Plugin(t) /\ Request(t)' = Request(t)
      /\ \A k \in 1 .. 3 : Buffer(t, k)' = Buffer(t, k)
  BY <1>1, <1>2, WentOnFields DEF Plugin, managerVars, Request, Buffer
<1>6. /\ Now(t)[2] = 1 => Operand(t) = Request(t).a
      /\ Now(t)[2] = 2 => Operand(t) = Request(t).b
      /\ kind = "alloc" /\ Now(t)[2] = 3 => y = Fresh(Request(t))
  <2>1. Now(t)[2] = 3 => Size(t) = Extent(Request(t))
    BY DEF Size, Extent
  <2>2. ASSUME kind = "alloc", Now(t)[2] = 3
        PROVE  y = Fresh(Request(t))
    <3>1. y = [i \in 1 .. Size(t) |-> Garbage]
      BY <1>1, <2>2
    <3> QED
      BY <2>1, <2>2, <3>1 DEF Fresh
  <2> QED
    BY <2>2 DEF Operand
<1>7. Filled(t)'
  <2>1. Filled(t)
    BY <1>2 DEF AnswersInvariant, ContentsOK, CallFits
  <2>2. CASE Plugin(t).name = "cuda"
    <3>1. gpuCall[t].at \in 1 .. 10 /\ Now(t) = CudaCall[gpuCall[t].at]
      BY <1>2, <2>2, PlaceOf
    <3>2. gpuCall[t].at \in 1 .. 5
      BY <1>1, <1>2, <3>1, Places
    <3>3. CudaFilled(t)
      BY <1>2, <2>1, <2>2 DEF Filled
    <3>4. CudaFilled(t)'
      <4>1. CASE gpuCall[t].at \in {1, 2}
        BY <1>1, <1>2, <1>4, <1>5, <1>6, <3>1, <4>1, Places DEF CudaFilled
      <4>2. CASE gpuCall[t].at = 3
        BY <1>1, <1>2, <1>4, <1>5, <1>6, <3>1, <3>3, <4>2, Places DEF CudaFilled
      <4>4. CASE gpuCall[t].at = 4
        <5>1. Now(t)[2] = 2 /\ kind = "upload" /\ gpuCall'[t].at = 5
          BY <1>2, <1>5, <3>1, <4>4, Places
        <5>2. memory'[Buffer(t, 2)] = Request(t).b /\ memory'[Buffer(t, 1)] = memory[Buffer(t, 1)]
          BY <1>1, <1>4, <1>6, <5>1
        <5>3. memory[Buffer(t, 1)] = Request(t).a
          BY <3>3, <4>4 DEF CudaFilled
        <5> QED
          BY <1>5, <5>1, <5>2, <5>3 DEF CudaFilled
      <4>3. CASE gpuCall[t].at = 5
        <5>1. Now(t)[2] = 3 /\ kind = "alloc" /\ gpuCall'[t].at = 6
          BY <1>2, <1>5, <3>1, <4>3, Places
        <5>2. /\ memory'[Buffer(t, 3)] = Fresh(Request(t))
              /\ memory'[Buffer(t, 1)] = memory[Buffer(t, 1)]
              /\ memory'[Buffer(t, 2)] = memory[Buffer(t, 2)]
          BY <1>4, <1>6, <5>1
        <5>3. memory[Buffer(t, 1)] = Request(t).a /\ memory[Buffer(t, 2)] = Request(t).b
          BY <3>3, <4>3 DEF CudaFilled
        <5>4. Fresh(Request(t))' = Fresh(Request(t))
          BY <1>5 DEF Fresh, Extent, Blocks
        <5> QED
          BY <1>5, <5>1, <5>2, <5>3, <5>4 DEF CudaFilled
      <4> QED
        BY <3>2, <4>1, <4>2, <4>3, <4>4
    <3> QED
      BY <1>5, <2>2, <3>4 DEF Filled
  <2>4. CASE Plugin(t).name \in {"nvidia", "amd"}
    <3>1. gpuCall[t].at \in 1 .. 10 /\ Now(t) = NvidiaCall[gpuCall[t].at] /\ gpuCall[t].at <= 6
      BY <1>2, <2>1, <2>4, PlaceOf DEF Filled
    <3>2. gpuCall[t].at # 6
      BY <1>2, <1>1, <3>1, Places
    <3> QED
      BY <1>5, <2>4, <3>1, <3>2 DEF Filled
  <2> QED
    BY <1>2, <2>2, <2>4, PlaceOf DEF Drivers
<1> QED
  BY <1>1, <1>2, <1>3, <1>7, OnAnswers

(* The launches that raise, and the CUDA backend's.                        *)
LEMMA LaunchAnswers ==
  ASSUME AnswersInvariant, RequestsFit, NEW t \in Callers, LaunchRaises(t) \/ LaunchCuda(t)
  PROVE  ContentsOK' /\ AnswersOK'
<1>1. CASE LaunchRaises(t)
  <2>1. /\ gpuCall' = [gpuCall EXCEPT ![t] = Idle]
        /\ UNCHANGED <<managerVars, memory, calls, answers>>
    BY <1>1 DEF LaunchRaises, Raise
  <2>2. AnswersOK'
    BY <2>1 DEF AnswersInvariant, AnswersOK
  <2> QED
    BY <2>1, <2>2, EndAnswers
<1>2. CASE LaunchCuda(t)
  <2> DEFINE r == Request(t)
             buffers == [k \in 1 .. 3 |-> Buffer(t, k)]
             y == Computed(Template(r.op), buffers, r.m, r.n, r.k)
  <2>1. /\ Doing(t, "launch") /\ GoOn(t) /\ Plugin(t).name = "cuda"
        /\ UNCHANGED <<managerVars, calls, answers>>
    BY <1>2 DEF LaunchCuda
  <2>2. memory' = [memory EXCEPT ![Buffer(t, 3)] = y]
    BY <1>2 DEF LaunchCuda
  <2>3. /\ MemoryInvariant /\ gpuCall[t] # Idle /\ gpuCall[t].pc = "driver"
        /\ Now(t)[1] = "launch"
    BY <2>1, DoingMeans DEF AnswersInvariant, GpuInvariant
  <2>4. CallFits(t)
    BY <2>3 DEF AnswersInvariant, ContentsOK
  <2>a. /\ Buffer(t, 3) \in BuffersOf(t) /\ memory'[Buffer(t, 3)] = y
        /\ \A h \in Handles : h # Buffer(t, 3) => memory'[h] = memory[h]
    <3> HIDE DEF y
    <3>1. Buffer(t, 3) \in BuffersOf(t) /\ Buffer(t, 3) \in Handles
      BY <2>3, BuffersApart
    <3> QED
      BY <2>2, <2>3, <3>1, MemoryWritten
  <2>5. gpuCall[t].at = 6
    <3>1. gpuCall[t].at \in 1 .. 10 /\ Now(t) = CudaCall[gpuCall[t].at]
      BY <2>1, <2>3, PlaceOf
    <3> QED
      BY <2>3, <3>1, Places
  <2>6. /\ gpuCall'[t].at = 7 /\ gpuCall'[t].pc = "driver"
        /\ Plugin(t)' = Plugin(t) /\ Request(t)' = r
        /\ \A k \in 1 .. 3 : Buffer(t, k)' = Buffer(t, k)
    BY <2>1, <2>3, <2>5, WentOnFields DEF Plugin, managerVars, Request, Buffer
  <2>7. Filled(t)'
    <3>1. /\ memory[Buffer(t, 1)] = r.a /\ memory[Buffer(t, 2)] = r.b
          /\ memory[Buffer(t, 3)] = Fresh(r)
      BY <2>1, <2>3, <2>4, <2>5 DEF CallFits, Filled, CudaFilled
    <3>2. r \in Requests /\ r.op \in {"vec_add", "vec_mul", "matmul"}
      BY <2>1, <2>4, GpuAssumption DEF CallFits, Offers
    <3>3. y = Outcome("cuda", r)
      <4>1. PICK op \in {"vec_add", "vec_mul", "matmul"} : op = Template(r.op)
        BY <3>2 DEF Template
      <4>2. /\ op = "matmul" => r.op = "matmul"
            /\ op # "matmul" => r.op \in {"vec_add", "vec_mul"}
        BY <3>2, <4>1 DEF Template
      <4>3. Computed(op, buffers, r.m, r.n, r.k) = Reference(op, r.a, r.b, r.m, r.n, r.k)
        <5>1. /\ memory[buffers[1]] = r.a /\ memory[buffers[2]] = r.b
              /\ memory[buffers[3]] = Fresh(r)
          BY <3>1
        <5> HIDE DEF buffers, r
        <5>2. PICK q \in Requests : q = r
          BY <3>2
        <5>5. PICK x, w, bs : x = q.m /\ w = q.k /\ bs = buffers
          OBVIOUS
        <5>3. /\ op = "matmul" => q.op = "matmul" /\ x = q.m /\ w = q.k
              /\ op # "matmul" => q.op \in {"vec_add", "vec_mul"}
              /\ memory[bs[1]] = q.a /\ memory[bs[2]] = q.b /\ memory[bs[3]] = Fresh(q)
          BY <4>2, <5>1, <5>2, <5>5
        <5>4. Computed(op, bs, x, q.n, w) = Reference(op, q.a, q.b, q.m, q.n, q.k)
          BY ONLY <5>3, RequestsFit, DeviceRight
        <5> QED
          BY <5>2, <5>4, <5>5
      <4>4. Outcome("cuda", r) = Reference(Template(r.op), r.a, r.b, r.m, r.n, r.k)
        BY DEF Outcome
      <4> QED
        BY <4>1, <4>3, <4>4
    <3> HIDE DEF y, r
    <3>4. /\ memory'[Buffer(t, 3)] = Outcome("cuda", r)
          /\ memory'[Buffer(t, 1)] = memory[Buffer(t, 1)]
          /\ memory'[Buffer(t, 2)] = memory[Buffer(t, 2)]
      <4>1. /\ Buffer(t, 1) # Buffer(t, 3) => memory'[Buffer(t, 1)] = memory[Buffer(t, 1)]
            /\ Buffer(t, 2) # Buffer(t, 3) => memory'[Buffer(t, 2)] = memory[Buffer(t, 2)]
        BY <2>3, <2>a, OwnWritten
      <4> QED
        BY <2>3, <2>a, <3>3, <4>1, OwnApart
    <3>5. Outcome("cuda", r)' = Outcome("cuda", r)
      BY <2>6 DEF Outcome, r
    <3>6. CudaFilled(t)'
      BY <2>6, <3>1, <3>4, <3>5 DEF CudaFilled, r
    <3> QED
      BY <2>1, <2>6, <3>6 DEF Filled
  <2> HIDE DEF y, r
  <2> QED
    BY <2>1, <2>a, <2>7, OnAnswers
<1> QED
  BY <1>1, <1>2

(* The download leaves the result with the call.                           *)
LEMMA DownloadAnswers ==
  ASSUME AnswersInvariant, NEW t \in Callers, Download(t)
  PROVE  ContentsOK' /\ AnswersOK'
<1>1. /\ Doing(t, "download") /\ UNCHANGED <<managerVars, memory, calls, answers>>
      /\ gpuCall' = [gpuCall EXCEPT ![t].at = @ + 1, ![t].result = memory[This(t)]]
  BY DEF Download
<1>2. /\ MemoryInvariant /\ gpuCall[t] # Idle /\ gpuCall[t].pc = "driver" /\ Now(t)[1] = "download"
  BY <1>1, DoingMeans DEF AnswersInvariant, GpuInvariant
<1>3. /\ gpuCall'[t] = [gpuCall[t] EXCEPT !.at = @ + 1, !.result = memory[This(t)]]
      /\ \A u \in Callers \ {t} : gpuCall'[u] = gpuCall[u]
  BY <1>1, <1>2 DEF MemoryInvariant, GpuTyped
<1>4. gpuCall'[t] = [pc |-> gpuCall[t].pc, of |-> gpuCall[t].of, request |-> gpuCall[t].request,
                     first |-> gpuCall[t].first, at |-> gpuCall[t].at + 1,
                     result |-> memory[This(t)]]
  <2>1. CallForm(t)
    BY <1>2 DEF MemoryInvariant, CallsSound, CallSound
  <2> QED
    BY <1>3, <2>1, Zenon DEF CallForm
<1>5. /\ gpuCall'[t].pc = "driver" /\ gpuCall'[t].of = gpuCall[t].of
      /\ gpuCall'[t].request = gpuCall[t].request /\ gpuCall'[t].first = gpuCall[t].first
      /\ gpuCall'[t].at = gpuCall[t].at + 1
      /\ gpuCall'[t].result = memory[This(t)]
  BY <1>2, <1>4
<1>6. /\ Plugin(t)' = Plugin(t) /\ Request(t)' = Request(t)
      /\ \A k \in 1 .. 3 : Buffer(t, k)' = Buffer(t, k)
  BY <1>1, <1>5 DEF Plugin, managerVars, Request, Buffer
<1>7. Filled(t)'
  <2>1. Filled(t)
    BY <1>2 DEF AnswersInvariant, ContentsOK, CallFits
  <2>2. CASE Plugin(t).name = "cuda"
    <3>1. gpuCall[t].at \in 1 .. 10 /\ Now(t) = CudaCall[gpuCall[t].at]
      BY <1>2, <2>2, PlaceOf
    <3>2. gpuCall[t].at = 9 /\ Now(t)[2] = 3
      BY <1>2, <3>1, Places
    <3>3. CudaFilled(t)'
      BY <1>2, <1>5, <1>6, <2>1, <2>2, <3>2 DEF This, Filled, CudaFilled, Outcome
    <3> QED
      BY <1>6, <2>2, <3>3 DEF Filled
  <2>4. CASE Plugin(t).name \in {"nvidia", "amd"}
    <3>1. gpuCall[t].at \in 1 .. 10 /\ Now(t) = NvidiaCall[gpuCall[t].at] /\ gpuCall[t].at <= 6
      BY <1>2, <2>1, <2>4, PlaceOf DEF Filled
    <3> QED
      BY <1>2, <3>1, Places
  <2> QED
    BY <1>2, <2>2, <2>4, PlaceOf DEF Drivers
<1> QED
  BY <1>1, <1>2, <1>3, <1>5, <1>7, DriverAnswers

(* Freeing: by then the result was downloaded, or is in the third buffer.  *)
LEMMA FreeAnswers ==
  ASSUME AnswersInvariant, NEW t \in Callers, FreeBuffer(t)
  PROVE  ContentsOK' /\ AnswersOK'
<1>1. /\ Doing(t, "free") /\ UNCHANGED <<managerVars, calls>>
      /\ memory' = [memory EXCEPT ![This(t)] = Free]
  BY DEF FreeBuffer, Released
<1>2. /\ MemoryInvariant /\ gpuCall[t] # Idle /\ gpuCall[t].pc = "driver" /\ Now(t)[1] = "free"
      /\ Now(t)[2] \in 1 .. 3
  BY <1>1, DoingMeans DEF AnswersInvariant, GpuInvariant
<1>3. /\ This(t) \in BuffersOf(t)
      /\ \A h \in Handles : h # This(t) => memory'[h] = memory[h]
  BY <1>1, <1>2, DoingMeans, MemoryWritten
<1>4. /\ This(t) = Buffer(t, 1) => /\ memory'[Buffer(t, 2)] = memory[Buffer(t, 2)]
                                  /\ memory'[Buffer(t, 3)] = memory[Buffer(t, 3)]
      /\ This(t) = Buffer(t, 2) => memory'[Buffer(t, 3)] = memory[Buffer(t, 3)]
      /\ \A u \in Callers \ {t}, k \in 1 .. 3 : gpuCall[u] # Idle =>
           memory'[Buffer(u, k)] = memory[Buffer(u, k)]
  <2>1. /\ Buffer(t, 2) # This(t) => memory'[Buffer(t, 2)] = memory[Buffer(t, 2)]
        /\ Buffer(t, 3) # This(t) => memory'[Buffer(t, 3)] = memory[Buffer(t, 3)]
        /\ \A u \in Callers \ {t}, k \in 1 .. 3 : gpuCall[u] # Idle =>
             memory'[Buffer(u, k)] = memory[Buffer(u, k)]
    BY <1>2, <1>3, OwnWritten
  <2> QED
    BY <1>2, <2>1, OwnApart
<1>6. Filled(t) /\ Plugin(t).name = "cuda"
  <2>1. Filled(t)
    BY <1>2 DEF AnswersInvariant, ContentsOK, CallFits
  <2>2. ASSUME Plugin(t).name \in {"nvidia", "amd"}
        PROVE  FALSE
    <3>1. gpuCall[t].at \in 1 .. 10 /\ Now(t) = NvidiaCall[gpuCall[t].at] /\ gpuCall[t].at <= 6
      BY <1>2, <2>1, <2>2, PlaceOf DEF Filled
    <3> QED
      BY <1>2, <3>1, Places
  <2> QED
    BY <1>2, <2>1, <2>2, PlaceOf DEF Drivers
<1>5. gpuCall[t].at \in {7, 8, 10} /\ Now(t) = CudaCall[gpuCall[t].at]
  <2>1. gpuCall[t].at \in 1 .. 10 /\ Now(t) = CudaCall[gpuCall[t].at]
    BY <1>2, <1>6, PlaceOf
  <2> QED
    BY <1>2, <2>1, Places
<1>7. CASE gpuCall[t].at = Len(Calls(t))
  <2>1. Answer(t, gpuCall[t].result)
    BY <1>7 DEF FreeBuffer
  <2>2. gpuCall' = [gpuCall EXCEPT ![t] = Idle]
    BY <2>1 DEF Answer
  <2>3. AnswersOK'
    <3> DEFINE r == Request(t)
    <3>1. SUFFICES \/ gpuCall[t].result = Correct(r)
                   \/ r.op = "vec_mul" /\ gpuCall[t].result = Outcome("cuda", r)
      <4>1. r \in Requests
        BY <1>2 DEF AnswersInvariant, ContentsOK, CallFits
      <4> QED
        BY <2>1, <4>1 DEF Answer, AnswersInvariant, AnswersOK
    <3>2. gpuCall[t].at = 10
      BY <1>6, <1>7 DEF Calls, Program, CudaCall
    <3>3. gpuCall[t].result = Outcome("cuda", r)
      BY <1>2, <1>6, <3>2 DEF Filled, CudaFilled
    <3>4. r.op \in {"vec_add", "vec_mul", "matmul"}
      BY <1>2, <1>6, GpuAssumption DEF AnswersInvariant, ContentsOK, CallFits, Offers
    <3> QED
      BY <3>3, <3>4 DEF Outcome, Correct, Template
  <2> QED
    BY <1>1, <1>4, <2>2, <2>3, EndAnswers
<1>8. CASE gpuCall[t].at # Len(Calls(t))
  <2>1. GoOn(t) /\ UNCHANGED answers
    BY <1>8 DEF FreeBuffer
  <2>2. /\ gpuCall'[t].at = gpuCall[t].at + 1 /\ gpuCall'[t].pc = "driver"
        /\ gpuCall'[t].result = gpuCall[t].result
        /\ Plugin(t)' = Plugin(t) /\ Request(t)' = Request(t)
        /\ \A k \in 1 .. 3 : Buffer(t, k)' = Buffer(t, k)
    BY <1>1, <1>2, <2>1, WentOnFields DEF Plugin, managerVars, Request, Buffer
  <2>3. CudaFilled(t)'
    <3>1. CASE gpuCall[t].at = 7
      <4>1. This(t) = Buffer(t, 1)
        BY <1>5, <3>1, Places DEF This
      <4> QED
        BY <1>2, <1>4, <1>6, <2>2, <3>1, <4>1 DEF Filled, CudaFilled, Outcome
    <3>2. CASE gpuCall[t].at = 8
      <4>1. This(t) = Buffer(t, 2)
        BY <1>5, <3>2, Places DEF This
      <4> QED
        BY <1>2, <1>4, <1>6, <2>2, <3>2, <4>1 DEF Filled, CudaFilled, Outcome
    <3>3. gpuCall[t].at # 10
      BY <1>6, <1>8 DEF Calls, Program, CudaCall
    <3> QED
      BY <1>5, <3>1, <3>2, <3>3
  <2>4. Filled(t)'
    BY <1>6, <2>2, <2>3 DEF Filled
  <2> QED
    BY <1>1, <1>3, <2>1, <2>4, OnAnswers
<1> QED
  BY <1>7, <1>8

(* A call that is made.                                                    *)
LEMMA BeginAnswers ==
  ASSUME AnswersInvariant, NEW t \in Callers, NEW i \in Backend .. MaxMade, NEW r \in Requests,
         Begin(t, i, r)
  PROVE  ContentsOK' /\ AnswersOK'
<1> DEFINE new == [pc |-> "checks", of |-> i, request |-> r, first |-> 3 * calls, at |-> 1,
                   result |-> <<>>]
<1>1. /\ gpuCall[t] = Idle /\ Offers(plugin[i].name, r.op) /\ calls' = calls + 1
      /\ gpuCall' = [gpuCall EXCEPT ![t] = new]
      /\ UNCHANGED <<managerVars, memory, answers>>
  BY DEF Begin
<1>2. /\ gpuCall'[t] = new /\ plugin' = plugin
      /\ \A u \in Callers \ {t} : gpuCall'[u] = gpuCall[u]
  BY <1>1 DEF AnswersInvariant, GpuInvariant, MemoryInvariant, GpuTyped, managerVars
<1>4. CallFits(t)'
  <2>1. Request(t)' = r /\ Plugin(t)' = plugin[i]
    BY <1>2 DEF Request, Plugin
  <2>2. Filled(t)'
    BY <1>2 DEF Filled
  <2>3. gpuCall'[t].pc # "driver"
    BY <1>2
  <2> QED
    BY <1>1, <2>1, <2>2, <2>3 DEF CallFits
<1>5. \A u \in Callers : gpuCall[u] # Idle => Plugin(u)'.name = Plugin(u).name \/ u = t
  BY <1>2 DEF Plugin
<1>6. ContentsOK'
  BY <1>1, <1>2, <1>4, <1>5, OthersFit
<1>10. AnswersOK'
  BY <1>1 DEF AnswersInvariant, AnswersOK
<1> QED
  BY <1>6, <1>10

(* A call that leaves before the driver, with the CPU's answer or an       *)
(* exception.                                                              *)
LEMMA LeaveAnswers ==
  ASSUME AnswersInvariant, NEW t \in Callers, FallBack(t) \/ Refuse(t)
  PROVE  ContentsOK' /\ AnswersOK'
<1>1. /\ gpuCall' = [gpuCall EXCEPT ![t] = Idle]
      /\ UNCHANGED <<managerVars, memory, calls>>
  BY DEF FallBack, Refuse, Answer
<1>2. AnswersOK'
  <2>1. CASE FallBack(t)
    <3>1. Request(t) \in Requests
      BY <2>1 DEF FallBack, Checking, Idle, AnswersInvariant, ContentsOK, CallFits
    <3> QED
      BY <2>1, <3>1 DEF FallBack, Answer, AnswersInvariant, AnswersOK
  <2>2. CASE Refuse(t)
    BY <2>2 DEF Refuse, AnswersInvariant, AnswersOK
  <2> QED
    BY <2>1, <2>2
<1> QED
  BY <1>1, <1>2, EndAnswers

(* A call that passed its checks.                                          *)
LEMMA AcceptAnswers ==
  ASSUME AnswersInvariant, NEW t \in Callers, Accept(t)
  PROVE  ContentsOK' /\ AnswersOK'
<1>1. /\ gpuCall[t].pc = "checks" /\ Admitted(t)
      /\ gpuCall' = [gpuCall EXCEPT ![t].pc = "driver"]
      /\ UNCHANGED <<managerVars, memory, calls, answers>>
  BY DEF Accept, Checking, Ready
<1>2. gpuCall[t] # Idle
  BY <1>1 DEF Idle
<1>3. CallSound(t) /\ CallFits(t)
  BY <1>2 DEF AnswersInvariant, ContentsOK, GpuInvariant, MemoryInvariant, CallsSound
<1>4. gpuCall[t].at = 1
  BY <1>1, <1>3 DEF CallSound, FreedSoFar
<1>5. /\ gpuCall'[t] = [gpuCall[t] EXCEPT !.pc = "driver"] /\ plugin' = plugin
      /\ \A u \in Callers \ {t} : gpuCall'[u] = gpuCall[u]
  BY <1>1 DEF AnswersInvariant, GpuInvariant, MemoryInvariant, GpuTyped, managerVars
<1>6. gpuCall'[t] = [pc |-> "driver", of |-> gpuCall[t].of, request |-> gpuCall[t].request,
                     first |-> gpuCall[t].first, at |-> gpuCall[t].at,
                     result |-> gpuCall[t].result]
  BY <1>3, <1>5 DEF CallSound, CallForm
<1>7. /\ gpuCall'[t].pc = "driver" /\ gpuCall'[t].of = gpuCall[t].of
      /\ gpuCall'[t].request = gpuCall[t].request /\ gpuCall'[t].first = gpuCall[t].first
      /\ gpuCall'[t].at = 1
  BY <1>4, <1>6
<1>8. Request(t)' = Request(t) /\ Plugin(t)' = Plugin(t)
  BY <1>5, <1>7 DEF Request, Plugin
<1>9. CallFits(t)'
  <2>1. Filled(t)'
    BY <1>7 DEF Filled, CudaFilled
  <2>2. Admitted(t)'
    BY <1>1, <1>7, <1>8 DEF Admitted
  <2> QED
    BY <1>3, <1>7, <1>8, <2>1, <2>2 DEF CallFits
<1>10. \A u \in Callers : gpuCall[u] # Idle => Plugin(u)'.name = Plugin(u).name \/ u = t
  BY <1>5 DEF Plugin
<1>11. ContentsOK'
  BY <1>1, <1>5, <1>9, <1>10, OthersFit
<1>14. AnswersOK'
  BY <1>1 DEF AnswersInvariant, AnswersOK
<1> QED
  BY <1>11, <1>14

(* What the manager does leaves the calls alone.                           *)
LEMMA ManagerAnswers ==
  ASSUME AnswersInvariant, \A i \in Backend .. made : plugin'[i].name = plugin[i].name,
         UNCHANGED <<gpuCall, memory, answers>>
  PROVE  ContentsOK' /\ AnswersOK'
<1>1. Backend \in Backend .. made
  <2>1. made \in Nat
    BY GpuAssumption DEF AnswersInvariant, GpuInvariant, MemoryInvariant, GpuTyped
  <2> QED
    BY <2>1 DEF Backend
<1>2. ASSUME NEW u \in Callers, gpuCall[u] # Idle
      PROVE  Plugin(u)'.name = Plugin(u).name
  <2>1. gpuCall[u].of \in Backend .. made
    BY <1>2 DEF AnswersInvariant, GpuInvariant, MemoryInvariant, CallsSound, CallSound
  <2> QED
    BY <2>1 DEF Plugin
<1>3. ASSUME NEW u \in Callers, gpuCall'[u] # Idle
      PROVE  CallFits(u)'
  <2>1. gpuCall[u] # Idle /\ CallFits(u)
    BY <1>3 DEF AnswersInvariant, ContentsOK
  <2>2. Filled(u) => Filled(u)'
    BY <1>2, <2>1, FilledFrame
  <2>3. Request(u)' = Request(u) /\ (Admitted(u) => Admitted(u)')
    BY DEF Request, Admitted
  <2> QED
    BY <1>2, <2>1, <2>2, <2>3 DEF CallFits
<1>4. ContentsOK'
  BY <1>1, <1>3 DEF AnswersInvariant, ContentsOK
<1>7. AnswersOK'
  BY DEF AnswersInvariant, AnswersOK
<1> QED
  BY <1>4, <1>7

(* Nothing was asked for in the beginning.                                 *)
LEMMA AnswersInitially == GpuInit => AnswersInvariant
<1> SUFFICES ASSUME GpuInit
             PROVE  AnswersInvariant
  OBVIOUS
<1>1. GpuInvariant
  BY GpuInitially
<1>2. Backend \in Backend .. MaxMade
  BY GpuAssumption DEF Backend
<1>3. \A t \in Callers : gpuCall[t] = Idle
  BY DEF GpuInit
<1>4. ContentsOK
  <2>1. plugin = [i \in Backend .. MaxMade |->
          IF i = Backend THEN [name |-> "cuda", has |-> {"context", "kernels", "available"},
                               life |-> "live"]
          ELSE [name |-> "none", has |-> {}, life |-> "none"]]
    BY DEF GpuInit
  <2>2. plugin[Backend].name = "cuda"
    BY <1>2, <2>1
  <2> QED
    BY <1>3, <2>2 DEF ContentsOK
<1>8. AnswersOK
  BY DEF GpuInit, AnswersOK
<1> QED
  BY <1>1, <1>4, <1>8 DEF AnswersInvariant

(* Every step keeps the invariant.                                         *)
LEMMA AnswersStep ==
  ASSUME RequestsFit, AnswersInvariant, [GpuNext]_gpuVars
  PROVE  AnswersInvariant'
<1>1. GpuInvariant'
  BY GpuStep DEF AnswersInvariant
<1>2. ASSUME NEW t \in Managers,
             \/ \E name \in Names, s \in 0 .. 5 : LoadPlugin(t, name, s)
             \/ \E name \in Names : TakeOut(t, name)
             \/ Enter(t) \/ Close(t)
             \/ BeginShutdown(t) \/ ShutdownNext(t) \/ IterationFails(t) \/ EndIteration(t)
             \/ ClearTable(t)
      PROVE  AnswersInvariant'
  <2>1. /\ \A i \in Backend .. made : plugin'[i].name = plugin[i].name
        /\ UNCHANGED callVars
    BY <1>2, ManagerKeeps DEF AnswersInvariant
  <2> QED
    BY <1>1, <2>1, ManagerAnswers DEF AnswersInvariant, callVars
<1>3. ASSUME NEW t \in Callers,
             \/ \E i \in Backend .. MaxMade, r \in Requests : Begin(t, i, r)
             \/ FallBack(t) \/ Refuse(t) \/ Accept(t)
             \/ DriverFails(t) \/ Allocate(t) \/ Copy(t)
             \/ LaunchRaises(t) \/ LaunchCuda(t)
             \/ Download(t) \/ FreeBuffer(t)
      PROVE  AnswersInvariant'
  <2>1. ContentsOK' /\ AnswersOK'
    BY <1>3, BeginAnswers, LeaveAnswers, AcceptAnswers, DriverFailsAnswers, FillAnswers,
       LaunchAnswers, DownloadAnswers, FreeAnswers
  <2> QED
    BY <1>1, <2>1 DEF AnswersInvariant
<1>4. CASE UNCHANGED gpuVars
  <2>1. /\ \A i \in Backend .. made : plugin'[i].name = plugin[i].name
        /\ UNCHANGED <<gpuCall, memory, answers>>
    BY <1>4 DEF gpuVars, managerVars, callVars
  <2> QED
    BY <1>1, <2>1, ManagerAnswers DEF AnswersInvariant
<1> QED
  BY <1>2, <1>3, <1>4, Zenon DEF GpuNext

(* Whatever driver calls fail, whoever loads, unloads and shuts down       *)
(* plugins meanwhile, and however many threads call: what a call returns is *)
(* the reference result, with any block size, for vectors and matrices of  *)
(* any size, where nobody asks for a product of vectors (for which the CUDA *)
(* backend's templates have no kernel).  NVIDIA's and AMD's launches raise, *)
(* so that the answers are those of the backend's runner and _generate_ptx *)
(* (cuda_backend.py) and of the plugins' fallback to the CPU (gpu_*.py).   *)
THEOREM AnswersAlwaysRight ==
  ASSUME RequestsFit, \A r \in Requests : r.op # "vec_mul"
  PROVE  GpuSpec => []AnswersRight
<1>1. AnswersInvariant /\ [GpuNext]_gpuVars => AnswersInvariant'
  BY AnswersStep
<1>2. AnswersInvariant => AnswersRight
  BY DEF AnswersInvariant, AnswersOK, AnswersRight
<1> QED
  BY <1>1, <1>2, AnswersInitially, PTL DEF GpuSpec
=============================================================================
