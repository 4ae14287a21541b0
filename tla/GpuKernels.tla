----------------------------- MODULE GpuKernels -----------------------------
(***************************************************************************)
(* The kernels the GPU plugins (src/uhcr/plugins/gpu_*.py) and the CUDA    *)
(* backend (src/uhcr/backends/cuda_backend.py) hand to their devices, in   *)
(* PTX, HIP or OpenCL, as functions of the device's memory.  A buffer is   *)
(* the sequence of its elements, integers for the floats; addresses begin  *)
(* at zero.  A thread that stays inside its guard is alone in writing its  *)
(* element, so the order of the threads does not matter.                   *)
(***************************************************************************)
EXTENDS Integers, Sequences, SequencesExt

CONSTANTS
  Block,    (* BLOCK, LOCAL_SIZE: the threads of a block                   *)
  Garbage   (* an element nobody has written, or beyond the end            *)

ASSUME KernelAssumption ==
  /\ Block \in Nat \ {0}
  /\ Garbage \in Int

At(buffer, address) ==
  IF address < Len(buffer) THEN buffer[address + 1] ELSE Garbage

(* buffer after each address in written has received value[address].       *)
Stored(buffer, written, value) ==
  [i \in DOMAIN buffer |-> IF i - 1 \in written THEN value[i - 1] ELSE buffer[i]]

Sum(numbers) == FoldLeft(LAMBDA x, y : x + y, 0, numbers)

(* Mutant: a last block that is not full is not launched.                  *)
FullBlocks(n) == n \div Block

Blocks(n) == (n + Block - 1) \div Block

(* blockIdx * blockDim + threadIdx, over the grid launched for n elements. *)
Threads(n) == 0 .. Blocks(n) * Block - 1

Combined(op, x, y) == IF op = "vec_add" THEN x + y ELSE x * y

(* vec_add_f32, vec_mul_f32, vadd_kernel.                                  *)
ElementKernel(op, a, b, c, n) ==
  Stored(c, {i \in Threads(n) : i < n},
         [i \in Threads(n) |-> Combined(op, At(a, i), At(b, i))])

(* matmul_f32 with m = n = k, and matmul_kernel, one thread an element.    *)
MatmulKernel(a, b, c, m, n, k) ==
  Stored(c, 0 .. m * n - 1,
         [address \in 0 .. m * n - 1 |->
            LET row == address \div n
                col == address % n
            IN  Sum([j \in 1 .. k |-> At(a, row * k + j - 1) * At(b, (j - 1) * n + col)])])

-----------------------------------------------------------------------------
(* What the kernels are meant to compute, of operands a and b: n elements, *)
(* or an m by k matrix times a k by n one.                                 *)
Reference(op, a, b, m, n, k) ==
  CASE op \in {"vec_add", "vec_mul"} -> [i \in 1 .. n |-> Combined(op, a[i], b[i])]
    [] op = "matmul" ->
         [i \in 1 .. m * n |->
            Sum([j \in 1 .. k |-> a[((i - 1) \div n) * k + j] * b[(j - 1) * n + ((i - 1) % n) + 1]])]
    [] op = "dot" -> <<Sum([i \in 1 .. n |-> a[i] * b[i]])>>
=============================================================================
