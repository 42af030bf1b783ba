------------------------------- MODULE Matrix -------------------------------
(***************************************************************************)
(* src/lib_src/matrix: a script describes a matrix by its rows, its        *)
(* columns and an array of its numbers, from which the matrix is built in  *)
(* memory.  The sizes come from the script, the arithmetic on them wraps.  *)
(***************************************************************************)
EXTENDS Integers

CONSTANTS
  MaxSize,    \* the greatest mln_size_t
  DoubleSize  \* sizeof(double)

ASSUME SizeAssumption ==
  MaxSize \in Nat \ {0} /\ DoubleSize \in Nat \ {0}

(* What a script can pass: a signed integer                                *)
Signed == -((MaxSize + 1) \div 2) .. MaxSize \div 2

Times(x, y) == (x * y) % (MaxSize + 1)

(* Defective: only the product of the bytes is looked at, when it may      *)
(* already have wrapped.                                                   *)
CheckedInBytes(row, col) ==
  row > 0 /\ col > 0 /\ Times(row, col) <= MaxSize \div DoubleSize

(* Neither the count of the numbers nor that of their bytes wraps.         *)
NoOverflow(row, col) ==
  /\ row > 0 /\ col > 0
  /\ row <= MaxSize \div col
  /\ Times(row, col) <= MaxSize \div DoubleSize

(* mln_lang_array2matrix accepts an array of n elements, all of them       *)
(* numbers and without holes.                                              *)
Accepts(row, col, n) == NoOverflow(row, col) /\ n = Times(row, col)

(* The bytes it allocates                                                  *)
Allocated(row, col) == Times(Times(row, col), DoubleSize)

(* What is accepted has as many numbers as the product of its sizes says,  *)
(* and they fit into the memory allocated for them.                        *)
MatrixFits(row, col, n) ==
  n = row * col /\ Allocated(row, col) = n * DoubleSize

=============================================================================
