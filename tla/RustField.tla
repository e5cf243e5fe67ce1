----------------------------- MODULE RustField -----------------------------
(***************************************************************************)
(* The arithmetic of code/rust/src/field.rs, on machine words of two       *)
(* halves: B is 2^32 in the code, and the modulus keeps its shape.         *)
(***************************************************************************)
EXTENDS Integers

CONSTANT B  \* what half a word holds

ASSUME BaseAssumption == B \in Nat /\ B >= 2

Word == B * B
P == Word - B + 1
Epsilon == B - 1

Field == 0 .. P - 1
Words == 0 .. Word - 1

-----------------------------------------------------------------------------
(* Slips a maintainer could make in the definitions below. *)

UnsplitHigh(x) == 0

-----------------------------------------------------------------------------
RsAdd(a, b) == IF a + b >= P THEN a + b - P ELSE a + b

(* wrapping_add(P), then wrapping_sub(b), of 64-bit words. *)
RsSub(a, b) == IF a >= b THEN a - b ELSE (((a + P) % Word) - b) % Word

(* The four quarters of a product: lo is the lower half, hi_lo and hi_hi make the upper. *)
Lo(x) == x % Word
HiLo(x) == (x \div Word) % B
HiHi(x) == (x \div Word) \div B

Accumulated(x) == Lo(x) + HiLo(x) * Epsilon + (P - HiHi(x))

(* One round of "while acc >= P"; the loop is left after two at most. *)
Round(acc) == IF acc >= P THEN acc - P ELSE acc

Reduce128(x) == Round(Round(Accumulated(x)))

RsMul(a, b) == Reduce128(a * b)

=============================================================================
