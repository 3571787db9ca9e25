--------------------------------- MODULE Word ---------------------------------
(***************************************************************************)
(* Machine words and the bit helpers of common/, for bytes of any width.     *)
(* A word is four bytes and stands for the number it is when unsigned.       *)
(***************************************************************************)
EXTENDS Integers, Bitwise

CONSTANT ByteBits               \* 8 in the program

ASSUME WordAssumption == ByteBits \in Nat \ {0}

HalfBits == 2 * ByteBits
WordBits == 4 * ByteBits
Word == 0..(2^WordBits - 1)

Wrap(n) == n % 2^WordBits
Complement(w) == 2^WordBits - 1 - w

Negative(w) == w >= 2^(WordBits - 1)
Signed(w) == IF Negative(w) THEN w - 2^WordBits ELSE w

\* SignExtend<bits>, to a word.
SignExtend(n, bits) == IF n < 2^(bits - 1) THEN n ELSE Wrap(n - 2^bits)

ShiftLeft(w, n) == Wrap(w * 2^n)
ShiftRight(w, n) == w \div 2^n
ShiftRightSigned(w, n) == Wrap(Signed(w) \div 2^n)

Truth(p) == IF p THEN 1 ELSE 0
=============================================================================
