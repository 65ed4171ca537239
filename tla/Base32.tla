------------------------------- MODULE Base32 -------------------------------
(***************************************************************************)
(* The base32 conversions that build_pyotp of otp.py and pyotp perform on  *)
(* a secret.  A base32 digit is its value 0..31, a byte its value 0..255;  *)
(* both codings read a sequence of values as one string of bits, most      *)
(* significant bit first.                                                  *)
(***************************************************************************)
EXTENDS Naturals, Sequences

\* Bit i, from the left, of a sequence of values of w bits; zero beyond its end.
BitOf(values, w, i) ==
    IF i >= w * Len(values) THEN 0
    ELSE (values[i \div w + 1] \div 2^(w - 1 - (i % w))) % 2

\* The number that a sequence of bits stands for.
NumberOf(bits) ==
    LET upTo[k \in 0..Len(bits)] == IF k = 0 THEN 0 ELSE 2 * upTo[k - 1] + bits[k]
    IN  upTo[Len(bits)]

\* The same bits cut into n values of v bits.
Regrouped(values, w, v, n) ==
    [j \in 1..n |-> NumberOf([k \in 1..v |-> BitOf(values, w, v * (j - 1) + k - 1)])]

\* base64.b32encode without the padding that rstrip("=") removes: the last
\* digit is filled with zero bits.
Encode(bytes) == Regrouped(bytes, 8, 5, (8 * Len(bytes) + 4) \div 5)

\* base64.b32decode, the padding supplied: bits short of a byte are dropped.
Decode(digits) == Regrouped(digits, 5, 8, (5 * Len(digits)) \div 8)

\* str.encode of the text of a secret: A-Z, 2-7 and the padding "=".
Ascii(digits, pad) ==
    [i \in 1..(Len(digits) + pad) |->
        IF i > Len(digits) THEN 61
        ELSE IF digits[i] < 26 THEN 65 + digits[i] ELSE 24 + digits[i]]
=============================================================================
