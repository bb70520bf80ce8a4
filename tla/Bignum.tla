------------------------------ MODULE Bignum -------------------------------
(***************************************************************************)
(* The natural numbers of otherlibs/num: the operations on digits          *)
(* (bng_digit.c) and in the assembly language of processors that redefine   *)
(* them (bng_ppc.c, bng_sparc.c), the loops over digits in C (bng.c) and in *)
(* assembly language (bng_ia32.c, with and without SSE2, and bng_amd64.c),  *)
(* and the stubs (nat_stubs.c).  Alpha and Mips only have another BngMult,  *)
(* the same instruction as the PowerPC's.                                  *)
(*                                                                         *)
(* A number is a sequence of digits, least significant first.  A loop      *)
(* returns the digits a and the carry c.                                   *)
(***************************************************************************)
EXTENDS Integers, Sequences, Jobs

CONSTANTS
  HalfDigit,    \* BNG_BITS_PER_HALF_DIGIT: 16 or 32
  SomeDigits    \* the digits of the numbers computed with

ASSUME BignumAssumption == HalfDigit \in {2, 3} /\ SomeDigits \subseteq 0..(2^(2 * HalfDigit) - 1)

LOCAL SD == INSTANCE SequencesExt
LOCAL INSTANCE Bitwise

DigitBits == 2 * HalfDigit
Digit == 2^DigitBits
HalfMod == 2^HalfDigit

(***************************************************************************)
(* Digits: results are pairs of a digit and a carry.                       *)
(***************************************************************************)
LtBit(x, y) == IF x < y THEN 1 ELSE 0
BngAdd2(x, y) == LET t == (x + y) % Digit IN <<t, LtBit(t, x)>>
BngAdd2Carry(x, y, c) == LET t2 == (x + y) % Digit  t3 == (t2 + c) % Digit IN <<t3, LtBit(t2, x) + LtBit(t3, t2)>>
BngAdd3(accu, x, y, z) ==
  LET t2 == (x + y) % Digit  t3 == (t2 + z) % Digit IN <<t3, (accu + LtBit(t2, x) + LtBit(t3, t2)) % Digit>>
BngSub2(x, y) == <<(x - y) % Digit, LtBit(x, y)>>
BngSub2Carry(x, y, c) == LET t3 == (x - y) % Digit IN <<(t3 - c) % Digit, LtBit(x, y) + LtBit(t3, c)>>
BngSub3(accu, x, y, z) ==
  LET t4 == (x - y) % Digit IN <<(t4 - z) % Digit, (accu + LtBit(x, y) + LtBit(t4, z)) % Digit>>
BngLowHalf(d) == d % HalfMod
BngHighHalf(d) == d \div HalfMod

\* The low digit and the high digit of the product, by halves.
BngMult(x, y) ==
  LET p11 == BngLowHalf(x) * BngLowHalf(y)
      p12 == BngLowHalf(x) * BngHighHalf(y)
      p21 == BngHighHalf(x) * BngLowHalf(y)
      p22 == BngHighHalf(x) * BngHighHalf(y)
      resh == (p22 + BngHighHalf(p12) + BngHighHalf(p21)) % Digit
  IN BngAdd3(resh, p11, (p12 * HalfMod) % Digit, (p21 * HalfMod) % Digit)

(***************************************************************************)
(* The PowerPC.  The carry bit of a subtraction is 1 when there is no        *)
(* borrow.                                                                  *)
(***************************************************************************)
adde(x, y, ca) == <<(x + y + ca) % Digit, (x + y + ca) \div Digit>>
addze(x, ca) == adde(x, 0, ca)
subfe(y, x, ca) == adde((Digit - 1) - y, x, ca)
subfc(y, x) == subfe(y, x, 1)
neg(x) == (- x) % Digit
OwnCarry(ca) == neg(subfe(0, 0, ca)[1])         \* subfe %1, %1, %1; neg %1, %1
ppcAdd2(x, y) == LET t == adde(x, y, 0) IN <<t[1], addze(0, t[2])[1]>>
ppcAdd2Carry(x, y, c) == LET t == adde(x, y, adde(c, Digit - 1, 0)[2]) IN <<t[1], addze(0, t[2])[1]>>
ppcAdd3(accu, x, y, z) ==
  LET t == adde(x, y, 0)  u == adde(t[1], z, 0) IN <<u[1], addze(addze(accu, t[2])[1], u[2])[1]>>
ppcSub2(x, y) == LET t == subfc(y, x) IN <<t[1], OwnCarry(t[2])>>
ppcSub2Carry(x, y, c) == LET t == subfe(y, x, subfc(c, 0)[2]) IN <<t[1], OwnCarry(t[2])>>
ppcSub3(accu, x, y, z) ==
  LET t == subfc(y, x)  u == subfc(z, t[1]) IN <<u[1], subfc(addze(addze(neg(accu), t[2])[1], u[2])[1], 2)[1]>>
mulhu(x, y) == <<(x * y) % Digit, (x * y) \div Digit>>

(***************************************************************************)
(* The Sparc.  The carry bit of a subtraction is the borrow; a quotient      *)
(* that does not fit is the largest digit.                                  *)
(***************************************************************************)
subxcc(x, y, c) == <<(x - y - c) % Digit, IF x < y + c THEN 1 ELSE 0>>
sparcAdd2Carry(x, y, c) == adde(x, y, subxcc(0, c, 0)[2])
sparcAdd3(accu, x, y, z) == LET t == adde(x, y, 0)  u == adde(t[1], z, 0) IN <<u[1], (((accu + t[2]) % Digit) + u[2]) % Digit>>
sparcSub2Carry(x, y, c) == subxcc(x, y, subxcc(0, c, 0)[2])
sparcSub3(accu, x, y, z) == LET t == subxcc(x, y, 0)  u == subxcc(t[1], z, 0) IN <<u[1], (((accu + t[2]) % Digit) + u[2]) % Digit>>
sparcDiv(nh, nl, d) ==
  LET q == (nh * Digit + nl) \div d  quo == IF q >= Digit THEN Digit - 1 ELSE q IN <<quo, (nl - d * quo) % Digit>>

\* The operations on digits that the loops in C are compiled with.
Add2(arch, x, y) == CASE arch = "ppc" -> ppcAdd2(x, y) [] arch = "sparc" -> adde(x, y, 0) [] OTHER -> BngAdd2(x, y)
Add2Carry(arch, x, y, c) ==
  CASE arch = "ppc" -> ppcAdd2Carry(x, y, c) [] arch = "sparc" -> sparcAdd2Carry(x, y, c) [] OTHER -> BngAdd2Carry(x, y, c)
Add3(arch, accu, x, y, z) ==
  CASE arch = "ppc" -> ppcAdd3(accu, x, y, z) [] arch = "sparc" -> sparcAdd3(accu, x, y, z) [] OTHER -> BngAdd3(accu, x, y, z)
Sub2(arch, x, y) == CASE arch = "ppc" -> ppcSub2(x, y) [] arch = "sparc" -> subxcc(x, y, 0) [] OTHER -> BngSub2(x, y)
Sub2Carry(arch, x, y, c) ==
  CASE arch = "ppc" -> ppcSub2Carry(x, y, c) [] arch = "sparc" -> sparcSub2Carry(x, y, c) [] OTHER -> BngSub2Carry(x, y, c)
Sub3(arch, accu, x, y, z) ==
  CASE arch = "ppc" -> ppcSub3(accu, x, y, z) [] arch = "sparc" -> sparcSub3(accu, x, y, z) [] OTHER -> BngSub3(accu, x, y, z)
Mult(arch, x, y) == IF arch = "generic" THEN BngMult(x, y) ELSE mulhu(x, y)

\* The adjustment of an estimate q until nh:nl < 0:d.
RECURSIVE bng_adjust(_, _, _, _)
bng_adjust(nh, nl, d, q) ==
  IF nh # 0 \/ nl >= d THEN bng_adjust((nh - LtBit(nl, d)) % Digit, (nl - d) % Digit, d, (q + 1) % Digit) ELSE <<q, nl>>

\* A half digit of the quotient of n followed by the half digit next, and the remainder.
HalfQuotient(n, next, d) ==
  LET dl == BngLowHalf(d)
      dh == BngHighHalf(d)
      q == n \div (dh + 1)
      n1 == (n - q * dh) % Digit
      pl == (q * dl) % Digit
      nl == next + ((n1 * HalfMod) % Digit)
  IN bng_adjust((BngHighHalf(n1) - LtBit(nl, pl)) % Digit, (nl - pl) % Digit, d, q)

\* Quotient and remainder of nh:nl by d, in plain C.
bng_div_aux(nh, nl, d) ==
  LET top == HalfQuotient(nh, BngHighHalf(nl), d)
      low == HalfQuotient(top[2], BngLowHalf(nl), d)
  IN <<((top[1] * HalfMod) % Digit) + low[1], low[2]>>

\* The division instruction traps when the quotient does not fit.
Trap == -1
NeedsNormalization(arch) == arch \in {"generic", "ppc"}
BngDiv(arch, nh, nl, d) ==
  IF NeedsNormalization(arch) THEN bng_div_aux(nh, nl, d) ELSE IF arch = "sparc" THEN sparcDiv(nh, nl, d)
  ELSE IF nh >= d THEN <<Trap, Trap>> ELSE <<(nh * Digit + nl) \div d, (nh * Digit + nl) % d>>

(***************************************************************************)
(* Loops over digits.                                                      *)
(***************************************************************************)
Loop(a) == [a |-> a, c |-> 0]
Enter(a, c) == [a |-> a, c |-> c]

\* Digits from+1 ... from+n of a, each with the carry of the one before.
OverDigits(s, from, n, step(_, _, _)) ==
  SD!FoldLeft(LAMBDA z, i : LET r == step(z.a[from + i], i, z.c) IN Enter([z.a EXCEPT ![from + i] = r[1]], r[2]),
              s, [i \in 1..n |-> i])

\* if (carry == 0 || alen == 0) return carry; do { if (++( *a) != 0) return 0; ...
Propagate(s, from) == OverDigits(s, from, Len(s.a) - from, LAMBDA x, i, c : <<(x + c) % Digit, IF x + c = Digit THEN 1 ELSE 0>>)
Borrow(s, from) == OverDigits(s, from, Len(s.a) - from, LAMBDA x, i, c : <<(x - c) % Digit, IF x < c THEN 1 ELSE 0>>)

bng_generic_add_carry(a, carry) == Propagate(Enter(a, carry), 0)
bng_generic_sub_carry(a, carry) == Borrow(Enter(a, carry), 0)
bng_generic_add(arch, a, b, carry) ==
  Propagate(OverDigits(Enter(a, carry), 0, Len(b), LAMBDA x, i, c : Add2Carry(arch, x, b[i], c)), Len(b))
bng_generic_sub(arch, a, b, carry) ==
  Borrow(OverDigits(Enter(a, carry), 0, Len(b), LAMBDA x, i, c : Sub2Carry(arch, x, b[i], c)), Len(b))

bng_generic_shift_left(a, shift) ==
  IF shift = 0 THEN Loop(a)
  ELSE OverDigits(Loop(a), 0, Len(a), LAMBDA x, i, c : <<((x * 2^shift) % Digit) + c, x \div 2^(DigitBits - shift)>>)
bng_generic_shift_right(a, shift) ==
  IF shift = 0 THEN Loop(a)
  ELSE LET r == OverDigits(Loop(SD!Reverse(a)), 0, Len(a),
                           LAMBDA x, i, c : <<x \div 2^shift + c, (x * 2^(DigitBits - shift)) % Digit>>)
       IN [r EXCEPT !.a = SD!Reverse(@)]

\* After the product: the digit out goes to the next digit of a, its carry is propagated.
AddOut(arch, s, from) ==
  IF Len(s.a) = from THEN s
  ELSE LET r == Add2(arch, s.a[from + 1], s.c) IN Propagate(Enter([s.a EXCEPT ![from + 1] = r[1]], r[2]), from + 1)
SubOut(arch, s, from) ==
  IF Len(s.a) = from THEN s
  ELSE LET r == Sub2(arch, s.a[from + 1], s.c) IN Borrow(Enter([s.a EXCEPT ![from + 1] = r[1]], r[2]), from + 1)

bng_generic_mult_add_digit(arch, a, b, d) ==
  AddOut(arch, OverDigits(Loop(a), 0, Len(b), LAMBDA x, i, out : LET p == Mult(arch, b[i], d) IN Add3(arch, p[2], x, p[1], out)), Len(b))
bng_generic_mult_sub_digit(arch, a, b, d) ==
  SubOut(arch, OverDigits(Loop(a), 0, Len(b), LAMBDA x, i, out : LET p == Mult(arch, b[i], d) IN Sub3(arch, p[2], x, p[1], out)), Len(b))

\* The instructions: adc and sbb, mul, and the 64-bit operations of SSE2.
adc(x, y, c) == <<(x + y + c) % Digit, (x + y + c) \div Digit>>
sbb(x, y, c) == <<(x - y - c) % Digit, IF x < y + c THEN 1 ELSE 0>>
Quad(n) == n % (Digit * Digit)

bng_ia32_add(a, b, carry) ==
  Propagate(OverDigits(Enter(a, carry), 0, Len(b), LAMBDA x, i, c : adc(x, b[i], c)), Len(b))
bng_ia32_sub(a, b, carry) ==
  Borrow(OverDigits(Enter(a, carry), 0, Len(b), LAMBDA x, i, c : sbb(x, b[i], c)), Len(b))

\* mul; add the digit of a, adc 0; add out, adc 0.
MulAddAdc(x, y, d, out) ==
  LET p == y * d
      s1 == adc(p % Digit, x, 0)
      h1 == adc(p \div Digit, 0, s1[2])
      s2 == adc(s1[1], out, 0)
  IN <<s2[1], adc(h1[1], 0, s2[2])[1]>>
MulSubAdc(x, y, d, out) ==
  LET p == y * d
      s1 == sbb(x, p % Digit, 0)
      h1 == adc(p \div Digit, 0, s1[2])
      s2 == sbb(s1[1], out, 0)
  IN <<s2[1], adc(h1[1], 0, s2[2])[1]>>
bng_ia32_mult_add_digit(a, b, d) ==
  AddOut("ia32", OverDigits(Loop(a), 0, Len(b), LAMBDA x, i, out : MulAddAdc(x, b[i], d, out)), Len(b))
bng_ia32_mult_sub_digit(a, b, d) ==
  SubOut("ia32", OverDigits(Loop(a), 0, Len(b), LAMBDA x, i, out : MulSubAdc(x, b[i], d, out)), Len(b))

bng_amd64_add(a, b, carry) ==
  Propagate(OverDigits(Enter(a, carry), 0, Len(b), LAMBDA x, i, c : adc(x, b[i], c)), Len(b))
bng_amd64_sub(a, b, carry) ==
  Borrow(OverDigits(Enter(a, carry), 0, Len(b), LAMBDA x, i, c : sbb(x, b[i], c)), Len(b))
bng_amd64_mult_add_digit(a, b, d) ==
  AddOut("amd64", OverDigits(Loop(a), 0, Len(b), LAMBDA x, i, out : MulAddAdc(x, b[i], d, out)), Len(b))
bng_amd64_mult_sub_digit(a, b, d) ==
  SubOut("amd64", OverDigits(Loop(a), 0, Len(b), LAMBDA x, i, out : MulSubAdc(x, b[i], d, out)), Len(b))

\* The carry is the high half, or the sign bit, of a double digit.
bng_ia32sse2_add(a, b, carry) ==
  Propagate(OverDigits(Enter(a, carry), 0, Len(b),
                       LAMBDA x, i, c : LET mm0 == Quad(c + x + b[i]) IN <<mm0 % Digit, mm0 \div Digit>>), Len(b))
bng_ia32sse2_sub(a, b, carry) ==
  Borrow(OverDigits(Enter(a, carry), 0, Len(b),
                    LAMBDA x, i, c : LET mm1 == Quad(x - c - b[i]) IN <<mm1 % Digit, (2 * mm1) \div (Digit * Digit)>>), Len(b))
bng_ia32sse2_mult_add_digit(a, b, d) ==
  AddOut("ia32", OverDigits(Loop(a), 0, Len(b),
                    LAMBDA x, i, c : LET mm0 == Quad(c + x + b[i] * d) IN <<mm0 % Digit, mm0 \div Digit>>), Len(b))

\* A carry C is represented by ENC(C) = Digit - 1 - C, and the digits of a are biased.
bias1 == Quad((Digit - 1) * Digit - (Digit - 1))
bng_ia32sse2_mult_sub_digit(a, b, d) ==
  LET s == OverDigits(Enter(a, Digit - 1), 0, Len(b),
                      LAMBDA x, i, c : LET mm0 == Quad(c + (x + bias1 - b[i] * d)) IN <<mm0 % Digit, mm0 \div Digit>>)
  IN SubOut("ia32", [s EXCEPT !.c = Digit - 1 - @], Len(b))

(***************************************************************************)
(* bng_ops: the table of operations that the processor selects.            *)
(***************************************************************************)
bng_ia32_setup_ops(arch) ==
  CASE arch = "sse2" -> "ia32sse2" [] arch = "ia32" -> "ia32" [] arch = "amd64" -> "amd64" [] OTHER -> "generic"
bng_add(arch, a, b, c) ==
  LET t == bng_ia32_setup_ops(arch) IN
  CASE t = "ia32sse2" -> bng_ia32sse2_add(a, b, c) [] t = "ia32" -> bng_ia32_add(a, b, c)
    [] t = "amd64" -> bng_amd64_add(a, b, c) [] OTHER -> bng_generic_add(arch, a, b, c)
bng_sub(arch, a, b, c) ==
  LET t == bng_ia32_setup_ops(arch) IN
  CASE t = "ia32sse2" -> bng_ia32sse2_sub(a, b, c) [] t = "ia32" -> bng_ia32_sub(a, b, c)
    [] t = "amd64" -> bng_amd64_sub(a, b, c) [] OTHER -> bng_generic_sub(arch, a, b, c)
bng_mult_add_digit(arch, a, b, d) ==
  LET t == bng_ia32_setup_ops(arch) IN
  CASE t = "ia32sse2" -> bng_ia32sse2_mult_add_digit(a, b, d) [] t = "ia32" -> bng_ia32_mult_add_digit(a, b, d)
    [] t = "amd64" -> bng_amd64_mult_add_digit(a, b, d) [] OTHER -> bng_generic_mult_add_digit(arch, a, b, d)
bng_mult_sub_digit(arch, a, b, d) ==
  LET t == bng_ia32_setup_ops(arch) IN
  CASE t = "ia32sse2" -> bng_ia32sse2_mult_sub_digit(a, b, d) [] t = "ia32" -> bng_ia32_mult_sub_digit(a, b, d)
    [] t = "amd64" -> bng_amd64_mult_sub_digit(a, b, d) [] OTHER -> bng_generic_mult_sub_digit(arch, a, b, d)

\* An operation on {a + ofs, len}.
Window(a, ofs, len) == SubSeq(a, ofs + 1, ofs + len)
Put(a, ofs, w) == [i \in DOMAIN a |-> IF i > ofs /\ i <= ofs + Len(w) THEN w[i - ofs] ELSE a[i]]
From(a, ofs) == Window(a, ofs, Len(a) - ofs)

bng_generic_mult_add(arch, a, b, c) ==
  SD!FoldLeft(LAMBDA z, i : LET r == bng_mult_add_digit(arch, From(z.a, i - 1), b, c[i])
                            IN Enter(Put(z.a, i - 1, r.a), z.c + r.c),
              Loop(a), [i \in 1..Len(c) |-> i])

bng_generic_square_add(arch, a, b) ==
  LET doubled == SD!FoldLeft(LAMBDA z, i : LET r == bng_mult_add_digit(arch, From(z.a, 2 * i - 1), From(b, i), b[i])
                                           IN Enter(Put(z.a, 2 * i - 1, r.a), z.c + r.c),
                             Loop(a), [i \in 1..(Len(b) - 1) |-> i])
      shifted == bng_generic_shift_left(doubled.a, 1)
      squares == OverDigits(Loop(shifted.a), 0, 2 * Len(b),
                            LAMBDA x, i, c : LET p == Mult(arch, b[(i + 1) \div 2], b[(i + 1) \div 2])
                                             IN Add2Carry(arch, x, IF i % 2 = 1 THEN p[1] ELSE p[2], c))
      s == Propagate(squares, 2 * Len(b))
  IN Enter(s.a, 2 * doubled.c + shifted.c + s.c)

\* Leading zero bits: halves, then quarters.
bng_leading_zero_bits(d0) ==
  LET step(s, w) == IF s[2] \div 2^w > 0 THEN <<s[1] - w, s[2] \div 2^w>> ELSE s
      s == SD!FoldLeft(step, <<DigitBits, d0>>, <<4, 2, 1>>)
  IN s[1] - s[2]
bng_complement(a) == [i \in DOMAIN a |-> Digit - 1 - a[i]]
Significant(a) == {i \in DOMAIN a : a[i] # 0}
bng_num_digits(a) == IF Significant(a) = {} THEN 1 ELSE CHOOSE i \in Significant(a) : \A j \in Significant(a) : j <= i
bng_compare(a, b) ==
  LET strip(s) == IF Significant(s) = {} THEN <<>> ELSE SubSeq(s, 1, bng_num_digits(s))
      x == strip(a)  y == strip(b)
      D == {i \in 1..Len(x) : x[i] # y[i]} IN
  CASE Len(x) > Len(y) -> 1
    [] Len(x) < Len(y) -> -1
    [] OTHER -> IF D = {} THEN 0 ELSE LET i == CHOOSE i \in D : \A j \in D : j <= i IN IF x[i] > y[i] THEN 1 ELSE -1

(***************************************************************************)
(* Division.  The digits of the quotient replace those of the numerator;   *)
(* q, the quotient, b, the numerator, and c, the remainder, of a digit.     *)
(***************************************************************************)
bng_generic_div_rem_norm_digit(arch, b, d) ==
  SD!FoldLeft(LAMBDA z, i : LET r == BngDiv(arch, z.c, b[i], d) IN [z EXCEPT !.q = <<r[1]>> \o @, !.c = r[2]],
              [q |-> <<>>, b |-> b, c |-> b[Len(b)]], [k \in 1..(Len(b) - 1) |-> Len(b) - k])
bng_generic_div_rem_digit(arch, b, d) ==
  LET shift == bng_leading_zero_bits(d)
      s == bng_generic_shift_left(b, shift)
      r == bng_generic_div_rem_norm_digit(arch, s.a, d * 2^shift)
  IN [r EXCEPT !.b = bng_generic_shift_right(@, shift).a, !.c = @ \div 2^shift]
bng_div_rem_digit(arch, b, d) ==
  IF NeedsNormalization(arch) THEN bng_generic_div_rem_digit(arch, b, d) ELSE bng_generic_div_rem_norm_digit(arch, b, d)

\* A slip: one adjustment of the estimate of a quotient digit, where two may be needed.
bng_adjust_quotient_once(arch, n, d, i, j, quo) ==
  IF n[j] # 0 \/ bng_compare(Window(n, i, Len(d)), d) >= 0
  THEN LET r == bng_sub(arch, Window(n, i, Len(d)), d, 0) IN [Put(n, i, r.a) EXCEPT ![j] = quo + 1]
  ELSE [n EXCEPT ![j] = quo]

\* while (n[j] != 0 || bng_compare(n + i, dlen, d, dlen) >= 0) ...; n[j] = quo
RECURSIVE bng_adjust_quotient(_, _, _, _, _, _)
bng_adjust_quotient(arch, n, d, i, j, quo) ==
  IF n[j] # 0 \/ bng_compare(Window(n, i, Len(d)), d) >= 0
  THEN LET r == bng_sub(arch, Window(n, i, Len(d)), d, 0)
       IN bng_adjust_quotient(arch, [Put(n, i, r.a) EXCEPT ![j] = (n[j] - r.c) % Digit], d, i, j, (quo + 1) % Digit)
  ELSE [n EXCEPT ![j] = quo]

\* One digit of the quotient: the under-estimate, the subtraction, the adjustment.
bng_quotient_digit(arch, n, d, j) ==
  LET i == j - 1 - Len(d)
      topden == d[Len(d)]
      quo == IF topden + 1 = Digit THEN n[j] ELSE BngDiv(arch, n[j], n[j - 1], topden + 1)[1]
      r == bng_mult_sub_digit(arch, Window(n, i, Len(d)), d, quo)
  IN IF quo = Trap THEN n
     ELSE bng_adjust_quotient(arch, [Put(n, i, r.a) EXCEPT ![j] = (n[j] - r.c) % Digit], d, i, j, quo)

Unshifted(m, d, shift) ==
  [n |-> Put(m, 0, bng_generic_shift_right(Window(m, 0, Len(d)), shift).a),
   d |-> bng_generic_shift_right(d, shift).a]
bng_generic_div_rem(arch, n0, d0) ==
  LET shift == bng_leading_zero_bits(d0[Len(d0)])
      n == bng_generic_shift_left(n0, shift).a
      d == bng_generic_shift_left(d0, shift).a
      dlen == Len(d)
  IN Unshifted(IF dlen = 1 THEN LET r == bng_generic_div_rem_norm_digit(arch, n, d[1]) IN <<r.c>> \o r.q
               ELSE SD!FoldLeft(LAMBDA m, k : bng_quotient_digit(arch, m, d, k), n,
                                [k \in 1..(Len(n) - dlen) |-> Len(n) + 1 - k]),
               d, shift)

(***************************************************************************)
(* The stubs work on windows of blocks; a borrow is passed as 1 - borrow.  *)
(***************************************************************************)
Stub(nat, ofs, s) == Enter(Put(nat, ofs, s.a), s.c)
incr_nat(nat, ofs, len, c) == Stub(nat, ofs, bng_generic_add_carry(Window(nat, ofs, len), c))
decr_nat(nat, ofs, len, c) ==
  LET s == Stub(nat, ofs, bng_generic_sub_carry(Window(nat, ofs, len), 1 - c)) IN [s EXCEPT !.c = 1 - @]
add_nat_native(arch, nat, ofs, len, b, c) == Stub(nat, ofs, bng_add(arch, Window(nat, ofs, len), b, c))
sub_nat_native(arch, nat, ofs, len, b, c) ==
  LET s == Stub(nat, ofs, bng_sub(arch, Window(nat, ofs, len), b, 1 - c)) IN [s EXCEPT !.c = 1 - @]
mult_digit_nat_native(arch, nat, ofs, len, b, d) == Stub(nat, ofs, bng_mult_add_digit(arch, Window(nat, ofs, len), b, d))
mult_nat_native(arch, nat, ofs, len, b, c) == Stub(nat, ofs, bng_generic_mult_add(arch, Window(nat, ofs, len), b, c))
square_nat_native(arch, nat, ofs, len, b) == Stub(nat, ofs, bng_generic_square_add(arch, Window(nat, ofs, len), b))
\* What is shifted out goes to a digit of another number.
shift_left_nat_native(nat, ofs, len, nat2, ofs2, nbits) ==
  LET s == Stub(nat, ofs, bng_generic_shift_left(Window(nat, ofs, len), nbits)) IN <<s.a, Put(nat2, ofs2, <<s.c>>)>>
shift_right_nat_native(nat, ofs, len, nat2, ofs2, nbits) ==
  LET s == Stub(nat, ofs, bng_generic_shift_right(Window(nat, ofs, len), nbits)) IN <<s.a, Put(nat2, ofs2, <<s.c>>)>>
\* Quotient, remainder and numerator are three numbers.
div_digit_nat_native(arch, natq, ofsq, natr, ofsr, nat, ofs, len, d) ==
  LET r == bng_div_rem_digit(arch, Window(nat, ofs, len), d)
  IN <<Put(natq, ofsq, r.q), Put(natr, ofsr, <<r.c>>), Put(nat, ofs, r.b)>>
DivStub(nat, ofs, r) == [n |-> Put(nat, ofs, r.n), d |-> r.d]
div_nat_native(arch, nat, ofs, len, d) == DivStub(nat, ofs, bng_generic_div_rem(arch, Window(nat, ofs, len), d))
compare_nat_native(nat, ofs, len, b) == bng_compare(Window(nat, ofs, len), b)

\* Operations on whole windows and on one digit; a digit is an OCaml integer when it fits in one.
set_to_zero_nat(nat, ofs, len) == Put(nat, ofs, [i \in 1..len |-> 0])
blit_nat(nat1, ofs1, nat2, ofs2, len) == Put(nat1, ofs1, Window(nat2, ofs2, len))
complement_nat(nat, ofs, len) == Put(nat, ofs, bng_complement(Window(nat, ofs, len)))
num_digits_nat(nat, ofs, len) == bng_num_digits(Window(nat, ofs, len))
Max_long == 2^(DigitBits - 2) - 1
set_digit_nat(nat, ofs, n) == Put(nat, ofs, <<n % Digit>>)
nth_digit_nat(nat, ofs) == LET n == nat[ofs + 1] % 2^(DigitBits - 1) IN IF n > Max_long THEN n - 2^(DigitBits - 1) ELSE n
is_digit_int(nat, ofs) == nat[ofs + 1] <= Max_long
is_digit_zero(nat, ofs) == nat[ofs + 1] = 0
is_digit_normalized(nat, ofs) == nat[ofs + 1] & 2^(DigitBits - 1) # 0
is_digit_odd(nat, ofs) == nat[ofs + 1] & 1 # 0
compare_digits_nat(nat1, ofs1, nat2, ofs2) == LtBit(nat2[ofs2 + 1], nat1[ofs1 + 1]) - LtBit(nat1[ofs1 + 1], nat2[ofs2 + 1])
land_digit_nat(nat1, ofs1, nat2, ofs2) == Put(nat1, ofs1, <<nat1[ofs1 + 1] & nat2[ofs2 + 1]>>)
lor_digit_nat(nat1, ofs1, nat2, ofs2) == Put(nat1, ofs1, <<nat1[ofs1 + 1] | nat2[ofs2 + 1]>>)
lxor_digit_nat(nat1, ofs1, nat2, ofs2) == Put(nat1, ofs1, <<nat1[ofs1 + 1] ^^ nat2[ofs2 + 1]>>)

\* Memory and wire as 32-bit words, which are half digits on a 64-bit machine.
Memory(arch, words) ==
  IF arch.word = 4 THEN words
  ELSE LET n == (Len(words) + 1) \div 2
           w(i) == IF i <= Len(words) THEN words[i] ELSE 0
       IN [i \in 1..(2 * n) |-> IF arch.big = (i % 2 = 1) THEN w(2 * ((i + 1) \div 2)) ELSE w(2 * ((i + 1) \div 2) - 1)]
Swapped(words) == [i \in DOMAIN words |-> IF i % 2 = 1 THEN words[i + 1] ELSE words[i - 1]]
\* The wire has the number of words, then the words; a number of 2^32 words or more is refused.
serialize_nat(arch, memory) == <<Len(memory)>> \o (IF arch.word = 8 /\ arch.big THEN Swapped(memory) ELSE memory)
deserialize_nat(arch, wire) ==
  LET words == SubSeq(wire, 2, wire[1] + 1)
      padded == IF arch.word = 8 /\ wire[1] % 2 = 1 THEN Append(words, 0) ELSE words
  IN IF arch.word = 8 /\ arch.big THEN Swapped(padded) ELSE padded

(***************************************************************************)
(* The calls: nat has one digit more at each end than the window.          *)
(***************************************************************************)
Archs == {"generic", "ia32", "sse2", "amd64", "ppc", "sparc"}
Numbers1(n) == [1..n -> SomeDigits]
Framed(w) == <<5>> \o w \o <<6>>
Bound(w) == Digit^Len(w)
Machines == [word : {4, 8}, big : BOOLEAN]

BignumInit ==
  /\ res = <<>>
  /\ \/ \E arch \in Archs, a \in Numbers1(3) : job = [part |-> "bignum", arch |-> arch, a |-> a]
     \/ \E x \in 0..(Digit - 1) : job = [part |-> "digit", x |-> x]
     \/ \E n \in 1..5 : \E words \in [1..n -> {0, 3, 9}], w \in Machines :
          (w.word = 8 => n % 2 = 0) /\ job = [part |-> "wire", words |-> words, writer |-> w]

\* The operations whose requirements on the operands hold.
NatStep ==
  /\ job.part = "bignum" /\ res = <<>>
  /\ LET a == job.a  nat == Framed(a)  arch == job.arch
         B == Numbers1(2)  C == {0, 1}  D == SomeDigits
         divisors == {d \in B : a[3] < d[2]} \cup {d \in Numbers1(1) : a[3] < d[1]} IN
     res' = [add |-> [b \in B |-> [c \in C |-> add_nat_native(arch, nat, 1, 3, b, c)]],
             sub |-> [b \in B |-> [c \in C |-> sub_nat_native(arch, nat, 1, 3, b, c)]],
             madd |-> [b \in B |-> [d \in D |-> mult_digit_nat_native(arch, nat, 1, 3, b, d)]],
             mfull |-> [d \in D |-> mult_digit_nat_native(arch, nat, 1, 3, a, d)],
             msub |-> [b \in B |-> [d \in D |-> bng_mult_sub_digit(arch, a, b, d)]],
             mult |-> [b \in B |-> mult_nat_native(arch, Framed(a \o <<b[1]>>), 1, 4, SubSeq(a, 1, 2), b)],
             square |-> [b \in B |-> square_nat_native(arch, Framed(a \o <<b[2]>>), 1, 4, b)],
             square1 |-> [d \in D |-> square_nat_native(arch, nat, 1, 3, <<d>>)],
             left |-> [k \in 0..(DigitBits - 1) |-> shift_left_nat_native(nat, 1, 3, Framed(<<1>>), 1, k)],
             right |-> [k \in 0..(DigitBits - 1) |-> shift_right_nat_native(nat, 1, 3, Framed(<<1>>), 1, k)],
             incr |-> [c \in C |-> incr_nat(nat, 1, 3, c)], decr |-> [c \in C |-> decr_nat(nat, 1, 3, c)],
             compare |-> [b \in B |-> compare_nat_native(nat, 1, 3, b)],
             digits |-> num_digits_nat(nat, 1, 3), complement |-> complement_nat(nat, 1, 3),
             zero |-> set_to_zero_nat(nat, 1, 3), copy |-> blit_nat(Framed(<<0, 0, 0>>), 1, nat, 1, 3),
             divdigit |-> [d \in {x \in D : x > a[3]} |-> div_digit_nat_native(arch, Framed(<<0, 0>>), 1, Framed(<<0>>), 1, nat, 1, 3, d)],
             div |-> [d \in divisors |-> div_nat_native(arch, nat, 1, 3, d)]]
  /\ UNCHANGED job

DigitStep ==
  /\ job.part = "digit" /\ res = <<>>
  /\ LET D == 0..(Digit - 1)  x == job.x IN
     res' = [mult |-> [y \in D |-> BngMult(x, y)],
             add |-> [arch \in {"generic", "ppc", "sparc"} |-> [y \in D |-> [c \in {0, 1} |-> Add2Carry(arch, x, y, c)]]],
             sub |-> [arch \in {"generic", "ppc", "sparc"} |-> [y \in D |-> [c \in {0, 1} |-> Sub2Carry(arch, x, y, c)]]],
             int |-> is_digit_int(<<x>>, 0), again |-> set_digit_nat(<<0>>, 0, nth_digit_nat(<<x>>, 0))[1],
             flags |-> <<is_digit_zero(<<x>>, 0), is_digit_normalized(<<x>>, 0), is_digit_odd(<<x>>, 0)>>,
             compare |-> [y \in D |-> compare_digits_nat(<<x>>, 0, <<y>>, 0)],
             bits |-> [y \in D |-> <<land_digit_nat(<<x>>, 0, <<y>>, 0)[1], lor_digit_nat(<<x>>, 0, <<y>>, 0)[1], lxor_digit_nat(<<x>>, 0, <<y>>, 0)[1]>>],
             div |-> [y \in {d \in D : d > x} |-> [nl \in SomeDigits |-> bng_div_aux(x, nl, y)]],
             zeros |-> bng_leading_zero_bits(x)]
  /\ UNCHANGED job

WireStep ==
  /\ job.part = "wire" /\ res = <<>>
  /\ LET wire == serialize_nat(job.writer, Memory(job.writer, job.words))
     IN res' = [r \in Machines |-> deserialize_nat(r, wire)]
  /\ UNCHANGED job

BignumNext == NatStep \/ DigitStep \/ WireStep

(***************************************************************************)
(* Properties.                                                             *)
(***************************************************************************)
Value(a) == SD!FoldRight(LAMBDA d, v : d + Digit * v, a, 0)

\* A stub changes the digits of its window only.
InWindow(s, n) == Len(s) = n + 2 /\ s[1] = 5 /\ s[n + 2] = 6

\* bng.c, bng_digit.c, bng_ia32.c, bng_amd64.c, bng_ppc.c, bng_sparc.c, nat_stubs.c: for every processor, the digits of
\* the result and the carry out are the exact sum, difference, product, shift, quotient and
\* remainder, carries through a whole number included; no division instruction traps, the
\* estimates of quotient digits are corrected, divisor and numerator are given back unshifted, and
\* nothing outside the window of an operation changes.
OperationsExact ==
  LET a == job.a  v == Value(a)  m == Bound(a)
      is(s, n, x) == InWindow(s.a, n) /\ Value(Window(s.a, 1, n)) + s.c * Digit^n = x IN
  /\ \A b \in DOMAIN res.add, c \in {0, 1} :
       /\ is(res.add[b][c], 3, v + Value(b) + c)
       /\ is(res.sub[b][c], 3, m + v - Value(b) - (1 - c))
  /\ \A b \in DOMAIN res.madd, d \in SomeDigits :
       /\ is(res.madd[b][d], 3, v + d * Value(b))
       /\ Value(res.msub[b][d].a) - res.msub[b][d].c * m = v - d * Value(b)
  /\ \A d \in SomeDigits : is(res.mfull[d], 3, v + d * v) /\ is(res.square1[d], 3, 2 * v + d * d)
  /\ \A b \in DOMAIN res.mult :
       /\ is(res.mult[b], 4, Value(a \o <<b[1]>>) + Value(SubSeq(a, 1, 2)) * Value(b))
       /\ is(res.square[b], 4, 2 * Value(a \o <<b[2]>>) + Value(b) * Value(b))
  /\ \A k \in DOMAIN res.left :
       /\ \A s \in {res.left[k], res.right[k]} : InWindow(s[1], 3) /\ InWindow(s[2], 1)
       /\ Value(Window(res.left[k][1], 1, 3)) + res.left[k][2][2] * m = v * 2^k
       /\ Value(Window(res.right[k][1], 1, 3)) = v \div 2^k
       /\ k > 0 => res.right[k][2][2] = (v % 2^k) * 2^(DigitBits - k)
  /\ \A c \in {0, 1} : is(res.incr[c], 3, v + c) /\ is(res.decr[c], 3, m + v - (1 - c))
  /\ \A b \in DOMAIN res.compare : res.compare[b] = IF v > Value(b) THEN 1 ELSE IF v < Value(b) THEN -1 ELSE 0
  /\ Value(SubSeq(a, 1, res.digits)) = v /\ (res.digits > 1 => a[res.digits] # 0)
  /\ InWindow(res.complement, 3) /\ Value(Window(res.complement, 1, 3)) = m - 1 - v
  /\ InWindow(res.zero, 3) /\ Value(Window(res.zero, 1, 3)) = 0 /\ res.copy = Framed(a)
  /\ \A d \in DOMAIN res.divdigit :
       LET q == res.divdigit[d][1]  r == res.divdigit[d][2] IN
       /\ InWindow(q, 2) /\ InWindow(r, 1) /\ res.divdigit[d][3] = Framed(a)
       /\ Value(Window(q, 1, 2)) * d + r[2] = v /\ r[2] \in 0..(d - 1)
  /\ \A d \in DOMAIN res.div :
       LET r == res.div[d]  w == Window(r.n, 1, 3)
           quo == Value(From(w, Len(d)))  rem == Value(Window(w, 0, Len(d)))
       IN InWindow(r.n, 3) /\ r.d = d /\ rem < Value(d) /\ quo * Value(d) + rem = v

\* BngMult and bng_div_aux: half-digit arithmetic gives the exact product and quotient; the carries of
\* every processor are those of the exact sum and difference; a digit that is an OCaml integer survives
\* nth_digit_nat and set_digit_nat.
DigitsExact ==
  LET x == job.x IN
  /\ \A y \in DOMAIN res.mult : res.mult[y][1] + Digit * res.mult[y][2] = x * y
  /\ \A y \in DOMAIN res.div, nl \in SomeDigits :
       LET q == res.div[y][nl] IN q[1] * y + q[2] = x * Digit + nl /\ q[2] \in 0..(y - 1) /\ q[1] < Digit
  /\ \A arch \in DOMAIN res.add, y \in DOMAIN res.mult, c \in {0, 1} :
       /\ res.add[arch][y][c][1] + Digit * res.add[arch][y][c][2] = x + y + c
       /\ res.sub[arch][y][c][1] - Digit * res.sub[arch][y][c][2] = x - y - c
  /\ res.int => res.again = x
  /\ res.flags = <<x = 0, res.zeros = 0, x % 2 = 1>>
  /\ \A y \in DOMAIN res.bits :
       LET b == res.bits[y] IN b[1] + b[2] = x + y /\ b[2] - b[1] = b[3] /\ (b[3] = 0 <=> res.compare[y] = 0)
  /\ IF x = 0 THEN res.zeros = DigitBits ELSE 2^(DigitBits - res.zeros - 1) <= x /\ x < 2^(DigitBits - res.zeros)

\* serialize_nat, deserialize_nat: a number reads back as itself on every machine.
WireExact ==
  \A r \in Machines : LET words == job.words  padded == IF r.word = 8 /\ Len(words) % 2 = 1 THEN Append(words, 0) ELSE words
                      IN res[r] = Memory(r, padded)

\* The arithmetic of natural numbers is exact.
NaturalsExact ==
  res # <<>> =>
  /\ job.part = "bignum" => OperationsExact
  /\ job.part = "digit" => DigitsExact
  /\ job.part = "wire" => WireExact
=============================================================================
