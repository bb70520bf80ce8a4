------------------------------- MODULE Numbers -------------------------------
(***************************************************************************)
(* Boxed and native integers (byterun/ints.c), the emulation of 64-bit      *)
(* integers by pairs of words (byterun/int64_emul.h, int64_format.h), and   *)
(* the conversions from strings of ints.c and floats.c.  A word has         *)
(* 2 * HalfBits bits, 32 in the code; a pair of words has twice as many.    *)
(***************************************************************************)
EXTENDS Integers, Sequences, Jobs, Bitwise

CONSTANTS
  HalfBits,        \* 16: half a word, the digits of I64_mul
  Operands64,      \* the pairs of words the operations are applied to
  NumberStrings,   \* the strings to convert
  FormatWidths,    \* the widths of the formats
  ParseBuffer      \* 64: the buffer of caml_float_of_string

ASSUME NumbersAssumption == HalfBits \in Nat /\ HalfBits >= 3 /\ ParseBuffer \in Nat \ {0}

SN == INSTANCE SequencesExt

Bits == 2 * HalfBits
Base == 2^Bits
HalfBase == 2^HalfBits
U32(n) == n % Base                                      \* (uint32) n
I32(n) == IF U32(n) >= Base \div 2 THEN U32(n) - Base ELSE U32(n)    \* (int32) n
U64(n) == n % (Base * Base)
I64(n) == IF U64(n) >= (Base * Base) \div 2 THEN U64(n) - Base * Base ELSE U64(n)
shl(n, s) == U32(n * 2^s)
shr(n, s) == n \div 2^s                                 \* arithmetic on a signed n

\* A 64-bit integer is a high and a low word, both unsigned.
Pair(h, l) == [h |-> h, l |-> l]
PairOf(n) == Pair((n \div Base) % Base, n % Base)
ValueOf(x) == x.h * Base + x.l

Compared(a, b) == IF a > b THEN 1 ELSE IF a < b THEN -1 ELSE 0

I64_ucompare(x, y) == IF x.h # y.h THEN Compared(x.h, y.h) ELSE Compared(x.l, y.l)
I64_compare(x, y) == IF x.h # y.h THEN Compared(I32(x.h), I32(y.h)) ELSE Compared(x.l, y.l)

I64_neg(x) == LET l == U32(-x.l)  h == Base - 1 - x.h
              IN Pair(IF l = 0 THEN U32(h + 1) ELSE h, l)

I64_add(x, y) == LET l == U32(x.l + y.l)
                 IN Pair(U32(x.h + y.h + (IF l < x.l THEN 1 ELSE 0)), l)

I64_sub(x, y) == Pair(U32(x.h - y.h - (IF x.l < y.l THEN 1 ELSE 0)), U32(x.l - y.l))

\* Four products of half words; a carry when an addition of a shifted one wraps around.
I64_mul(x, y) ==
  LET lo(n) == n % HalfBase  hi(n) == n \div HalfBase
      prod00 == lo(x.l) * lo(y.l)   prod10 == hi(x.l) * lo(y.l)
      prod01 == lo(x.l) * hi(y.l)   prod11 == hi(x.l) * hi(y.l)
      s01 == shl(prod01, HalfBits)  s10 == shl(prod10, HalfBits)
      l1 == U32(prod00 + s01)       l2 == U32(l1 + s10)
      carry == (IF l1 < s01 THEN 1 ELSE 0) + (IF l2 < s10 THEN 1 ELSE 0)
  IN Pair(U32(prod11 + hi(prod01) + hi(prod10) + carry + x.l * y.h + x.h * y.l), l2)

I64_is_zero(x) == x.l = 0 /\ x.h = 0
I64_is_min_int(x) == x.l = 0 /\ x.h = Base \div 2
I64_is_minus_one(x) == (x.l & x.h) = Base - 1

I64_and(x, y) == Pair(x.h & y.h, x.l & y.l)
I64_or(x, y) == Pair(x.h | y.h, x.l | y.l)
I64_xor(x, y) == Pair(x.h ^^ y.h, x.l ^^ y.l)

I64_lsl(x, s0) ==
  LET s == s0 % (2 * Bits) IN
  CASE s = 0 -> x
    [] 0 < s /\ s < Bits -> Pair(shl(x.h, s) | shr(x.l, Bits - s), shl(x.l, s))
    [] OTHER -> Pair(shl(x.l, s - Bits), 0)

I64_lsr(x, s0) ==
  LET s == s0 % (2 * Bits) IN
  CASE s = 0 -> x
    [] 0 < s /\ s < Bits -> Pair(shr(x.h, s), shr(x.l, s) | shl(x.h, Bits - s))
    [] OTHER -> Pair(0, shr(x.h, s - Bits))

I64_asr(x, s0) ==
  LET s == s0 % (2 * Bits) IN
  CASE s = 0 -> x
    [] 0 < s /\ s < Bits -> Pair(U32(shr(I32(x.h), s)), shr(x.l, s) | shl(x.h, Bits - s))
    [] OTHER -> Pair(U32(shr(I32(x.h), Bits - 1)), U32(shr(I32(x.h), s - Bits)))

I64_SHL1(x) == Pair(shl(x.h, 1) | shr(x.l, Bits - 1), shl(x.l, 1))
I64_SHR1(x) == Pair(shr(x.h, 1), shr(x.l, 1) | shl(x.h, Bits - 1))

\* Align the divisor with the modulus, then subtract and shift back.  The loop that aligns
\* stops when the divisor would lose its top bit, or once it has passed the modulus.
RECURSIVE Aligned(_, _, _)
Aligned(modulus, divisor, mask) ==
  IF I32(divisor.h) < 0 THEN [divisor |-> divisor, mask |-> mask]
  ELSE LET d == I64_SHL1(divisor)  m == I64_SHL1(mask) IN
       IF I64_ucompare(divisor, modulus) >= 0 THEN [divisor |-> d, mask |-> m]
       ELSE Aligned(modulus, d, m)

RECURSIVE Subtracted(_, _, _, _)
Subtracted(modulus, divisor, mask, quotient) ==
  IF I64_is_zero(mask) THEN [quo |-> quotient, mod |-> modulus]
  ELSE LET fits == I64_ucompare(modulus, divisor) >= 0
       IN Subtracted(IF fits THEN I64_sub(modulus, divisor) ELSE modulus,
                     I64_SHR1(divisor), I64_SHR1(mask),
                     IF fits THEN I64_or(quotient, mask) ELSE quotient)

I64_udivmod(modulus, divisor) ==
  LET a == Aligned(modulus, divisor, Pair(0, 1))
  IN Subtracted(modulus, a.divisor, a.mask, Pair(0, 0))

Absolute(x) == IF I32(x.h) < 0 THEN I64_neg(x) ELSE x
I64_div(x, y) ==
  LET q == I64_udivmod(Absolute(x), Absolute(y)).quo
  IN IF I32(x.h ^^ y.h) < 0 THEN I64_neg(q) ELSE q
I64_mod(x, y) ==
  LET r == I64_udivmod(Absolute(x), Absolute(y)).mod
  IN IF I32(x.h) < 0 THEN I64_neg(r) ELSE r

I64_of_int32(n) == Pair(U32(shr(n, Bits - 1)), U32(n))
I64_to_int32(x) == I32(x.l)

(***************************************************************************)
(* The primitives on Int64.t, Int32.t and Nativeint.t.  A division by zero  *)
(* is an exception; the one that overflows is answered without dividing.    *)
(***************************************************************************)
Division_by_zero == [exn |-> TRUE, v |-> 0]
Returns(n) == [exn |-> FALSE, v |-> n]

caml_int64_div(x, y) ==
  IF I64_is_zero(y) THEN Division_by_zero
  ELSE IF I64_is_min_int(x) /\ I64_is_minus_one(y) THEN Returns(ValueOf(x))
  ELSE Returns(ValueOf(I64_div(x, y)))
caml_int64_mod(x, y) ==
  IF I64_is_zero(y) THEN Division_by_zero
  ELSE IF I64_is_min_int(x) /\ I64_is_minus_one(y) THEN Returns(0)
  ELSE Returns(ValueOf(I64_mod(x, y)))

caml_int64_op(op, x, y) ==
  CASE op = "neg" -> Returns(ValueOf(I64_neg(x)))
    [] op = "add" -> Returns(ValueOf(I64_add(x, y)))
    [] op = "sub" -> Returns(ValueOf(I64_sub(x, y)))
    [] op = "mul" -> Returns(ValueOf(I64_mul(x, y)))
    [] op = "div" -> caml_int64_div(x, y)
    [] op = "mod" -> caml_int64_mod(x, y)
    [] op = "and" -> Returns(ValueOf(I64_and(x, y)))
    [] op = "or" -> Returns(ValueOf(I64_or(x, y)))
    [] op = "xor" -> Returns(ValueOf(I64_xor(x, y)))
caml_int64_shift(op, x, s) ==
  ValueOf(CASE op = "lsl" -> I64_lsl(x, s) [] op = "lsr" -> I64_lsr(x, s) [] op = "asr" -> I64_asr(x, s))

\* Where the processor does not divide as the C standard now requires.
caml_safe_div(p, q) ==
  LET abs(n) == IF n >= 0 THEN n ELSE -n
      ar == abs(p) \div abs(q)
  IN IF (p >= 0) = (q >= 0) THEN ar ELSE -ar
caml_safe_mod(p, q) ==
  LET abs(n) == IF n >= 0 THEN n ELSE -n
      ar == abs(p) % abs(q)
  IN IF p >= 0 THEN ar ELSE -ar

caml_int32_div(a, b) ==
  IF b = 0 THEN Division_by_zero
  ELSE IF a = -(Base \div 2) /\ b = -1 THEN Returns(a) ELSE Returns(I32(caml_safe_div(a, b)))
caml_int32_mod(a, b) ==
  IF b = 0 THEN Division_by_zero
  ELSE IF a = -(Base \div 2) /\ b = -1 THEN Returns(0) ELSE Returns(I32(caml_safe_mod(a, b)))

\* The operations of Int32.t; those of Nativeint.t are the same on their own width.
caml_int32_op(op, a, b) ==
  CASE op = "neg" -> Returns(I32(-a))
    [] op = "add" -> Returns(I32(a + b))
    [] op = "sub" -> Returns(I32(a - b))
    [] op = "mul" -> Returns(I32(a * b))
    [] op = "div" -> caml_int32_div(a, b)
    [] op = "mod" -> caml_int32_mod(a, b)
    [] op = "and" -> Returns(I32(U32(a) & U32(b)))
    [] op = "or" -> Returns(I32(U32(a) | U32(b)))
    [] op = "xor" -> Returns(I32(U32(a) ^^ U32(b)))
caml_nativeint_op(op, a, b) == caml_int32_op(op, a, b)
caml_int32_shift(op, a, s) ==
  CASE op = "lsl" -> I32(a * 2^s) [] op = "asr" -> I32(shr(a, s)) [] op = "lsr" -> I32(shr(U32(a), s))
caml_nativeint_shift(op, a, s) == caml_int32_shift(op, a, s)

(***************************************************************************)
(* Strings to integers.  A string is a sequence of characters; reading past *)
(* its end finds the null character.                                       *)
(***************************************************************************)
At(str, p) == IF p <= Len(str) THEN str[p] ELSE "nul"

DigitChars == <<"0", "1", "2", "3", "4", "5", "6", "7", "8", "9", "a", "b", "c", "d", "e", "f">>
parse_digit(c) == IF \E i \in 1..16 : DigitChars[i] = c THEN (CHOOSE i \in 1..16 : DigitChars[i] = c) - 1 ELSE -1

parse_sign_and_base(str) ==
  LET p == IF At(str, 1) = "-" THEN 2 ELSE 1
      prefixes == [x |-> 16, o |-> 8, b |-> 2]
      prefixed == At(str, p) = "0" /\ At(str, p + 1) \in DOMAIN prefixes
  IN [p |-> IF prefixed THEN p + 2 ELSE p, base |-> IF prefixed THEN prefixes[At(str, p + 1)] ELSE 10,
      sign |-> IF p = 2 THEN -1 ELSE 1]

int_of_string_failure == [exn |-> TRUE, v |-> 0]

\* The digits from p on, in unsigned arithmetic modulo max + 1, with the two tests of
\* overflow: of the product before it is made, of the sum after.
RECURSIVE ParseDigits(_, _, _, _, _)
ParseDigits(str, p, base, res0, max) ==
  LET c == At(str, p)  d == parse_digit(c)  sum == (base * res0 + d) % (max + 1) IN
  CASE c = "_" -> ParseDigits(str, p + 1, base, res0, max)
    [] c # "_" /\ (d < 0 \/ d >= base) -> [exn |-> p # Len(str) + 1, v |-> res0]
    [] OTHER -> IF res0 > max \div base \/ sum < d THEN int_of_string_failure
                ELSE ParseDigits(str, p + 1, base, sum, max)

\* What parse_sign_and_base left in h, the first digit and the value of the digits.
CheckedInt(h, d, r, nbits, ubits) ==
  LET limit == 2^(nbits - 1) IN
  IF d < 0 \/ d >= h.base \/ r.exn THEN int_of_string_failure
  ELSE IF h.base = 10 /\ (IF h.sign >= 0 THEN r.v >= limit ELSE r.v > limit) THEN int_of_string_failure
  ELSE IF h.base # 10 /\ nbits < ubits /\ r.v >= 2^nbits THEN int_of_string_failure
  ELSE Returns(IF h.sign < 0 THEN -r.v ELSE r.v)
ParsedAfter(str, h, d, nbits, ubits) ==
  CheckedInt(h, d, ParseDigits(str, h.p + 1, h.base, d, 2^ubits - 1), nbits, ubits)
FirstDigit(str, h) == parse_digit(At(str, h.p))
\* nbits: the width of the type; ubits: of uintnat, in which the digits are read.
parse_intnat(str, nbits, ubits) ==
  LET h == parse_sign_and_base(str) IN ParsedAfter(str, h, FirstDigit(str, h), nbits, ubits)

\* Long_val(Val_long(n)): the shift that makes room for the tag loses the top bit.
Tagged(n) == LET u == n % 2^(Bits - 1) IN IF u >= 2^(Bits - 2) THEN u - 2^(Bits - 1) ELSE u
caml_int_of_string(str) ==
  LET r == parse_intnat(str, Bits - 1, Bits) IN IF r.exn THEN r ELSE Returns(Tagged(r.v))
AsInt32(r) == IF r.exn THEN r ELSE Returns(I32(r.v))
caml_int32_of_string(str, ubits) == AsInt32(parse_intnat(str, Bits, ubits))
caml_nativeint_of_string(str) == AsInt32(parse_intnat(str, Bits, Bits))

\* The same on pairs of words.
RECURSIVE ParsePairs(_, _, _, _, _)
ParsePairs(str, p, base, x, threshold) ==
  LET c == At(str, p)  d == parse_digit(c)
      sum == I64_add(I64_mul(I64_of_int32(base), x), I64_of_int32(d)) IN
  CASE c = "_" -> ParsePairs(str, p + 1, base, x, threshold)
    [] c # "_" /\ (d < 0 \/ d >= base) -> [exn |-> p # Len(str) + 1, x |-> x]
    [] OTHER -> IF I64_ucompare(threshold, x) < 0 \/ I64_ucompare(sum, I64_of_int32(d)) < 0
                THEN [exn |-> TRUE, x |-> x]
                ELSE ParsePairs(str, p + 1, base, sum, threshold)

CheckedInt64(h, d, r, limit) ==
  IF d < 0 \/ d >= h.base \/ r.exn THEN int_of_string_failure
  ELSE IF h.base = 10 /\ I64_ucompare(limit, r.x) < 0 THEN int_of_string_failure
  ELSE Returns(I64(ValueOf(IF h.sign < 0 THEN I64_neg(r.x) ELSE r.x)))
ParsedAfter64(str, h, d) ==
  CheckedInt64(h, d, ParsePairs(str, h.p + 1, h.base, I64_of_int32(d), I64_udivmod(Pair(Base - 1, Base - 1), I64_of_int32(h.base)).quo),
               IF h.sign >= 0 THEN Pair(Base \div 2 - 1, Base - 1) ELSE Pair(Base \div 2, 0))
caml_int64_of_string(str) ==
  LET h == parse_sign_and_base(str) IN ParsedAfter64(str, h, FirstDigit(str, h))

\* Underscores are dropped while the text is copied to a buffer, on the stack when it is
\* short; what is copied is given to strtod, which must use all of it.  used: the bytes of
\* the buffer that are written, the final null included.
Copied(text, len) ==
  [text |-> text, used |-> Len(text) + 1, size |-> IF len < ParseBuffer THEN ParseBuffer ELSE len + 1, exn |-> text = <<>>]
caml_float_of_substring(str, fidx, flen) ==
  LET len == IF fidx >= 0 /\ fidx < Len(str) /\ flen > 0 /\ flen <= Len(str) - fidx THEN flen ELSE 0
  IN Copied(SelectSeq(SubSeq(str, fidx + 1, fidx + len), LAMBDA c : c # "_"), len)
caml_float_of_string(str) == Copied(SelectSeq(str, LAMBDA c : c # "_"), Len(str))

(***************************************************************************)
(* I64_format: a flag record stands for the parsed format.                  *)
(***************************************************************************)
RECURSIVE RawDigits(_, _)
DigitsBefore(dm, base) ==
  (IF I64_is_zero(dm.quo) THEN <<>> ELSE RawDigits(dm.quo, base)) \o <<DigitChars[I64_to_int32(dm.mod) + 1]>>
RawDigits(x, base) == DigitsBefore(I64_udivmod(x, I64_of_int32(base)), base)

Repeat(c, n) == [i \in 1..n |-> c]
Laid(fmt, sign, prefix, raw) ==
  LET rawlen == Len(raw) + Len(sign) + Len(prefix)
      pad(c) == Repeat(c, IF rawlen < fmt.width THEN fmt.width - rawlen ELSE 0)
  IN (IF fmt.justify = "+" /\ fmt.filler = " " THEN pad(" ") ELSE <<>>)
       \o sign \o prefix
       \o (IF fmt.justify = "+" /\ fmt.filler = "0" THEN pad("0") ELSE <<>>)
       \o raw
       \o (IF fmt.justify = "-" THEN pad(" ") ELSE <<>>)
I64_format(fmt, x) ==
  LET negative == fmt.signedconv /\ I32(x.h) < 0 IN
  Laid(fmt, IF negative THEN <<"-">> ELSE IF fmt.signedconv /\ fmt.signstyle # "-" THEN <<fmt.signstyle>> ELSE <<>>,
       IF ~fmt.alternate \/ fmt.base = 10 THEN <<>> ELSE IF fmt.base = 8 THEN <<"0">> ELSE <<"0", "x">>,
       RawDigits(IF negative THEN I64_neg(x) ELSE x, fmt.base))

Formats == [justify : {"+", "-"}, signstyle : {"-", "+", " "}, filler : {" ", "0"}, alternate : BOOLEAN,
            base : {10}, signedconv : BOOLEAN, width : FormatWidths]
           \cup [justify : {"+", "-"}, signstyle : {"-"}, filler : {" ", "0"}, alternate : BOOLEAN,
                 base : {8, 16}, signedconv : {FALSE}, width : FormatWidths]

(***************************************************************************)
(* The jobs: a first operand against every second one;  a string; a value   *)
(* in every format.                                                        *)
(***************************************************************************)
Operations == {"neg", "add", "sub", "mul", "div", "mod", "and", "or", "xor"}
Shifts == {"lsl", "lsr", "asr"}
All32 == -(Base \div 2)..(Base \div 2 - 1)

NumbersInit ==
  /\ job \in {[part |-> "int64", x |-> n, str |-> <<>>] : n \in Operands64}
             \cup {[part |-> "int32", x |-> n, str |-> <<>>] : n \in All32}
             \cup {[part |-> "format", x |-> n, str |-> <<>>] : n \in Operands64}
             \cup {[part |-> "string", x |-> 0, str |-> str] : str \in NumberStrings}
  /\ res = <<>>

Int64Step ==
  /\ job.part = "int64" /\ res = <<>>
  /\ LET x == PairOf(job.x) IN
     res' = [op |-> [o \in Operations |-> [n \in Operands64 |-> caml_int64_op(o, x, PairOf(n))]],
             shift |-> [o \in Shifts |-> [n \in 0..(2 * Bits - 1) |-> caml_int64_shift(o, x, n)]],
             compare |-> [n \in Operands64 |-> I64_compare(x, PairOf(n))],
             to_int32 |-> I64_to_int32(x)]
  /\ UNCHANGED job

Int32Step ==
  /\ job.part = "int32" /\ res = <<>>
  /\ res' = [op |-> [o \in Operations |-> [n \in All32 |-> caml_nativeint_op(o, job.x, n)]],
             shift |-> [o \in Shifts |-> [n \in 0..(Bits - 1) |-> caml_nativeint_shift(o, job.x, n)]],
             to_int64 |-> ValueOf(I64_of_int32(job.x))]
  /\ UNCHANGED job

FormatStep ==
  /\ job.part = "format" /\ res = <<>>
  /\ res' = [fmt \in Formats |-> I64_format(fmt, PairOf(job.x))]
  /\ UNCHANGED job

StringStep ==
  /\ job.part = "string" /\ res = <<>>
  /\ res' = [int |-> caml_int_of_string(job.str),
             int32 |-> [u \in {Bits, 2 * Bits} |-> caml_int32_of_string(job.str, u)],
             nativeint |-> caml_nativeint_of_string(job.str),
             int64 |-> caml_int64_of_string(job.str),
             float |-> caml_float_of_string(job.str),
             sub |-> [w \in (-1..Len(job.str)) \X (-1..(Len(job.str) + 1)) |->
                        caml_float_of_substring(job.str, w[1], w[2])]]
  /\ UNCHANGED job

NumbersNext == Int64Step \/ Int32Step \/ FormatStep \/ StringStep

(***************************************************************************)
(* The reference: arithmetic on the integers, reduced to the width.         *)
(***************************************************************************)
\* Division rounds towards zero, the remainder has the sign of the dividend.
Exact(op, a, b, wrap(_)) ==
  LET abs(n) == IF n < 0 THEN -n ELSE n
      q == (abs(a) \div abs(b)) * (IF (a < 0) = (b < 0) THEN 1 ELSE -1) IN
  CASE op = "neg" -> Returns(wrap(-a))
    [] op = "add" -> Returns(wrap(a + b))
    [] op = "sub" -> Returns(wrap(a - b))
    [] op = "mul" -> Returns(wrap(a * b))
    [] op = "div" -> IF b = 0 THEN Division_by_zero ELSE Returns(wrap(q))
    [] op = "mod" -> IF b = 0 THEN Division_by_zero ELSE Returns(wrap(a - b * q))

\* int64_emul.h, ints.c: for all operands the operations on pairs of words, and those on one
\* word, compute the result on the integers modulo the width, the quotient and remainder
\* rounded towards zero; the least integer divided by -1 gives itself; shifts multiply or
\* divide by a power of two; comparison is that of the signed values.
ArithmeticExact ==
  res # <<>> =>
  /\ job.part = "int64" =>
       LET a == I64(job.x) IN
       /\ \A n \in Operands64 : /\ res.compare[n] = Compared(a, I64(n))
                           /\ \A o \in Operations \ {"and", "or", "xor"} :
                                res.op[o][n] = Exact(o, a, I64(n), U64)
                           \* x + y = 2 (x & y) + (x ^ y) and so on
                           /\ U64(2 * res.op["and"][n].v + res.op["xor"][n].v) = U64(job.x + n)
                           /\ res.op["or"][n].v = res.op["and"][n].v + res.op["xor"][n].v
       /\ \A n \in 0..(2 * Bits - 1) :
            /\ res.shift["lsl"][n] = U64(job.x * 2^n)
            /\ res.shift["lsr"][n] = job.x \div 2^n
            /\ res.shift["asr"][n] = U64(a \div 2^n)
       /\ res.to_int32 = I32(job.x)
  /\ job.part = "int32" =>
       LET a == job.x IN
       /\ \A n \in All32 : \A o \in Operations \ {"and", "or", "xor"} : res.op[o][n] = Exact(o, a, n, I32)
       /\ \A n \in 0..(Bits - 1) :
            /\ res.shift["lsl"][n] = I32(a * 2^n)
            /\ res.shift["lsr"][n] = I32(U32(a) \div 2^n)
            /\ res.shift["asr"][n] = a \div 2^n
       /\ I64(res.to_int64) = a

\* The integer literals: an optional sign, an optional base, a digit, digits and underscores.
LiteralStart(str) == LET p == IF At(str, 1) = "-" THEN 2 ELSE 1
                     IN IF At(str, p) = "0" /\ At(str, p + 1) \in {"x", "o", "b"} THEN p + 2 ELSE p
LiteralBase(str) == LET p == LiteralStart(str) IN
                    IF p <= 2 THEN 10 ELSE CASE str[p - 1] = "x" -> 16 [] str[p - 1] = "o" -> 8 [] str[p - 1] = "b" -> 2
IsLiteral(str) ==
  LET p == LiteralStart(str)  ok(c) == \E i \in 1..LiteralBase(str) : DigitChars[i] = c
  IN p <= Len(str) /\ ok(str[p]) /\ \A i \in p..Len(str) : str[i] = "_" \/ ok(str[i])
LiteralValue(str) ==
  LET digits == SelectSeq(SubSeq(str, LiteralStart(str), Len(str)), LAMBDA c : c # "_")
      value(a, c) == IF a > 10000000 THEN a ELSE a * LiteralBase(str) + parse_digit(c)
  IN SN!FoldLeft(value, 0, digits)
Expected(str, nbits, wrap(_)) ==
  LET v == LiteralValue(str)  neg == str[1] = "-"
      max == IF LiteralBase(str) # 10 THEN 2^nbits - 1 ELSE IF neg THEN 2^(nbits - 1) ELSE 2^(nbits - 1) - 1
  IN IF ~IsLiteral(str) \/ v > max THEN int_of_string_failure ELSE Returns(wrap(IF neg THEN -v ELSE v))

\* parse_intnat, caml_int64_of_string: a string is accepted exactly when it is a literal whose
\* value the type holds, signed in decimal and unsigned in the other bases, whatever the
\* width of the words in which the digits are accumulated; no overflow goes unnoticed.  The upper
\* half of what the other bases accept reads as negative, also for int (ints.c, Val_long), where
\* pervasives.mli promises Failure for what exceeds the range of int.
\* caml_float_of_string, caml_float_of_substring: the copy without underscores fits the buffer.
LiteralsExact ==
  res # <<>> /\ job.part = "string" =>
  /\ res.int = Expected(job.str, Bits - 1, Tagged)
  /\ \A u \in {Bits, 2 * Bits} : res.int32[u] = Expected(job.str, Bits, I32)
  /\ res.nativeint = Expected(job.str, Bits, I32)
  /\ res.int64 = Expected(job.str, 2 * Bits, I64)
  /\ res.float.used <= res.float.size
  /\ \A w \in DOMAIN res.sub :
       /\ res.sub[w].used <= res.sub[w].size
       /\ ~res.sub[w].exn => w[1] >= 0 /\ w[2] > 0 /\ w[1] + w[2] <= Len(job.str)

\* I64_format: the text is as wide as the format asks, or as the number needs; its digits
\* denote the number, and the sign and the prefix come before the zeros and after the blanks.
FormatExact ==
  res # <<>> /\ job.part = "format" =>
    \A fmt \in Formats :
      LET text == res[fmt]
          core == SelectSeq(text, LAMBDA c : c \notin {" ", "+", "-", "x"})
          value == SN!FoldLeft(LAMBDA a, c : a * fmt.base + parse_digit(c), 0, core)
          signs == {i \in DOMAIN text : text[i] \in {"-", "+"}} IN
      /\ Len(text) >= fmt.width
      /\ value = (IF fmt.signedconv /\ I64(job.x) < 0 THEN -I64(job.x) ELSE job.x)
      /\ (signs # {} /\ \E i \in signs : text[i] = "-") <=> (fmt.signedconv /\ I64(job.x) < 0)
      /\ \A i \in signs : \A k \in 1..(i - 1) : text[k] = " "
      /\ fmt.justify = "-" /\ fmt.signstyle # " " /\ text # <<>> => text[1] # " "

\* ints.c and int64_format.h: reading a numeral gives the number it denotes or fails, and
\* writing a number gives a numeral that denotes it.
NumeralsExact == LiteralsExact /\ FormatExact
=============================================================================
