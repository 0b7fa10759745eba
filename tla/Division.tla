------------------------------ MODULE Division ------------------------------
(***************************************************************************)
(* Division of two-word numbers by the compiler's helper __qdivrem, in a   *)
(* kernel and a library that have no other: long division of at most four  *)
(* digits by at most four, each digit half a machine word.  The dividend u *)
(* is a function on 0..m + n, as the code indexes it, and the divisor v a  *)
(* sequence of n digits.                                                   *)
(***************************************************************************)
EXTENDS Integers, SequencesExt, FiniteSetsExt

CONSTANT HalfBits   \* bits of a digit, at least 1

B == 2 ^ HalfBits

Word == B * B         \* u_int is 0..Word - 1

Quads == 0..Word * Word - 1

LHalf(x) == x % B

HHalf(x) == (x % Word) \div B

Combine(x, y) == ((x * B) % Word) + y

Number(digits) == FoldLeft(LAMBDA x, d : x * B + d, 0, digits)

Digits(q) == <<HHalf(q \div Word), LHalf(q \div Word), HHalf(q), LHalf(q)>>

\* Without the leading zeros.
Significant(q) ==
  LET d == Digits(q)
      zeros == Max({k \in 0..4 : \A i \in 1..k : d[i] = 0})
  IN  SubSeq(d, zeros + 1, 4)

Down(n) == [i \in 1..n |-> n + 1 - i]

\* A divisor of one digit: digit by digit, the rest carried along.
ShortDivide(x, t) ==
  FoldLeft(LAMBDA a, d : [q |-> Append(a.q, Combine(a.r, d) \div t), r |-> Combine(a.r, d) % t],
           [q |-> <<>>, r |-> 0], Digits(x))

\* shl: the digits p shifted left; what falls out is lost.
Shl(p, len, sh) ==
  [i \in DOMAIN p |->
     IF i > len THEN p[i]
     ELSE LHalf(p[i] * 2 ^ sh) + IF i = len THEN 0 ELSE p[i + 1] \div 2 ^ (HalfBits - sh)]

\* D1: the shift that makes the first digit at least B / 2.
Normaliser(v1) == CHOOSE d \in 0..HalfBits : v1 * 2 ^ d \in B \div 2..B - 1

\* Mutant: the guess is not corrected by the divisor's second digit.
QHatUncorrected(u0, u1, u2, v1, v2) == IF u0 = v1 THEN B - 1 ELSE Combine(u0, u1) \div v1

\* D3: the guess for a digit of the quotient, lowered until the second digit
\* of the divisor agrees or the rest is a digit no more.
QHat(u0, u1, u2, v1, v2) ==
  LET qhat == IF u0 = v1 THEN B ELSE Combine(u0, u1) \div v1
      rhat(q) == (IF u0 = v1 THEN u1 ELSE Combine(u0, u1) % v1) + (qhat - q) * v1
  IN  Max({q \in 0..qhat \ {B} : rhat(q) >= B \/ v2 * q <= Combine(rhat(q), u2)})

\* D4: qhat times v is taken from the digits of u behind j; t is the borrow.
MultiplyAndSubtract(u, v, j, qhat) ==
  LET sub(a, i) == LET t == (a.u[i + j] - v[i] * qhat - a.t) % Word
                   IN  [u |-> [a.u EXCEPT ![i + j] = LHalf(t)], t |-> (B - HHalf(t)) % B]
      s == FoldLeft(sub, [u |-> u, t |-> 0], Down(Len(v)))
      t == (u[j] - s.t) % Word
  IN  [u |-> [s.u EXCEPT ![j] = LHalf(t)], borrow |-> HHalf(t) # 0]

\* D6: v is added back.
AddBack(u, v, j) ==
  LET add(a, i) == LET t == a.t + a.u[i + j] + v[i]
                   IN  [u |-> [a.u EXCEPT ![i + j] = LHalf(t)], t |-> HHalf(t)]
      s == FoldLeft(add, [u |-> u, t |-> 0], Down(Len(v)))
  IN  [s.u EXCEPT ![j] = LHalf(@ + s.t)]

\* D3 to D6: digit j of the quotient, and what is left of u.
DivideStep(u, v, j) ==
  LET qhat == QHat(u[j], u[j + 1], u[j + 2], v[1], v[2])
      s == MultiplyAndSubtract(u, v, j, qhat)
  IN  IF s.borrow THEN [u |-> AddBack(s.u, v, j), q |-> qhat - 1] ELSE [u |-> s.u, q |-> qhat]

\* What is left, shifted back; u has m + n + 1 digits.
Remainder(u, m, n, d) ==
  LET shifted(i) == (u[i] \div 2 ^ d) + LHalf(u[i - 1] * 2 ^ (HalfBits - d))
  IN  Number([i \in 1..m + n |-> IF d = 0 THEN u[i] ELSE IF i > m THEN shifted(i) ELSE IF i = m THEN 0 ELSE u[i]])

\* Knuth's algorithm D, for a divisor of two digits or more.
LongDivide(x, y) ==
  LET ux == Significant(x)
      vx == Significant(y)
      n == Len(vx)
      m == Len(ux) - n
      d == Normaliser(vx[1])
      v == Shl(vx, n, d)
      su == Shl(<<0>> \o ux, m + n + 1, d)
      step(a, j) == LET s == DivideStep(a.u, v, j) IN [u |-> s.u, q |-> Append(a.q, s.q)]
      all == FoldLeft(step, [u |-> [i \in 0..m + n |-> su[i + 1]], q |-> <<>>], [j \in 1..m + 1 |-> j - 1])
  IN  [q |-> Number(all.q), r |-> Remainder(all.u, m, n, d)]

\* __qdivrem; division by zero is a fault, and left out.
Qdivrem(x, y) ==
  IF x < y THEN [q |-> 0, r |-> x]
  ELSE IF Len(Significant(y)) = 1
       THEN LET s == ShortDivide(x, y) IN [q |-> Number(s.q), r |-> s.r]
       ELSE LongDivide(x, y)

Udivdi3(x, y) == Qdivrem(x, y).q

Umoddi3(x, y) == Qdivrem(x, y).r

----------------------------------------------------------------------------
\* Quotient and remainder are right (gccisms.c:94-287): the correction of a
\* guess, the borrow of one that is still too large and its adding back happen
\* for few dividends xs and divisors ys.
DivisionSound(xs, ys) ==
  \A x \in xs, y \in ys : Qdivrem(x, y) = [q |-> x \div y, r |-> x % y]
=============================================================================
