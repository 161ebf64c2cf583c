---------------------------- MODULE BsonDecimal ----------------------------
(***************************************************************************)
(* The two conversions of a decimal128 (bson-decimal128.c), for a format   *)
(* of any size.  A decimal is its sign, its exponent and its significand;  *)
(* a text is a sequence of characters, the digits being the numbers 0 to   *)
(* 9, and the words for infinity and not-a-number one character each.      *)
(***************************************************************************)
EXTENDS Integers, Sequences, FiniteSets, SequencesExt

CONSTANTS MaxDigits,     \* 34: the digits of a significand
          Canonical113,  \* 2^113: significands from here on stand for 0
          Bias,          \* 6176: what is added to an exponent
          MaxExponent,   \* 6111
          FewZeros,      \* 6: with more zeros, a text has an exponent
          FarBelow       \* 2^14: below this exponent no digit is looked at

MinExponent == -Bias

Point == 46
Plus == 43
Minus == 45
Exponent == 69
Infinity == 73
NotANumber == 78

Decimal(kind, neg, exp, coef) == [kind |-> kind, neg |-> neg, exp |-> exp, coef |-> coef]
NaN == Decimal("nan", FALSE, 0, 0)
Zeros(n) == [i \in 1..n |-> 0]

(* _bson_uint128_divide1B, again and again: the digits of a number. *)
DigitsOf(coef) ==
  LET Digits[n \in Nat] == IF n < 10 THEN <<n>> ELSE Append(Digits[n \div 10], n % 10)
  IN Digits[coef]
NumberOf(digits) == FoldLeft(LAMBDA n, d : 10 * n + d, 0, digits)

(* bson_decimal128_to_string.  Only so many characters are written before  *)
(* the exponent.                                                           *)
Sign(neg) == IF neg THEN <<Minus>> ELSE <<>>
Cut(text, room) == SubSeq(text, 1, IF Len(text) < room THEN Len(text) ELSE room)
DecimalText(d) ==
  LET digits == IF d.coef >= Canonical113 THEN <<0>> ELSE DigitsOf(d.coef)
      scientific == Len(digits) - 1 + d.exp
      radix == Len(digits) + d.exp
      fraction == IF radix > 0 THEN SubSeq(digits, radix + 1, Len(digits))
                  ELSE Zeros(-radix) \o digits
      room == MaxDigits + 2
  IN CASE d.kind = "nan" -> <<NotANumber>>
       [] d.kind = "inf" -> Sign(d.neg) \o <<Infinity>>
       [] d.kind = "finite" /\ (scientific < -FewZeros \/ d.exp > 0) ->
            Cut(Sign(d.neg) \o <<digits[1]>>
                  \o (IF Len(digits) > 1 THEN <<Point>> \o Tail(digits) ELSE <<>>), room)
              \o <<Exponent, IF scientific < 0 THEN Minus ELSE Plus>>
              \o DigitsOf(IF scientific < 0 THEN -scientific ELSE scientific)
       [] d.kind = "finite" /\ scientific >= -FewZeros /\ d.exp = 0 ->
            Cut(Sign(d.neg) \o digits, room)
       [] d.kind = "finite" /\ scientific >= -FewZeros /\ d.exp < 0 ->
            Cut(Sign(d.neg) \o (IF radix > 0 THEN SubSeq(digits, 1, radix) ELSE <<0>>)
                  \o <<Point>> \o fraction, room + FewZeros)

(* The parts of a text: its sign, the digits with at most one point among  *)
(* them, the exponent after an E, and whether this was all.                *)
Numerals == 0..9
RunOf(text, from, chars) ==
  SubSeq(text, from, CHOOSE to \in (from - 1)..Len(text) :
                       /\ \A i \in from..to : text[i] \in chars
                       /\ to = Len(text) \/ text[to + 1] \notin chars)
Parts(text) ==
  LET sign == IF text # <<>> /\ text[1] \in {Plus, Minus} THEN 1 ELSE 0
      body == RunOf(text, sign + 1, Numerals \union {Point})
      points == {i \in DOMAIN body : body[i] = Point}
      e == sign + Len(body) + 1
      scaled == e <= Len(text) /\ text[e] = Exponent
      esign == IF scaled /\ e < Len(text) /\ text[e + 1] \in {Plus, Minus} THEN 1 ELSE 0
      power == IF scaled THEN RunOf(text, e + esign + 1, Numerals) ELSE <<>>
      end == IF scaled THEN e + esign + Len(power) ELSE e - 1
  IN [sign   |-> sign,
      neg    |-> sign = 1 /\ text[1] = Minus,
      number |-> body # <<>>,
      digits |-> SelectSeq(body, LAMBDA ch : ch # Point),
      radix  |-> IF points = {} THEN 0 ELSE 1,
      after  |-> IF points = {} THEN 0 ELSE Len(body) - (CHOOSE i \in points : TRUE),
      exp    |-> (IF esign = 1 /\ text[e + 1] = Minus THEN -1 ELSE 1) * NumberOf(power),
      ok     |-> /\ SelectSeq(body, LAMBDA ch : ch # Point) # <<>> /\ Cardinality(points) <= 1
                 /\ end = Len(text) /\ (scaled => power # <<>>)]

(* The digits that are stored: at most MaxDigits, from the first that is   *)
(* not 0.  Char(text, i) is the code's string[i].                          *)
Lesser(a, b) == IF a < b THEN a ELSE b
FirstNonzero(digits) ==
  CHOOSE k \in 0..Len(digits) : /\ \A i \in 1..k : digits[i] = 0
                                /\ k = Len(digits) \/ digits[k + 1] # 0
Stored(p) ==
  LET k == FirstNonzero(p.digits) IN
  IF k = Len(p.digits) THEN <<0>> ELSE SubSeq(p.digits, k + 1, k + Lesser(MaxDigits, Len(p.digits) - k))
Char(text, i) == IF i < Len(text) THEN text[i + 1] ELSE -1

(* Digits after the last that is not 0 are not significant. *)
Significant(text, p) ==
  LET k == FirstNonzero(p.digits)
      n == Len(p.digits) - k
  IN IF n = 0 THEN 0
     ELSE CHOOSE s \in 1..n : LET at(d) == Char(text, k + d - 1 + p.sign + p.radix) IN
                              at(s) # 0 /\ \A d \in (s + 1)..n : at(d) = 0

(* Whether the last digit that was not stored is 0.  (The digits before    *)
(* the first that is not 0 are not counted, as they should be.)            *)
NeverLooked(text, p, nd) == TRUE  \* mutant: unstored digits are dropped unseen
UnstoredIsZero(text, p, nd) == Char(text, nd - 1 + p.sign + p.radix) = 0

(* The two loops that bring the exponent into its range: zeros are added   *)
(* at the end, or taken from it, those that were not stored first.  -1     *)
(* stands for the failure of a text that cannot be represented.            *)
Failed == [exp |-> 0, last |-> -1]
Raised(exp, last, sig) ==
  CASE exp <= MaxExponent -> [exp |-> exp, last |-> last]
    [] exp > MaxExponent /\ (last + exp - MaxExponent < MaxDigits \/ sig = 0) ->
         [exp |-> MaxExponent, last |-> last + exp - MaxExponent]
    [] OTHER -> Failed
Lowered(text, p, start, sig) ==
  LET stored == Stored(p)
      Digit34(i) == IF i < Len(stored) THEN stored[i + 1] ELSE 0
      Turn[exp \in Int, last \in Nat, nd \in Nat] ==
        LET whole == nd <= Len(stored)
            zero == IF whole THEN Digit34(last) = 0
                    ELSE UnstoredIsZero(text, p, nd) \/ sig = 0
        IN CASE exp >= MinExponent /\ whole -> [exp |-> exp, last |-> last]
             [] ~(exp >= MinExponent /\ whole) /\ last = 0 ->
                  IF sig = 0 THEN [exp |-> MinExponent, last |-> 0] ELSE Failed
             [] ~(exp >= MinExponent /\ whole) /\ last # 0 ->
                  IF ~zero \/ exp >= MaxExponent THEN Failed
                  ELSE IF whole THEN Turn[exp + 1, last - 1, nd] ELSE Turn[exp + 1, last, nd - 1]
  IN IF start.last < 0 THEN Failed
     ELSE Turn[start.exp, start.last, IF sig = 0 THEN 1 ELSE Len(p.digits) - FirstNonzero(p.digits)]

(* bson_decimal128_from_string, for a text that ends with its NUL. *)
Far(exp, after) == exp <= after /\ after > exp + FarBelow
RoundDigitIsZero(text, p, last) ==
  Char(text, FirstNonzero(p.digits) + last + p.sign + p.radix + 1) = 0
Finite(text, p) ==
  LET stored == Stored(p)
      sig == Significant(text, p)
      exp == IF Far(p.exp, p.after) THEN MinExponent ELSE p.exp - p.after
      end == Lowered(text, p, Raised(exp, Len(stored) - 1, sig), sig)
      kept == SubSeq(stored \o Zeros(MaxDigits), 1, end.last + 1)
  IN IF end.last < 0 \/ (end.last + 1 < sig /\ ~RoundDigitIsZero(text, p, end.last))
     THEN [ok |-> FALSE, dec |-> NaN]
     ELSE [ok |-> TRUE, dec |-> Decimal("finite", p.neg, end.exp, IF sig = 0 THEN 0 ELSE NumberOf(kept))]
DecimalOf(text) ==
  LET p == Parts(text)
      word == SubSeq(text, p.sign + 1, Len(text))
  IN CASE p.number /\ p.ok -> Finite(text, p)
       [] ~p.number /\ word = <<Infinity>> -> [ok |-> TRUE, dec |-> Decimal("inf", p.neg, 0, 0)]
       [] ~p.number /\ word = <<NotANumber>> -> [ok |-> TRUE, dec |-> NaN]
       [] OTHER -> [ok |-> FALSE, dec |-> NaN]
-----------------------------------------------------------------------------
(* What is printed of a decimal is read back as the same decimal, its      *)
(* exponent and the sign of a zero included.                               *)
DecimalsReadBack ==
  \A neg \in BOOLEAN, exp \in MinExponent..MaxExponent, coef \in 0..(10 ^ MaxDigits - 1) :
    LET d == Decimal("finite", neg, exp, coef) IN
    DecimalOf(DecimalText(d)) = [ok |-> TRUE, dec |-> d]

(* bson-decimal128.c:677: a text that is accepted is not rounded; and one  *)
(* whose digits and exponent both fit is accepted.  Two kinds of text are  *)
(* left out, which the code does round: those with more digits than fit    *)
(* after leading zeros (the unstored digits are looked up as if there were *)
(* none), and exponents so far below that no digit is looked at.           *)
Value(digits, exp) ==
  LET k == FirstNonzero(digits)
      n == Len(digits) - FirstNonzero(Reverse(digits))
  IN IF k = Len(digits) THEN <<>> ELSE <<SubSeq(digits, k + 1, n), exp + Len(digits) - n>>
Rounded(p) ==
  \/ FirstNonzero(p.digits) > 0 /\ Len(p.digits) - FirstNonzero(p.digits) > MaxDigits
  \/ Far(p.exp, p.after)
NotRounded(text) ==
  LET p == Parts(text)
      r == DecimalOf(text)
  IN /\ r.ok /\ r.dec.kind = "finite" /\ ~Rounded(p) =>
          /\ Value(DigitsOf(r.dec.coef), r.dec.exp) = Value(p.digits, p.exp - p.after)
          /\ r.dec.neg = p.neg /\ r.dec.coef < 10 ^ MaxDigits /\ r.dec.exp \in MinExponent..MaxExponent
     /\ p.number /\ p.ok /\ Len(p.digits) - FirstNonzero(p.digits) <= MaxDigits
          /\ p.exp - p.after \in MinExponent..MaxExponent => r.ok
=============================================================================
