-------------------------- MODULE BsonMemoryProofs --------------------------
(***************************************************************************)
(* What libbson's blocks keep (bson.c, bson-string.c), for any number of   *)
(* documents and blocks and any sizes: every block that is allocated is    *)
(* held by exactly one owner, every live document fits where its bytes     *)
(* are, and a string holds what was appended to it, also where the size of *)
(* its block saturates.  And what its readers keep (bson-iter.c), for any  *)
(* bytes: no iterator leaves the document that it walks.                   *)
(***************************************************************************)
EXTENDS BsonMemory, BsonWalk, FiniteSetTheorems, SequenceTheorems, WellFoundedInduction, TLAPS

(* Induction over numbers, as the least counterexample.                    *)
LEMMA LeastNatural ==
  ASSUME NEW T \in SUBSET Nat, T # {} PROVE \E x \in T : \A y \in T : x <= y
<1> DEFINE R == OpToRel(<, Nat)
<1>1. IsWellFoundedOn(R, Nat) BY NatLessThanWellFounded
<1>2. \A x, y \in Nat : x < y => <<x, y>> \in R BY DEF OpToRel
<1> HIDE DEF R
<1>3. PICK x \in T : \A y \in T : ~(<<y, x>> \in R) BY <1>1, WFMin
<1>4. \A y \in T : ~(y < x) BY <1>2, <1>3
<1> QED BY <1>3, <1>4

(* The powers of two that a block's size may be.                           *)
LEMMA PowerDoubles ==
  ASSUME NEW k \in 0..31, NEW j, j = k + 1 PROVE 2 ^ j = 2 * 2 ^ k
<1>1.
      /\ 2 ^ 1 = 2 * 2 ^ 0 /\ 2 ^ 2 = 2 * 2 ^ 1 /\ 2 ^ 3 = 2 * 2 ^ 2 /\ 2 ^ 4 = 2 * 2 ^ 3
      /\ 2 ^ 5 = 2 * 2 ^ 4 /\ 2 ^ 6 = 2 * 2 ^ 5 /\ 2 ^ 7 = 2 * 2 ^ 6 /\ 2 ^ 8 = 2 * 2 ^ 7
      /\ 2 ^ 9 = 2 * 2 ^ 8 /\ 2 ^ 10 = 2 * 2 ^ 9 /\ 2 ^ 11 = 2 * 2 ^ 10 /\ 2 ^ 12 = 2 * 2 ^ 11
      /\ 2 ^ 13 = 2 * 2 ^ 12 /\ 2 ^ 14 = 2 * 2 ^ 13 /\ 2 ^ 15 = 2 * 2 ^ 14 /\ 2 ^ 16 = 2 * 2 ^ 15
      /\ 2 ^ 17 = 2 * 2 ^ 16 /\ 2 ^ 18 = 2 * 2 ^ 17 /\ 2 ^ 19 = 2 * 2 ^ 18 /\ 2 ^ 20 = 2 * 2 ^ 19
      /\ 2 ^ 21 = 2 * 2 ^ 20 /\ 2 ^ 22 = 2 * 2 ^ 21 /\ 2 ^ 23 = 2 * 2 ^ 22 /\ 2 ^ 24 = 2 * 2 ^ 23
      /\ 2 ^ 25 = 2 * 2 ^ 24 /\ 2 ^ 26 = 2 * 2 ^ 25 /\ 2 ^ 27 = 2 * 2 ^ 26 /\ 2 ^ 28 = 2 * 2 ^ 27
      /\ 2 ^ 29 = 2 * 2 ^ 28 /\ 2 ^ 30 = 2 * 2 ^ 29 /\ 2 ^ 31 = 2 * 2 ^ 30 /\ 2 ^ 32 = 2 * 2 ^ 31
  BY Z3
<1>2.
      /\ (j = 1 /\ k = 0 => 2 ^ j = 2 * 2 ^ k) /\ (j = 2 /\ k = 1 => 2 ^ j = 2 * 2 ^ k)
      /\ (j = 3 /\ k = 2 => 2 ^ j = 2 * 2 ^ k) /\ (j = 4 /\ k = 3 => 2 ^ j = 2 * 2 ^ k)
      /\ (j = 5 /\ k = 4 => 2 ^ j = 2 * 2 ^ k) /\ (j = 6 /\ k = 5 => 2 ^ j = 2 * 2 ^ k)
      /\ (j = 7 /\ k = 6 => 2 ^ j = 2 * 2 ^ k) /\ (j = 8 /\ k = 7 => 2 ^ j = 2 * 2 ^ k)
      /\ (j = 9 /\ k = 8 => 2 ^ j = 2 * 2 ^ k) /\ (j = 10 /\ k = 9 => 2 ^ j = 2 * 2 ^ k)
      /\ (j = 11 /\ k = 10 => 2 ^ j = 2 * 2 ^ k) /\ (j = 12 /\ k = 11 => 2 ^ j = 2 * 2 ^ k)
      /\ (j = 13 /\ k = 12 => 2 ^ j = 2 * 2 ^ k) /\ (j = 14 /\ k = 13 => 2 ^ j = 2 * 2 ^ k)
      /\ (j = 15 /\ k = 14 => 2 ^ j = 2 * 2 ^ k) /\ (j = 16 /\ k = 15 => 2 ^ j = 2 * 2 ^ k)
      /\ (j = 17 /\ k = 16 => 2 ^ j = 2 * 2 ^ k) /\ (j = 18 /\ k = 17 => 2 ^ j = 2 * 2 ^ k)
      /\ (j = 19 /\ k = 18 => 2 ^ j = 2 * 2 ^ k) /\ (j = 20 /\ k = 19 => 2 ^ j = 2 * 2 ^ k)
      /\ (j = 21 /\ k = 20 => 2 ^ j = 2 * 2 ^ k) /\ (j = 22 /\ k = 21 => 2 ^ j = 2 * 2 ^ k)
      /\ (j = 23 /\ k = 22 => 2 ^ j = 2 * 2 ^ k) /\ (j = 24 /\ k = 23 => 2 ^ j = 2 * 2 ^ k)
      /\ (j = 25 /\ k = 24 => 2 ^ j = 2 * 2 ^ k) /\ (j = 26 /\ k = 25 => 2 ^ j = 2 * 2 ^ k)
      /\ (j = 27 /\ k = 26 => 2 ^ j = 2 * 2 ^ k) /\ (j = 28 /\ k = 27 => 2 ^ j = 2 * 2 ^ k)
      /\ (j = 29 /\ k = 28 => 2 ^ j = 2 * 2 ^ k) /\ (j = 30 /\ k = 29 => 2 ^ j = 2 * 2 ^ k)
      /\ (j = 31 /\ k = 30 => 2 ^ j = 2 * 2 ^ k) /\ (j = 32 /\ k = 31 => 2 ^ j = 2 * 2 ^ k)
  BY <1>1, Zenon
<1> QED BY <1>2

LEMMA PowerPositive == \A k \in 0..32 : 2 ^ k \in Nat \ {0}
<1> DEFINE T == {k \in 0..32 : 2 ^ k \notin Nat \ {0}}
<1> SUFFICES ASSUME T # {} PROVE FALSE
  OBVIOUS
<1>0. T \in SUBSET Nat OBVIOUS
<1>1. PICK x \in T : \A y \in T : x <= y BY <1>0, LeastNatural
<1>2. CASE x = 0
  <2>1. 2 ^ 0 = 1 BY Z3
  <2>2. 2 ^ x = 1 BY <1>2, <2>1, Zenon
  <2> QED BY <1>1, <2>2
<1>3. CASE x # 0
  <2>1. PICK k \in 0..31 : x = k + 1 BY <1>1, <1>3
  <2>2. k \notin T BY <1>1, <2>1
  <2>3. 2 ^ x = 2 * 2 ^ k BY <2>1, PowerDoubles
  <2> QED BY <1>1, <2>2, <2>3
<1> QED BY <1>2, <1>3

LEMMA PowersGrow ==
  ASSUME NEW m \in 0..32, NEW k \in 0..32, m < k PROVE 2 ^ k >= 2 * 2 ^ m
<1> DEFINE T == {j \in (m + 1)..32 : ~(2 ^ j >= 2 * 2 ^ m)}
<1> SUFFICES ASSUME T # {} PROVE FALSE
  OBVIOUS
<1>0. T \in SUBSET Nat OBVIOUS
<1>1. PICK x \in T : \A y \in T : x <= y BY <1>0, LeastNatural
<1>2. PICK j \in 0..31 : x = j + 1 BY <1>1
<1>3. 2 ^ x = 2 * 2 ^ j BY <1>2, PowerDoubles
<1>4. 2 ^ j \in Nat /\ 2 ^ m \in Nat
  <2>1. j \in 0..32 OBVIOUS
  <2> QED BY <2>1, PowerPositive
<1>5. CASE j = m BY <1>1, <1>3, <1>4, <1>5
<1>6. CASE j # m
  <2>1. j \in (m + 1)..32 /\ j \notin T BY <1>1, <1>2, <1>6
  <2>2. 2 ^ j >= 2 * 2 ^ m BY <2>1
  <2> QED BY <1>1, <1>3, <1>4, <2>2
<1> QED BY <1>5, <1>6

LEMMA PowersApart ==
  ASSUME NEW m \in 0..32, NEW k \in 0..32, 2 ^ k > 2 ^ m PROVE 2 ^ k >= 2 * 2 ^ m
<1>1. 2 ^ k \in Nat /\ 2 ^ m \in Nat BY PowerPositive
<1>2. CASE m < k BY <1>2, PowersGrow
<1>3. CASE m = k BY <1>1, <1>3
<1>4. CASE k < m
  <2>1. 2 ^ m >= 2 * 2 ^ k BY <1>4, PowersGrow
  <2> QED BY <1>1, <2>1
<1> QED BY <1>2, <1>3, <1>4

(* bson_next_power_of_two: a power of two, at least n and less than 2 n.   *)
LEMMA NextPowerFits ==
  ASSUME NEW n \in Nat \ {0}, NEW j \in 0..32, n <= 2 ^ j
  PROVE  /\ PowerOfTwo(n) \in Nat /\ n <= PowerOfTwo(n) /\ PowerOfTwo(n) < 2 * n
         /\ \E k \in 0..32 : PowerOfTwo(n) = 2 ^ k
<1> DEFINE T == {k \in 0..32 : n <= 2 ^ k}
<1>a. T \in SUBSET Nat OBVIOUS
<1>b. j \in T OBVIOUS
<1>0. T # {} BY <1>b
<1>1. PICK x \in T : \A y \in T : x <= y BY <1>a, <1>0, LeastNatural
<1>2. 2 ^ x \in Nat /\ x \in 0..32 BY <1>1, PowerPositive
<1>3. n <= 2 ^ x /\ 2 ^ x < 2 * n
  <2>1. CASE x = 0
    <3>1. 2 ^ 0 = 1 BY Z3
    <3>2. 2 ^ x = 1 BY <2>1, <3>1, Zenon
    <3> QED BY <1>1, <3>2
  <2>2. CASE x # 0
    <3>1. PICK k \in 0..31 : x = k + 1 BY <1>1, <2>2
    <3>2. k \notin T BY <1>1, <3>1
    <3>3. 2 ^ k \in Nat /\ ~(n <= 2 ^ k)
      <4>1. k \in 0..32 BY <3>1
      <4> QED BY <3>2, <4>1, PowerPositive
    <3>4. 2 ^ x = 2 * 2 ^ k BY <3>1, PowerDoubles
    <3> QED BY <1>1, <1>2, <3>3, <3>4
  <2> QED BY <2>1, <2>2
<1> DEFINE c == CHOOSE k \in 0..32 : 2 ^ k >= n /\ 2 ^ k < 2 * n
<1>4. c \in 0..32 /\ 2 ^ c >= n /\ 2 ^ c < 2 * n BY <1>2, <1>3
<1>5. PowerOfTwo(n) = 2 ^ c BY DEF PowerOfTwo
<1> HIDE DEF c
<1> QED BY <1>4, <1>5, PowerPositive
-----------------------------------------------------------------------------
(* What a string is while it is written.                                   *)
Cells == Nat \union {Unwritten}
Strings == [alloc : Nat, len : Nat, mem : Seq(Cells)]
HoldsUpTo(s, text) ==
  /\ s \in Strings /\ text \in Seq(Cells) /\ Len(s.mem) = s.alloc /\ s.alloc <= MaxUnsigned
  /\ s.len = Len(text) /\ s.len <= s.alloc /\ \A i \in 1..s.len : s.mem[i] = text[i]
HoldsText(s, text) == HoldsUpTo(s, text) /\ s.len < s.alloc /\ s.mem[s.len + 1] = 0
StringInv == IF str = NoString THEN said = <<>> ELSE HoldsText(str, said)

LEMMA IsSeq ==
  ASSUME NEW S, NEW n \in Nat, NEW f \in [1..n -> S] PROVE f \in Seq(S) /\ Len(f) = n
<1>1. DOMAIN f = 1..n OBVIOUS
<1>2. f \in Seq(S) OBVIOUS
<1> QED BY <1>1, <1>2

LEMMA WideIsCells ==
  ASSUME NEW mem \in Seq(Cells), NEW n \in Nat
  PROVE  /\ Widened(mem, n) \in Seq(Cells) /\ Len(Widened(mem, n)) = n
         /\ \A i \in 1..n : i <= Len(mem) => Widened(mem, n)[i] = mem[i]
<1>1. \A i \in 1..n : (IF i <= Len(mem) THEN mem[i] ELSE Unwritten) \in Cells BY DEF Cells
<1>2. Widened(mem, n) \in [1..n -> Cells] BY <1>1 DEF Widened
<1>3. DOMAIN Widened(mem, n) = 1..n BY DEF Widened
<1> QED BY <1>2, <1>3 DEF Widened

LEMMA WritesText ==
  ASSUME NEW s, NEW before, HoldsUpTo(s, before), NEW text \in Seq(Cells),
         s.len + Len(text) < s.alloc
  PROVE  HoldsText(WriteText(s, text), before \o text)
<1> DEFINE end == s.len + Len(text)
           cells == [i \in 1..s.alloc |-> IF i \in (s.len + 1)..end THEN text[i - s.len]
                                          ELSE IF i = end + 1 THEN 0 ELSE s.mem[i]]
<1>0. s \in Strings /\ s.alloc \in Nat /\ s.len \in Nat /\ s.mem \in Seq(Cells) /\ end \in Nat
  BY DEF HoldsUpTo, Strings
<1>1. DOMAIN s.mem \union {end + 1} = 1..s.alloc BY <1>0 DEF HoldsUpTo
<1>2. WriteText(s, text) = [s EXCEPT !.len = end, !.mem = cells] BY <1>1 DEF WriteText
<1>3. ASSUME NEW i \in 1..s.alloc
      PROVE  cells[i] \in Cells
  <2>1. CASE i \in (s.len + 1)..end
    <3>1. i - s.len \in 1..Len(text) BY <1>0, <2>1
    <3>2. cells[i] = text[i - s.len] BY <2>1
    <3>3. text[i - s.len] \in Cells BY <3>1
    <3> QED BY <3>2, <3>3
  <2>2. CASE i \notin (s.len + 1)..end /\ i = end + 1 BY <2>2 DEF Cells
  <2>3. CASE i \notin (s.len + 1)..end /\ i # end + 1 BY <1>0, <2>3 DEF HoldsUpTo
  <2> QED BY <2>1, <2>2, <2>3
<1>4. cells \in [1..s.alloc -> Cells] BY <1>3
<1>5. cells \in Seq(Cells) /\ Len(cells) = s.alloc BY <1>0, <1>4, IsSeq
<1>6. before \o text \in Seq(Cells) /\ Len(before \o text) = end BY DEF HoldsUpTo
<1>7. ASSUME NEW i \in 1..end PROVE cells[i] = (before \o text)[i]
  <2>1. i \in 1..s.alloc /\ i # end + 1 BY <1>0
  <2>2. CASE i > s.len
    <3>1. cells[i] = text[i - s.len] BY <1>0, <2>1, <2>2
    <3>2. (before \o text)[i] = text[i - s.len] BY <1>0, <2>2 DEF HoldsUpTo
    <3> QED BY <3>1, <3>2
  <2>3. CASE ~(i > s.len)
    <3>1. i \in 1..s.len BY <1>0, <2>3
    <3>2. cells[i] = s.mem[i] BY <1>0, <2>1, <3>1
    <3>3. (before \o text)[i] = before[i] BY <1>0, <3>1 DEF HoldsUpTo
    <3> QED BY <3>1, <3>2, <3>3 DEF HoldsUpTo
  <2> QED BY <2>2, <2>3
<1>8. end < s.alloc /\ cells[end + 1] = 0 BY <1>0
<1> DEFINE w == WriteText(s, text)
<1>9. w = [alloc |-> s.alloc, len |-> end, mem |-> cells] BY <1>0, <1>2 DEF Strings
<1> HIDE DEF w, cells, end
<1>10. w.alloc = s.alloc /\ w.len = end /\ w.mem = cells /\ w \in Strings
  BY <1>0, <1>5, <1>9 DEF Strings
<1>11. s.alloc <= MaxUnsigned BY DEF HoldsUpTo
<1>12. end <= s.alloc BY <1>0, <1>8
<1> QED BY <1>5, <1>6, <1>7, <1>8, <1>10, <1>11, <1>12 DEF HoldsText, HoldsUpTo, w

(* bson_string_ensure_space: room for what is needed, also where the next  *)
(* power of two is one that 32 bits do not have.                           *)
LEMMA EnsuresRoom ==
  ASSUME NEW n \in 1..MaxUnsigned
  PROVE  LET alloc == IF NextPower(n) = 0 THEN MaxUnsigned ELSE NextPower(n)
         IN alloc \in Nat /\ n <= alloc /\ alloc <= MaxUnsigned
<1> DEFINE p == PowerOfTwo(n)
           m == MaxUnsigned + 1
<1>0. MaxUnsigned \in Nat /\ m \in Nat \ {0} BY StringAssumption DEF StringAssumption
<1>1. PICK k \in 1..32 : m = 2 ^ k BY StringAssumption DEF StringAssumption
<1>2. k \in 0..32 /\ n <= 2 ^ k /\ n \in Nat \ {0} BY <1>0, <1>1
<1>3. p \in Nat /\ n <= p /\ p < 2 * n /\ \E j \in 0..32 : p = 2 ^ j
  <2> HIDE DEF m
  <2> QED BY <1>2, NextPowerFits, Zenon
<1>4. PICK j \in 0..32 : p = 2 ^ j BY <1>3
<1>5. NextPower(n) = p % m BY DEF NextPower
<1> HIDE DEF p, m
<1>6. p <= m
  <2> SUFFICES ASSUME p > m PROVE FALSE BY <1>0, <1>3
  <2>1. 2 ^ j > 2 ^ k BY <1>1, <1>4
  <2>2. 2 ^ j >= 2 * 2 ^ k BY <1>2, <2>1, PowersApart
  <2>3. p >= 2 * m BY <1>1, <1>4, <2>2
  <2>4. n < m BY <1>0 DEF m
  <2> QED BY <1>0, <1>3, <2>3, <2>4
<1>7. CASE p = m
  <2>1. p % m = 0 BY <1>0, <1>7
  <2> QED BY <1>0, <1>5, <2>1
<1>8. CASE p < m
  <2>1. p % m = p BY <1>0, <1>3, <1>8
  <2>2. p # 0 /\ p <= MaxUnsigned BY <1>0, <1>3, <1>8 DEF m
  <2> QED BY <1>3, <1>5, <2>1, <2>2
<1> QED BY <1>0, <1>3, <1>6, <1>7, <1>8

LEMMA EnsuredHolds ==
  ASSUME NEW s, NEW text, HoldsUpTo(s, text), NEW needed \in Nat, CanHold(needed)
  PROVE  HoldsUpTo(Ensured(s, needed), text) /\ needed < Ensured(s, needed).alloc
                                             /\ Ensured(s, needed).len = s.len
<1> DEFINE n == needed + 1
           alloc == IF NextPower(n) = 0 THEN MaxUnsigned ELSE NextPower(n)
           wide == Widened(s.mem, alloc)
<1>0. MaxUnsigned \in Nat BY StringAssumption DEF StringAssumption
<1>1. s = [alloc |-> s.alloc, len |-> s.len, mem |-> s.mem] /\ s.alloc \in Nat /\ s.len \in Nat
      /\ s.mem \in Seq(Cells) /\ Len(s.mem) = s.alloc /\ s.len <= s.alloc
  BY DEF HoldsUpTo, Strings
<1>2. n \in 1..MaxUnsigned BY <1>0 DEF CanHold
<1>3. alloc \in Nat /\ n <= alloc /\ alloc <= MaxUnsigned BY <1>2, EnsuresRoom
<1>4. CASE s.alloc >= n
  <2>1. Ensured(s, needed) = s BY <1>4 DEF Ensured
  <2> QED BY <1>1, <1>4, <2>1
<1>5. CASE ~(s.alloc >= n)
  <2>1. Ensured(s, needed) = [s EXCEPT !.alloc = alloc, !.mem = wide] BY <1>5 DEF Ensured
  <2>2. wide \in Seq(Cells) /\ Len(wide) = alloc
        /\ \A i \in 1..alloc : i <= Len(s.mem) => wide[i] = s.mem[i]
    BY <1>1, <1>3, WideIsCells
  <2> DEFINE e == Ensured(s, needed)
  <2> HIDE DEF wide, alloc, n
  <2>3. e = [alloc |-> alloc, len |-> s.len, mem |-> wide] BY <1>1, <2>1
  <2> HIDE DEF e
  <2>4. e.alloc = alloc /\ e.len = s.len /\ e.mem = wide /\ e \in Strings
    BY <1>1, <1>3, <2>2, <2>3 DEF Strings
  <2>5. s.len <= alloc /\ s.alloc <= alloc BY <1>1, <1>3, <1>5 DEF n
  <2>6. \A i \in 1..s.len : wide[i] = text[i]
    <3> TAKE i \in 1..s.len
    <3>1. i \in 1..alloc /\ i <= Len(s.mem) BY <1>1, <1>3, <2>5
    <3>2. wide[i] = s.mem[i] BY <2>2, <3>1
    <3> QED BY <3>2 DEF HoldsUpTo
  <2>7. needed < alloc BY <1>3 DEF n
  <2> QED BY <1>3, <2>2, <2>4, <2>5, <2>6, <2>7 DEF HoldsUpTo, e
<1> QED BY <1>4, <1>5

LEMMA AppendsText ==
  ASSUME NEW s, NEW before, HoldsUpTo(s, before), NEW text \in Seq(Cells),
         CanHold(s.len + Len(text))
  PROVE  HoldsText(AppendedText(s, text), before \o text)
<1>1. s.len + Len(text) \in Nat BY DEF HoldsUpTo, Strings
<1> DEFINE e == Ensured(s, s.len + Len(text))
<1>2. HoldsUpTo(e, before) /\ s.len + Len(text) < e.alloc /\ e.len = s.len
  BY <1>1, EnsuredHolds
<1> HIDE DEF e
<1>3. HoldsText(WriteText(e, text), before \o text) BY <1>2, WritesText
<1> QED BY <1>3 DEF AppendedText, e

(* bson_string_truncate makes the block smaller, never as large as 2^32.   *)
LEMMA TruncatedHolds ==
  ASSUME HoldsText(str, said), NEW len \in 0..str.len, len < MaxUnsigned \div 2,
         NEW alloc, alloc = PowerOfTwo(IF len + 1 < SmallAlloc THEN SmallAlloc ELSE len + 1)
  PROVE  HoldsText(WriteText([alloc |-> alloc, len |-> len, mem |-> Widened(str.mem, alloc)], <<>>),
                   SubSeq(said, 1, len))
<1> DEFINE n == IF len + 1 < SmallAlloc THEN SmallAlloc ELSE len + 1
           cut == SubSeq(said, 1, len)
           wide == Widened(str.mem, alloc)
           s == [alloc |-> alloc, len |-> len, mem |-> wide]
<1>0. /\ MaxUnsigned \in Nat /\ SmallAlloc \in Nat \ {0} /\ 2 * SmallAlloc <= MaxUnsigned + 1
      /\ \E k \in 1..32 : MaxUnsigned + 1 = 2 ^ k
  BY StringAssumption DEF StringAssumption
<1>1. str.len \in Nat /\ len \in Nat /\ str.mem \in Seq(Cells) /\ said \in Seq(Cells)
      /\ Len(said) = str.len /\ str.len < Len(str.mem)
      /\ \A i \in 1..str.len : str.mem[i] = said[i]
  BY DEF HoldsText, HoldsUpTo, Strings
<1>2. 2 * (len + 1) <= MaxUnsigned BY <1>0, <1>1
<1>3. n \in Nat \ {0} /\ 2 * n <= MaxUnsigned + 1 /\ len < n BY <1>0, <1>1, <1>2
<1>4. PICK k \in 1..32 : MaxUnsigned + 1 = 2 ^ k BY <1>0
<1>5. k \in 0..32 /\ n <= 2 ^ k BY <1>0, <1>3, <1>4
<1>6. alloc \in Nat /\ n <= alloc /\ alloc < 2 * n
  <2>1. alloc = PowerOfTwo(n) OBVIOUS
  <2> HIDE DEF n
  <2> QED BY <1>3, <1>5, <2>1, NextPowerFits
<1>7. alloc <= MaxUnsigned /\ len < alloc BY <1>0, <1>1, <1>3, <1>6
<1>8. wide \in Seq(Cells) /\ Len(wide) = alloc
      /\ \A i \in 1..alloc : i <= Len(str.mem) => wide[i] = str.mem[i]
  BY <1>1, <1>6, WideIsCells
<1>9. cut \in Seq(Cells) /\ Len(cut) = len /\ \A i \in 1..len : cut[i] = said[i] BY <1>1
<1> HIDE DEF n, cut, wide
<1>10. HoldsUpTo(s, cut)
  <2>1. \A i \in 1..len : wide[i] = cut[i]
    <3> TAKE i \in 1..len
    <3>1. i \in 1..alloc /\ i \in 1..str.len /\ i <= Len(str.mem) BY <1>1, <1>6, <1>7
    <3> QED BY <1>1, <1>8, <1>9, <3>1
  <2>2. s \in Strings BY <1>1, <1>6, <1>8 DEF Strings
  <2> QED BY <1>1, <1>6, <1>7, <1>8, <1>9, <2>1, <2>2 DEF HoldsUpTo
<1>11. s.len + Len(<<>>) < s.alloc BY <1>1, <1>6, <1>7
<1>12. <<>> \in Seq(Cells) OBVIOUS
<1> HIDE DEF s
<1>13. HoldsText(WriteText(s, <<>>), cut \o <<>>) BY <1>10, <1>11, <1>12, WritesText
<1>14. cut \o <<>> = cut BY <1>9
<1> QED BY <1>13, <1>14 DEF s, cut, wide

(* Every operation on a string keeps it.                                   *)
LEMMA StringStep == ASSUME StringInv, StringNext PROVE StringInv'
<1>1. NoString.alloc = 0 /\ ~HoldsText(NoString, said) /\ HoldsUpTo(NoString, <<>>)
  <2>1. NoString \in Strings /\ <<>> \in Seq(Cells) BY DEF NoString, Strings
  <2> QED BY <2>1, StringAssumption DEF NoString, HoldsText, HoldsUpTo, StringAssumption
<1>2. \A s, text : HoldsText(s, text) => s # NoString
  BY DEF NoString, HoldsText, HoldsUpTo
<1>3. str.alloc # 0 => HoldsText(str, said) BY <1>1 DEF StringInv
<1>4. \A text \in StringTexts : text \in Seq(Cells)
  BY StringAssumption DEF StringAssumption, Cells
<1>5. CASE StringNew
  <2>1. PICK text \in StringTexts : /\ CanHold(Len(text)) /\ said' = text
                                    /\ str' = WriteText(Ensured(NoString, Len(text)), text)
    BY <1>5 DEF StringNew
  <2>2. text \in Seq(Cells) /\ <<>> \o text = text /\ 0 + Len(text) = Len(text) BY <1>4
  <2>3. str' = AppendedText(NoString, text) BY <2>1, <2>2 DEF AppendedText, NoString
  <2>4. CanHold(NoString.len + Len(text)) BY <2>1, <2>2 DEF NoString
  <2>5. HoldsText(str', <<>> \o text) BY <1>1, <2>2, <2>3, <2>4, AppendsText
  <2> QED BY <1>2, <2>1, <2>2, <2>5 DEF StringInv
<1>6. CASE StringAppend
  <2>1. PICK text \in StringTexts : /\ CanHold(str.len + Len(text)) /\ said' = said \o text
                                    /\ str' = AppendedText(str, text)
    BY <1>6 DEF StringAppend
  <2>2. HoldsUpTo(str, said) BY <1>3, <1>6 DEF StringAppend, HoldsText
  <2>3. HoldsText(str', said') BY <1>4, <2>1, <2>2, AppendsText
  <2> QED BY <1>2, <2>3 DEF StringInv
<1>7. CASE StringAppendC
  <2>1. PICK c \in 1..2 : /\ Full(str) => CanHold(str.len + 1)
                          /\ str' = IF Full(str) THEN AppendedText(str, <<c>>)
                                    ELSE WriteText(str, <<c>>)
                          /\ said' = Append(said, c)
    BY <1>7 DEF StringAppendC
  <2>2. HoldsText(str, said) /\ HoldsUpTo(str, said)
    BY <1>3, <1>7 DEF StringAppendC, HoldsText
  <2>3. <<c>> \in Seq(Cells) /\ Len(<<c>>) = 1 /\ said' = said \o <<c>>
    <3>1. said \in Seq(Cells) /\ c \in Cells BY <2>2 DEF HoldsUpTo, Cells
    <3> QED BY <2>1, <3>1
  <2>4. CASE Full(str) BY <1>2, <2>1, <2>2, <2>3, <2>4, AppendsText DEF StringInv
  <2>5. CASE ~Full(str)
    <3>1. str.len + Len(<<c>>) < str.alloc
      BY <2>2, <2>3, <2>5 DEF Full, HoldsText, HoldsUpTo, Strings
    <3> QED BY <1>2, <2>1, <2>2, <2>3, <2>5, <3>1, WritesText DEF StringInv
  <2> QED BY <2>4, <2>5
<1>8. CASE StringAppendPrintf
  <2>1. PICK text \in StringTexts :
          /\ CanHold(str.len + Len(text \o text)) /\ said' = said \o (text \o text)
          /\ str' = AppendedText(str, Formatted(text \o text))
    BY <1>8 DEF StringAppendPrintf
  <2> DEFINE twice == text \o text
  <2>2. twice \in Seq(Cells) BY <1>4
  <2>3. Formatted(twice) = twice
    <3> HIDE DEF twice
    <3>1. FirstRoom \in Nat /\ Len(twice) \in Nat BY <2>2, StringAssumption DEF StringAssumption
    <3> QED BY <3>1 DEF Formatted, Printed
  <2>4. HoldsUpTo(str, said) BY <1>3, <1>8 DEF StringAppendPrintf, HoldsText
  <2> HIDE DEF twice
  <2>5. CanHold(str.len + Len(twice)) /\ said' = said \o twice /\ str' = AppendedText(str, twice)
    BY <2>1, <2>3 DEF twice
  <2> QED BY <1>2, <2>2, <2>4, <2>5, AppendsText DEF StringInv
<1>9. CASE StringTruncate
  <2>1. PICK len \in 0..str.len :
       LET alloc == PowerOfTwo(IF len + 1 < SmallAlloc THEN SmallAlloc ELSE len + 1) IN
       /\ len < MaxUnsigned \div 2
       /\ str' = WriteText([alloc |-> alloc, len |-> len, mem |-> Widened(str.mem, alloc)], <<>>)
       /\ said' = SubSeq(said, 1, len)
    BY <1>9 DEF StringTruncate
  <2>2. HoldsText(str, said) BY <1>3, <1>9 DEF StringTruncate
  <2>3. HoldsText(str', said') BY <2>1, <2>2, TruncatedHolds
  <2> QED BY <1>2, <2>3 DEF StringInv
<1>10. CASE StringFree BY <1>10 DEF StringFree, StringInv
<1> QED BY <1>5, <1>6, <1>7, <1>8, <1>9, <1>10 DEF StringNext

LEMMA StringSaid == StringInv => StringHolds
<1> SUFFICES ASSUME StringInv, str.alloc # 0 PROVE StringHolds BY DEF StringHolds
<1>1. HoldsText(str, said) BY DEF StringInv, NoString
<1>2. str.len \in Nat /\ str.mem \in Seq(Cells) /\ said \in Seq(Cells) /\ Len(said) = str.len
      /\ Len(str.mem) = str.alloc /\ str.len < str.alloc
      /\ \A i \in 1..str.len : str.mem[i] = said[i]
  BY <1>1 DEF HoldsText, HoldsUpTo, Strings
<1>3. SubSeq(str.mem, 1, str.len) = said
  <2> DEFINE cut == SubSeq(str.mem, 1, str.len)
  <2>1. cut \in Seq(Cells) /\ Len(cut) = str.len /\ \A i \in 1..str.len : cut[i] = str.mem[i]
    BY <1>2
  <2> HIDE DEF cut
  <2>2. cut = said BY <1>2, <2>1
  <2> QED BY <2>2 DEF cut
<1> QED BY <1>1, <1>2, <1>3 DEF HoldsText, HoldsUpTo, StringHolds
-----------------------------------------------------------------------------
(* What the documents are between any two calls: the type of their state,  *)
(* what the flags of each say of its other fields, that the blocks are     *)
(* held by one owner each, that the bytes fit, and that a child's parent   *)
(* waits for it and that one document at most is over the caller's buffer. *)
Flags == {"DEAD", "STATIC", "INLINE", "RDONLY", "NO_FREE", "CHILD", "IN_CHILD"}
Places == Blocks \union {NULL}
Records == [flags : SUBSET Flags, struct : Places, alloc : Places, len : Nat,
            parent : Handles \union {NULL}]
Typed(hd, mem, ub, tk) ==
  hd \in [Handles -> Records] /\ mem \in [Blocks -> Nat] /\ ub \in Places /\ tk \subseteq Blocks

Over(r) == "NO_FREE" \in r.flags /\ "STATIC" \notin r.flags
FlagsSay(r) ==
  IF "DEAD" \in r.flags THEN r = Dead ELSE
  /\ r.len \in 1..MaxSize
  /\ "STATIC" \in r.flags => r.struct = NULL
  /\ r.flags \intersect {"INLINE", "RDONLY", "CHILD"} # {} \/ Over(r) => r.alloc = NULL
  /\ "INLINE" \in r.flags => r.len <= InlineCap /\ r.flags \subseteq {"STATIC", "INLINE"}
  /\ "RDONLY" \in r.flags => r.flags \subseteq {"STATIC", "RDONLY"}
  /\ "CHILD" \in r.flags => {"STATIC", "NO_FREE"} \subseteq r.flags /\ "IN_CHILD" \notin r.flags
                            /\ r.parent \in Handles

(* Who may hold a block, and which block each does: a document its struct  *)
(* and its bytes, the caller its buffer; and blocks that documents have    *)
(* let go of, to the caller or to nobody.                                  *)
StructOf(h) == <<"struct", h>>
BytesOf(h) == <<"bytes", h>>
AwayFrom(b) == <<"away", b>>
Buffer == <<"caller", "buf">>
Owners == {StructOf(h) : h \in Handles} \union {BytesOf(h) : h \in Handles}
          \union {AwayFrom(b) : b \in Blocks} \union {Buffer}
Own(hd, ub, tk) ==
  [o \in Owners |-> IF o = Buffer THEN ub
                    ELSE IF o[1] = "away" THEN (IF o[2] \in tk THEN o[2] ELSE NULL)
                    ELSE IF o[1] = "struct" THEN hd[o[2]].struct ELSE hd[o[2]].alloc]
OneOwner(own, mem) ==
  /\ \A o, p \in Owners : own[o] = own[p] /\ own[o] # NULL => o = p
  /\ \A b \in Blocks : mem[b] # 0 <=> \E o \in Owners : own[o] = b

(* Where a document's bytes are, and how far they reach there.             *)
IsChild(hd, x) == "CHILD" \in hd[x].flags
Root(hd, x) == IF IsChild(hd, x) THEN hd[x].parent ELSE x
Foreign(hd, x) == Over(hd[x])
Bytes(hd, ub, x) == IF Foreign(hd, Root(hd, x)) THEN ub ELSE hd[Root(hd, x)].alloc
Reach(hd, x) == hd[x].len + (IF IsChild(hd, x) THEN hd[hd[x].parent].len - Empty ELSE 0)
Lives(hd, x) == "DEAD" \notin hd[x].flags
Fits(hd, mem, ub, x) ==
  Lives(hd, x) /\ hd[x].flags \intersect {"INLINE", "RDONLY"} = {} =>
    /\ Bytes(hd, ub, x) \in Blocks /\ mem[Bytes(hd, ub, x)] >= Reach(hd, x)
    /\ Reach(hd, x) <= MaxSize

Nested(hd) ==
  /\ \A x \in Handles : IsChild(hd, x) => /\ "IN_CHILD" \in hd[hd[x].parent].flags
                                          /\ hd[hd[x].parent].len >= Empty
  /\ \A x, y \in Handles : IsChild(hd, x) /\ IsChild(hd, y) /\ hd[x].parent = hd[y].parent => x = y
OneForeign(hd, ub) ==
  /\ \A x, y \in Handles : Foreign(hd, x) /\ Foreign(hd, y) => x = y
  /\ \A x \in Handles : Foreign(hd, x) => ub \in Blocks

(* A document whose bytes need not fit: over the caller's buffer, or with  *)
(* none after it was stolen from there.  It has no child, which would have *)
(* made it grow.                                                           *)
Hollow(r) ==
  /\ "NO_FREE" \in r.flags /\ r.flags \intersect {"DEAD", "INLINE", "RDONLY", "CHILD", "IN_CHILD"} = {}
  /\ "STATIC" \in r.flags => r.alloc = NULL

Kept(hd, mem, ub, tk, hw) ==
  /\ Typed(hd, mem, ub, tk)
  /\ \A x \in Handles : FlagsSay(hd[x])
  /\ OneOwner(Own(hd, ub, tk), mem)
  /\ \A x \in Handles \ hw : Fits(hd, mem, ub, x)
  /\ Nested(hd)
  /\ OneForeign(hd, ub)
  /\ hw \subseteq Handles /\ \A x \in hw : Hollow(hd[x])
Away == taken \union leaked
OneGift == taken \intersect leaked = {} /\ (taken = {} \/ \E b \in Blocks : taken = {b})
HandleInv == Kept(handle, heap, userBuf, Away, hollow) /\ OneGift
-----------------------------------------------------------------------------
LEMMA OwnersDiffer ==
  /\ \A h, k : StructOf(h) # BytesOf(k) /\ StructOf(h) # Buffer /\ StructOf(h) # AwayFrom(k)
               /\ BytesOf(h) # Buffer /\ BytesOf(h) # AwayFrom(k) /\ AwayFrom(h) # Buffer
               /\ (StructOf(h) = StructOf(k) => h = k) /\ (BytesOf(h) = BytesOf(k) => h = k)
               /\ (AwayFrom(h) = AwayFrom(k) => h = k)
  /\ Buffer \in Owners /\ \A b \in Blocks : AwayFrom(b) \in Owners
  /\ \A h \in Handles : StructOf(h) \in Owners /\ BytesOf(h) \in Owners
  /\ \A o \in Owners : \/ o = Buffer
                       \/ \E b \in Blocks : o = AwayFrom(b)
                       \/ \E h \in Handles : o = StructOf(h) \/ o = BytesOf(h)
BY DEF StructOf, BytesOf, Buffer, AwayFrom, Owners

LEMMA OwnIs ==
  ASSUME NEW hd, NEW mem, NEW ub, NEW tk, Typed(hd, mem, ub, tk)
  PROVE  /\ Own(hd, ub, tk) \in [Owners -> Places]
         /\ Own(hd, ub, tk)[Buffer] = ub
         /\ \A b \in Blocks : Own(hd, ub, tk)[AwayFrom(b)] = IF b \in tk THEN b ELSE NULL
         /\ \A h \in Handles : /\ Own(hd, ub, tk)[StructOf(h)] = hd[h].struct
                               /\ Own(hd, ub, tk)[BytesOf(h)] = hd[h].alloc
<1> DEFINE own == Own(hd, ub, tk)
<1>1. \A o \in Owners : own[o] = IF o = Buffer THEN ub
                    ELSE IF o[1] = "away" THEN (IF o[2] \in tk THEN o[2] ELSE NULL)
                    ELSE IF o[1] = "struct" THEN hd[o[2]].struct ELSE hd[o[2]].alloc
  BY DEF Own
<1>2. own[Buffer] = ub BY <1>1, OwnersDiffer
<1>3. \A b \in Blocks : AwayFrom(b)[1] = "away" /\ AwayFrom(b)[2] = b BY DEF AwayFrom
<1>4. \A b \in Blocks : own[AwayFrom(b)] = IF b \in tk THEN b ELSE NULL
  BY <1>1, <1>3, OwnersDiffer
<1>6. \A h \in Handles : StructOf(h)[1] = "struct" /\ StructOf(h)[2] = h
                         /\ BytesOf(h)[1] = "bytes" /\ BytesOf(h)[2] = h
  BY DEF StructOf, BytesOf
<1>7. \A h \in Handles : own[StructOf(h)] = hd[h].struct /\ own[BytesOf(h)] = hd[h].alloc
  BY <1>1, <1>6, OwnersDiffer
<1>8. \A o \in Owners : own[o] \in Places
  <2> TAKE o \in Owners
  <2>1. ub \in Places /\ NULL \in Places /\ \A b \in Blocks : b \in Places BY DEF Typed, Places
  <2>2. \A h \in Handles : hd[h].struct \in Places /\ hd[h].alloc \in Places BY DEF Typed, Records
  <2> HIDE DEF own
  <2>3. \A b \in Blocks : own[AwayFrom(b)] \in Places BY <1>4, <2>1
  <2> QED BY <1>2, <1>7, <2>1, <2>2, <2>3, OwnersDiffer
<1>9. own \in [Owners -> Places]
  <2>1. own = [o \in Owners |-> own[o]] BY DEF Own
  <2> HIDE DEF own
  <2> QED BY <1>8, <2>1
<1> QED BY <1>2, <1>4, <1>7, <1>9

(* What is away stays so.                                                  *)
LEMMA AwayStays ==
  ASSUME NEW hd, NEW mem, NEW ub, NEW tk, Typed(hd, mem, ub, tk),
         NEW hd2, NEW mem2, NEW ub2, Typed(hd2, mem2, ub2, tk)
  PROVE  \A b \in Blocks : Own(hd2, ub2, tk)[AwayFrom(b)] = Own(hd, ub, tk)[AwayFrom(b)]
<1>1. \A b \in Blocks : Own(hd, ub, tk)[AwayFrom(b)] = IF b \in tk THEN b ELSE NULL BY OwnIs
<1>2. \A b \in Blocks : Own(hd2, ub2, tk)[AwayFrom(b)] = IF b \in tk THEN b ELSE NULL BY OwnIs
<1> QED BY <1>1, <1>2

(* An owner lets go of its block, which is freed, and takes another, which *)
(* was free; or one of the two.                                            *)
LEMMA OwnerTakes ==
  ASSUME NEW own \in [Owners -> Places], NEW own2 \in [Owners -> Places], NEW mem, NEW mem2,
         NEW o \in Owners, OneOwner(own, mem),
         \A p \in Owners : p # o => own2[p] = own[p],
         own2[o] \in Blocks => (mem[own2[o]] = 0 \/ own2[o] = own[o]) /\ mem2[own2[o]] # 0,
         own[o] \in Blocks /\ own[o] # own2[o] => mem2[own[o]] = 0,
         \A b \in Blocks : b # own[o] /\ b # own2[o] => (mem2[b] = 0 <=> mem[b] = 0)
  PROVE  OneOwner(own2, mem2)
<1>1. NULL \notin Blocks BY HandleAssumption DEF HandleAssumption
<1>2. \A p \in Owners : own[p] \in Blocks => mem[own[p]] # 0 BY DEF OneOwner
<1>3. ASSUME NEW p \in Owners, NEW q \in Owners, own2[p] = own2[q], own2[p] # NULL PROVE p = q
  <2>1. own2[p] \in Blocks BY <1>3 DEF Places
  <2>2. CASE p # o /\ q # o BY <1>3, <2>2 DEF OneOwner
  <2>3. CASE p = o /\ q # o
    <3>1. own[q] = own2[o] BY <1>3, <2>3
    <3>2. mem[own2[o]] # 0 BY <1>2, <1>3, <2>1, <2>3, <3>1
    <3>3. own[o] = own[q] BY <1>3, <2>1, <2>3, <3>1, <3>2
    <3> QED BY <1>3, <2>3, <3>1, <3>3 DEF OneOwner
  <2>4. CASE q = o /\ p # o
    <3>1. own[p] = own2[o] BY <1>3, <2>4
    <3>2. mem[own2[o]] # 0 BY <1>2, <1>3, <2>1, <2>4, <3>1
    <3>3. own[o] = own[p] BY <1>3, <2>1, <2>4, <3>1, <3>2
    <3> QED BY <1>3, <2>4, <3>1, <3>3 DEF OneOwner
  <2> QED BY <2>2, <2>3, <2>4
<1>4. ASSUME NEW b \in Blocks PROVE mem2[b] # 0 <=> \E p \in Owners : own2[p] = b
  <2>1. CASE b = own2[o] BY <2>1
  <2>2. CASE b # own2[o] /\ b = own[o]
    <3>1. \A p \in Owners : own2[p] = b => p = o BY <1>1, <2>2 DEF OneOwner
    <3> QED BY <2>2, <3>1
  <2>3. CASE b # own2[o] /\ b # own[o]
    <3>1. mem[b] # 0 <=> \E p \in Owners : own[p] = b BY DEF OneOwner
    <3> QED BY <2>3, <3>1
  <2> QED BY <2>1, <2>2, <2>3
<1> QED BY <1>3, <1>4 DEF OneOwner

(* An owner hands its block to one that has none.                          *)
LEMMA OwnerGives ==
  ASSUME NEW own \in [Owners -> Places], NEW own2 \in [Owners -> Places], NEW mem,
         NEW o \in Owners, NEW p \in Owners, OneOwner(own, mem), o # p, own[p] = NULL,
         own2[o] = NULL, own2[p] = own[o], \A q \in Owners \ {o, p} : own2[q] = own[q]
  PROVE  OneOwner(own2, mem)
<1>1. NULL \notin Blocks BY HandleAssumption DEF HandleAssumption
<1>2. ASSUME NEW q \in Owners, NEW r \in Owners, own2[q] = own2[r], own2[q] # NULL PROVE q = r
  <2> DEFINE Was(x) == IF x = p THEN o ELSE x
  <2>1. \A x \in Owners : own2[x] # NULL => own2[x] = own[Was(x)] /\ x # o OBVIOUS
  <2>2. Was(q) = Was(r) BY <1>2, <2>1 DEF OneOwner
  <2> QED BY <1>2, <2>1, <2>2
<1>3. ASSUME NEW b \in Blocks
      PROVE (\E q \in Owners : own[q] = b) <=> \E q \in Owners : own2[q] = b
  <2>1. b # NULL BY <1>1
  <2>2. ASSUME NEW q \in Owners, own[q] = b PROVE \E r \in Owners : own2[r] = b
    BY <2>1, <2>2
  <2>3. ASSUME NEW q \in Owners, own2[q] = b PROVE \E r \in Owners : own[r] = b
    BY <2>1, <2>3
  <2> QED BY <2>2, <2>3
<1> QED BY <1>2, <1>3 DEF OneOwner

(* The block that is allocated next was free; room for two leaves one.     *)
FreeIn(mem) == {b \in Blocks : mem[b] = 0}
LEMMA UnusedIsFree ==
  ASSUME NEW mem \in [Blocks -> Nat], FreeIn(mem) # {}
  PROVE  Unused(mem) \in Blocks /\ mem[Unused(mem)] = 0
<1>1. FreeIn(mem) \in SUBSET Nat BY HandleAssumption DEF HandleAssumption, FreeIn
<1>2. \E x \in FreeIn(mem) : \A y \in FreeIn(mem) : x <= y BY <1>1, LeastNatural
<1>3. Unused(mem) \in FreeIn(mem) BY <1>2 DEF Unused, Min, FreeIn
<1> QED BY <1>3 DEF FreeIn

LEMMA RoomLeft ==
  ASSUME heap \in [Blocks -> Nat], Room(1)
  PROVE  /\ FreeIn(heap) # {}
         /\ Room(2) => \A size \in Nat : FreeIn(Malloc(heap, size)) # {}
<1> DEFINE F == FreeIn(heap)
<1>0. IsFiniteSet(F)
  <2>1. F \subseteq Blocks /\ IsFiniteSet(Blocks)
    BY HandleAssumption DEF HandleAssumption, FreeIn
  <2> QED BY <2>1, FS_Subset
<1>1. Cardinality(F) >= 1 BY DEF Room, FreeIn
<1>2. F # {}
  <2>1. Cardinality({}) = 0 BY FS_EmptySet
  <2> HIDE DEF F
  <2> QED BY <1>1, <2>1
<1>3. ASSUME Room(2), NEW size \in Nat PROVE FreeIn(Malloc(heap, size)) # {}
  <2> DEFINE u == Unused(heap)
  <2>1. u \in F BY <1>2, UnusedIsFree DEF FreeIn
  <2>2. Cardinality(F) >= 2 BY <1>3 DEF Room, FreeIn
  <2>3. Cardinality(F \ {u}) = Cardinality(F) - 1
    <3> HIDE DEF F, u
    <3> QED BY <1>0, <2>1, FS_RemoveElement
  <2>4. Cardinality(F) \in Nat BY <1>0, FS_CardinalityType
  <2>5. F \ {u} # {}
    <3>1. Cardinality({}) = 0 BY FS_EmptySet
    <3> HIDE DEF F, u
    <3> QED BY <2>2, <2>3, <2>4, <3>1
  <2>6. PICK b \in F : b # u BY <2>5
  <2>7. b \in Blocks /\ Malloc(heap, size)[b] = 0 BY <2>6 DEF Malloc, FreeIn
  <2> QED BY <2>7 DEF FreeIn
<1> QED BY <1>2, <1>3

(* A block is allocated for an owner that has none.                        *)
LEMMA Allocates ==
  ASSUME NEW mem \in [Blocks -> Nat], FreeIn(mem) # {}, NEW size \in Nat \ {0},
         NEW own \in [Owners -> Places], OneOwner(own, mem), NEW o \in Owners, own[o] = NULL,
         NEW own2 \in [Owners -> Places], own2[o] = Unused(mem),
         \A p \in Owners : p # o => own2[p] = own[p]
  PROVE  /\ Unused(mem) \in Blocks /\ mem[Unused(mem)] = 0
         /\ Malloc(mem, size) \in [Blocks -> Nat] /\ Malloc(mem, size)[Unused(mem)] = size
         /\ \A b \in Blocks : b # Unused(mem) => Malloc(mem, size)[b] = mem[b]
         /\ OneOwner(own2, Malloc(mem, size))
<1> DEFINE u == Unused(mem)
           mem2 == Malloc(mem, size)
<1>1. u \in Blocks /\ mem[u] = 0 BY UnusedIsFree
<1>2. mem2 = [mem EXCEPT ![u] = size] BY DEF Malloc
<1> HIDE DEF u
<1>3. mem2 \in [Blocks -> Nat] /\ mem2[u] = size /\ \A b \in Blocks : b # u => mem2[b] = mem[b]
  BY <1>1, <1>2
<1> HIDE DEF mem2
<1>4. own2[o] = u BY DEF u
<1>5. NULL \notin Blocks BY HandleAssumption DEF HandleAssumption
<1>6. OneOwner(own2, mem2) BY <1>1, <1>3, <1>4, <1>5, OwnerTakes
<1> QED BY <1>1, <1>3, <1>6 DEF mem2, u

(* The block of an owner is freed, if it has one.                          *)
LEMMA Frees ==
  ASSUME NEW mem \in [Blocks -> Nat], NEW own \in [Owners -> Places], OneOwner(own, mem),
         NEW o \in Owners, NEW x, x = own[o],
         NEW own2 \in [Owners -> Places], own2[o] = NULL,
         \A p \in Owners : p # o => own2[p] = own[p]
  PROVE  /\ FreeBlock(mem, x) \in [Blocks -> Nat]
         /\ \A b \in Blocks : b # x => FreeBlock(mem, x)[b] = mem[b]
         /\ x \in Blocks => FreeBlock(mem, x)[x] = 0
         /\ OneOwner(own2, FreeBlock(mem, x))
<1> DEFINE mem2 == FreeBlock(mem, x)
<1>1. NULL \notin Blocks BY HandleAssumption DEF HandleAssumption
<1>2. x \in Blocks \/ x = NULL BY DEF Places
<1>3. mem2 \in [Blocks -> Nat] /\ (\A b \in Blocks : b # x => mem2[b] = mem[b])
      /\ (x \in Blocks => mem2[x] = 0)
  BY <1>1, <1>2 DEF FreeBlock
<1> HIDE DEF mem2
<1>6. OneOwner(own2, mem2) BY <1>1, <1>3, OwnerTakes
<1> QED BY <1>3, <1>6 DEF mem2
-----------------------------------------------------------------------------
LEMMA Sizes ==
  /\ Empty = 2 /\ MaxSize \in Nat /\ InlineCap \in Nat /\ BeginSize \in Nat
  /\ Empty <= InlineCap /\ InlineCap < BeginSize /\ 2 * BeginSize <= MaxSize
  /\ \A n \in Nat : n <= 2 * MaxSize => n <= 2 ^ 32
<1>1. 2 ^ 32 = 2 * 2147483648 BY Z3
<1>2. \A n \in Nat : n <= 2 * MaxSize => n <= 2 * 2147483648
  BY SizeAssumption, SMT DEF SizeAssumption
<1>3. \A n \in Nat : n <= 2 * MaxSize => n <= 2 ^ 32 BY <1>1, <1>2, Z3
<1>4. /\ Empty = 2 /\ MaxSize \in Nat /\ InlineCap \in Nat /\ BeginSize \in Nat
      /\ Empty <= InlineCap /\ InlineCap < BeginSize /\ 2 * BeginSize <= MaxSize
  BY SizeAssumption, SMT DEF SizeAssumption, Empty
<1> QED BY <1>3, <1>4

(* What BlocksOwned says follows.                                          *)
LEMMA HandleSaid == HandleInv => BlocksOwned
<1> SUFFICES ASSUME HandleInv PROVE BlocksOwned OBVIOUS
<1> DEFINE own == Own(handle, userBuf, Away)
<1>0. Typed(handle, heap, userBuf, Away) /\ NULL \notin Blocks /\ OneGift
      /\ taken \subseteq Away /\ leaked \subseteq Away
  BY HandleAssumption DEF HandleAssumption, HandleInv, Kept, Away
<1>1. /\ own[Buffer] = userBuf
      /\ \A h \in Handles : own[StructOf(h)] = handle[h].struct /\ own[BytesOf(h)] = handle[h].alloc
      /\ \A b \in Blocks : own[AwayFrom(b)] = IF b \in Away THEN b ELSE NULL
  BY <1>0, OwnIs
<1>2. OneOwner(own, heap) BY DEF HandleInv, Kept
<1> HIDE DEF own
<1>3. ASSUME NEW b \in Blocks
      PROVE  Cardinality(Holders(b)) = IF heap[b] = 0 \/ b \in leaked THEN 0 ELSE 1
  <2>0. b # NULL /\ own[AwayFrom(b)] = (IF b \in Away THEN b ELSE NULL) BY <1>0, <1>1
  <2>1. \A o : o \in Holders(b) <=> \/ \E h \in Handles : o = StructOf(h) /\ handle[h].struct = b
                                    \/ \E h \in Handles : o = BytesOf(h) /\ handle[h].alloc = b
                                    \/ o = Buffer /\ userBuf = b
                                    \/ o = <<"caller", "taken">> /\ b \in taken
    BY DEF Holders, StructOf, BytesOf, Buffer
  <2>2. \A o : o \in Holders(b) =>
          \/ o \in Owners /\ own[o] = b /\ o # AwayFrom(b)
          \/ o = <<"caller", "taken">> /\ b \in taken
    <3> TAKE o
    <3> HAVE o \in Holders(b)
    <3>1. CASE o = <<"caller", "taken">> /\ b \in taken BY <3>1
    <3>2. CASE \E h \in Handles : o = StructOf(h) /\ handle[h].struct = b
      BY <1>1, <3>2, OwnersDiffer
    <3>3. CASE \E h \in Handles : o = BytesOf(h) /\ handle[h].alloc = b
      BY <1>1, <3>3, OwnersDiffer
    <3>4. CASE o = Buffer /\ userBuf = b BY <1>1, <3>4, OwnersDiffer
    <3> QED BY <2>1, <3>1, <3>2, <3>3, <3>4
  <2>3. \A o \in Owners : own[o] = b /\ o # AwayFrom(b) => o \in Holders(b)
    <3> TAKE o \in Owners
    <3> HAVE own[o] = b /\ o # AwayFrom(b)
    <3>1. \A c \in Blocks : o = AwayFrom(c) => FALSE BY <1>1, <2>0
    <3>2. \/ \E h \in Handles : o = StructOf(h) /\ handle[h].struct = b
          \/ \E h \in Handles : o = BytesOf(h) /\ handle[h].alloc = b
          \/ o = Buffer /\ userBuf = b
      BY <1>1, <3>1, OwnersDiffer
    <3> QED BY <2>1, <3>2
  <2>4. CASE b \in Away
    <3>1. own[AwayFrom(b)] = b /\ AwayFrom(b) \in Owners BY <2>0, <2>4, OwnersDiffer
    <3>2. \A o \in Owners : own[o] = b => o = AwayFrom(b) BY <1>2, <2>0, <3>1 DEF OneOwner
    <3>3. heap[b] # 0 BY <1>2, <3>1 DEF OneOwner
    <3>4. \A o : o \in Holders(b) <=> o = <<"caller", "taken">> /\ b \in taken
      BY <2>1, <2>2, <3>2
    <3>5. CASE b \in leaked
      <4>1. b \notin taken BY <1>0, <3>5 DEF OneGift
      <4>2. Holders(b) = {} BY <3>4, <4>1
      <4> QED BY <3>5, <4>2, FS_EmptySet
    <3>6. CASE b \notin leaked
      <4>1. b \in taken BY <2>4, <3>6 DEF Away
      <4>2. Holders(b) = {<<"caller", "taken">>} BY <3>4, <4>1
      <4> QED BY <3>3, <3>6, <4>2, FS_Singleton
    <3> QED BY <3>5, <3>6
  <2>5. CASE b \notin Away
    <3>1. b \notin taken /\ b \notin leaked /\ own[AwayFrom(b)] # b BY <1>0, <2>0, <2>5
    <3>2. \A o : o \in Holders(b) <=> o \in Owners /\ own[o] = b BY <2>2, <2>3, <3>1
    <3>3. CASE heap[b] = 0
      <4>1. Holders(b) = {} BY <1>2, <3>2, <3>3 DEF OneOwner
      <4> QED BY <3>3, <4>1, FS_EmptySet
    <3>4. CASE heap[b] # 0
      <4>1. PICK o \in Owners : own[o] = b BY <1>2, <3>4 DEF OneOwner
      <4>2. \A q \in Owners : own[q] = b => q = o BY <1>2, <2>0, <4>1 DEF OneOwner
      <4>3. Holders(b) = {o} BY <3>2, <4>1, <4>2
      <4> QED BY <3>1, <3>4, <4>3, FS_Singleton
    <3> QED BY <3>3, <3>4
  <2> QED BY <2>4, <2>5
<1>4. ASSUME NEW h \in Handles \ hollow, Live(h)
      PROVE IF Has(h, {"INLINE"}) THEN handle[h].len <= InlineCap
            ELSE Has(h, {"RDONLY"}) \/ (Buf(h) # NULL /\ heap[Buf(h)] >= handle[h].len)
  <2>1. FlagsSay(handle[h]) /\ Fits(handle, heap, userBuf, h) BY DEF HandleInv, Kept
  <2>2. CASE Has(h, {"INLINE"}) BY <1>4, <2>1, <2>2 DEF Has, FlagsSay, Live
  <2>3. CASE ~Has(h, {"INLINE"}) /\ ~Has(h, {"RDONLY"})
    <3>1. Buf(h) = Bytes(handle, userBuf, h)
      BY DEF Buf, OwnBuf, OverCaller, Has, Bytes, Root, IsChild, Foreign, Over
    <3>2. Buf(h) \in Blocks /\ heap[Buf(h)] >= Reach(handle, h)
      BY <1>4, <2>1, <2>3, <3>1 DEF Fits, Lives, Live, Has
    <3>3. heap[Buf(h)] \in Nat /\ handle[h].len \in Nat BY <1>0, <3>2 DEF Typed, Records
    <3>4. Reach(handle, h) \in Nat /\ Reach(handle, h) >= handle[h].len
      <4>1. CASE ~IsChild(handle, h) BY <3>3, <4>1 DEF Reach
      <4>2. CASE IsChild(handle, h)
        <5> DEFINE p == handle[h].parent
        <5>1. p \in Handles BY <1>4, <2>1, <4>2 DEF FlagsSay, IsChild, Live
        <5>2. handle[p].len >= Empty /\ handle[p].len \in Nat
          BY <1>0, <4>2, <5>1 DEF HandleInv, Kept, Nested, Typed, Records
        <5> QED BY <3>3, <4>2, <5>2, Sizes DEF Reach
      <4> QED BY <4>1, <4>2
    <3> DEFINE room == heap[Buf(h)]
               reach == Reach(handle, h)
               len == handle[h].len
    <3>5. room >= len
      <4>1. room \in Nat /\ len \in Nat /\ reach \in Nat /\ room >= reach /\ reach >= len
        BY <3>2, <3>3, <3>4
      <4> HIDE DEF room, len, reach
      <4> QED BY <4>1
    <3> QED BY <1>0, <2>3, <3>2, <3>5
  <2> QED BY <2>2, <2>3
<1> QED BY <1>3, <1>4 DEF BlocksOwned

(* A document's bytes lie in a block that is its root's alone.             *)
LEMMA RootLives ==
  ASSUME NEW hd, NEW mem, NEW ub, NEW tk, NEW hw, Kept(hd, mem, ub, tk, hw),
         NEW x \in Handles, Lives(hd, x)
  PROVE  /\ Root(hd, x) \in Handles /\ Lives(hd, Root(hd, x)) /\ ~IsChild(hd, Root(hd, x))
         /\ IsChild(hd, x) => /\ "IN_CHILD" \in hd[Root(hd, x)].flags
                              /\ hd[Root(hd, x)].len >= Empty
                              /\ hd[x].parent = Root(hd, x) /\ Root(hd, x) # x
                              /\ hd[x].flags \intersect {"INLINE", "RDONLY", "IN_CHILD"} = {}
                              /\ hd[Root(hd, x)].flags \intersect {"INLINE", "RDONLY"} = {}
                              /\ x \notin hw /\ Root(hd, x) \notin hw
         /\ ~IsChild(hd, x) => Root(hd, x) = x
         /\ hd[x].len \in 1..MaxSize
<1>1. \A y \in Handles : FlagsSay(hd[y]) BY DEF Kept
<1>2. hd[x].len \in 1..MaxSize BY <1>1 DEF FlagsSay, Lives
<1>3. CASE ~IsChild(hd, x) BY <1>2, <1>3 DEF Root
<1>4. CASE IsChild(hd, x)
  <2> DEFINE p == hd[x].parent
  <2>1. Root(hd, x) = p /\ p \in Handles BY <1>1, <1>4 DEF Root, FlagsSay, IsChild, Lives
  <2>2. "IN_CHILD" \in hd[p].flags /\ hd[p].len >= Empty BY <1>4, <2>1 DEF Kept, Nested
  <2>3. hd[x].flags \intersect {"INLINE", "RDONLY", "IN_CHILD"} = {}
    BY <1>1, <1>4 DEF FlagsSay, IsChild, Lives
  <2>4. Lives(hd, p)
    <3> SUFFICES ASSUME "DEAD" \in hd[p].flags PROVE FALSE BY DEF Lives
    <3>1. hd[p] = Dead BY <1>1, <2>1 DEF FlagsSay
    <3> QED BY <2>2, <3>1 DEF Dead
  <2>5. ~IsChild(hd, p) /\ hd[p].flags \intersect {"INLINE", "RDONLY"} = {}
    BY <1>1, <2>1, <2>2, <2>4 DEF FlagsSay, IsChild, Lives
  <2>6. x \notin hw /\ p \notin hw BY <1>4, <2>2 DEF Kept, Hollow, IsChild
  <2> QED BY <1>2, <1>4, <2>1, <2>2, <2>3, <2>4, <2>5, <2>6
<1> QED BY <1>3, <1>4

LEMMA BytesHeld ==
  ASSUME NEW hd, NEW mem, NEW ub, NEW tk, NEW hw, Kept(hd, mem, ub, tk, hw),
         NEW x \in Handles \ hw, Lives(hd, x), hd[x].flags \intersect {"INLINE", "RDONLY"} = {}
  PROVE  /\ Bytes(hd, ub, x) \in Blocks /\ mem[Bytes(hd, ub, x)] \in Nat \ {0}
         /\ Reach(hd, x) \in 1..MaxSize /\ mem[Bytes(hd, ub, x)] >= Reach(hd, x)
         /\ Reach(hd, x) >= hd[x].len /\ Bytes(hd, ub, x) # NULL
         /\ \A h \in Handles : /\ Bytes(hd, ub, x) # hd[h].struct
                               /\ h # Root(hd, x) => Bytes(hd, ub, x) # hd[h].alloc
         /\ ~Foreign(hd, Root(hd, x)) => Bytes(hd, ub, x) # ub
         /\ Bytes(hd, ub, x) \notin tk
<1> DEFINE r == Root(hd, x)
           own == Own(hd, ub, tk)
           o == IF Foreign(hd, r) THEN Buffer ELSE BytesOf(r)
           at == Bytes(hd, ub, x)
<1>0. Typed(hd, mem, ub, tk) /\ NULL \notin Blocks /\ OneOwner(own, mem)
      /\ MaxSize \in Nat /\ Empty = 2
  BY HandleAssumption, Sizes DEF HandleAssumption, Kept
<1>1. r \in Handles /\ ~IsChild(hd, r) /\ Lives(hd, r) /\ (IsChild(hd, x) => hd[r].len >= Empty)
  BY RootLives
<1>2. at = IF Foreign(hd, r) THEN ub ELSE hd[r].alloc BY DEF Bytes
<1>3. at \in Blocks /\ mem[at] >= Reach(hd, x) /\ Reach(hd, x) <= MaxSize BY DEF Kept, Fits
<1>4. hd[r].len \in 1..MaxSize /\ hd[x].len \in 1..MaxSize BY <1>1, RootLives
<1>5. Reach(hd, x) \in 1..MaxSize /\ Reach(hd, x) >= hd[x].len
  <2>1. CASE ~IsChild(hd, x)
    <3>1. Reach(hd, x) = hd[x].len + 0 BY <2>1 DEF Reach
    <3> QED BY <1>0, <1>4, <3>1
  <2>2. CASE IsChild(hd, x)
    <3>1. Reach(hd, x) = hd[x].len + (hd[r].len - Empty) BY <2>2 DEF Reach, Root
    <3> QED BY <1>0, <1>1, <1>3, <1>4, <2>2, <3>1
  <2> QED BY <2>1, <2>2
<1>6. mem[at] \in Nat \ {0}
  <2>1. mem[at] \in Nat BY <1>0, <1>3 DEF Typed
  <2> HIDE DEF at
  <2> QED BY <1>0, <1>3, <1>5, <2>1
<1>7. /\ own[Buffer] = ub
      /\ \A h \in Handles : own[StructOf(h)] = hd[h].struct /\ own[BytesOf(h)] = hd[h].alloc
      /\ \A b \in Blocks : own[AwayFrom(b)] = IF b \in tk THEN b ELSE NULL
  BY <1>0, OwnIs
<1> HIDE DEF own, r, at
<1>8. o \in Owners /\ own[o] = at BY <1>1, <1>2, <1>7, OwnersDiffer
<1>9. \A p \in Owners : own[p] = at => p = o BY <1>0, <1>3, <1>8 DEF OneOwner
<1>10. \A h \in Handles : at # hd[h].struct /\ (h # r => at # hd[h].alloc)
  BY <1>1, <1>7, <1>9, OwnersDiffer
<1>11. ~Foreign(hd, r) => at # ub BY <1>1, <1>7, <1>9, OwnersDiffer
<1>12. at \notin tk BY <1>1, <1>3, <1>7, <1>9, OwnersDiffer
<1> QED BY <1>0, <1>3, <1>5, <1>6, <1>10, <1>11, <1>12 DEF r, at

(* Only the blocks change, and none in which a document's bytes are.       *)
LEMMA BlocksChange ==
  ASSUME NEW hd, NEW mem, NEW ub, NEW tk, NEW hw, Kept(hd, mem, ub, tk, hw),
         NEW mem2, NEW ub2, NEW tk2,
         Typed(hd, mem2, ub2, tk2), OneOwner(Own(hd, ub2, tk2), mem2),
         ub2 # ub => \A x \in Handles : ~Foreign(hd, x),
         \A x \in Handles \ hw : Lives(hd, x) /\ hd[x].flags \intersect {"INLINE", "RDONLY"} = {} =>
                                   mem2[Bytes(hd, ub, x)] = mem[Bytes(hd, ub, x)]
  PROVE  Kept(hd, mem2, ub2, tk2, hw)
<1>1. ASSUME NEW x \in Handles \ hw PROVE Fits(hd, mem2, ub2, x)
  <2> SUFFICES ASSUME Lives(hd, x), hd[x].flags \intersect {"INLINE", "RDONLY"} = {}
               PROVE  /\ Bytes(hd, ub2, x) \in Blocks /\ mem2[Bytes(hd, ub2, x)] >= Reach(hd, x)
                      /\ Reach(hd, x) <= MaxSize
    BY DEF Fits
  <2>1. Fits(hd, mem, ub, x) BY DEF Kept
  <2>2. Root(hd, x) \in Handles BY RootLives
  <2>3. Bytes(hd, ub2, x) = Bytes(hd, ub, x)
    <3>1. CASE ub2 = ub BY <3>1
    <3>2. CASE ub2 # ub BY <2>2, <3>2 DEF Bytes
    <3> QED BY <3>1, <3>2
  <2> QED BY <2>1, <2>3 DEF Fits
<1>2. OneForeign(hd, ub2) BY DEF Kept, OneForeign
<1> QED BY <1>1, <1>2 DEF Kept

(* A document comes to be.                                                 *)
LEMMA Arrives ==
  ASSUME NEW hd, NEW mem, NEW ub, NEW tk, NEW hw, Kept(hd, mem, ub, tk, hw),
         NEW h \in Handles, ~Lives(hd, h), NEW r \in Records, FlagsSay(r),
         r.flags \intersect {"DEAD", "CHILD", "IN_CHILD"} = {},
         NEW mem2, NEW ub2, NEW hd2, hd2[h] = r, \A x \in Handles : x # h => hd2[x] = hd[x],
         Typed(hd2, mem2, ub2, tk), OneOwner(Own(hd2, ub2, tk), mem2),
         ub2 # ub => ub = NULL,
         Over(r) => ub2 \in Blocks /\ \A x \in Handles : ~Foreign(hd, x),
         \A b \in Blocks : mem[b] # 0 => mem2[b] = mem[b],
         NEW hw2, hw2 = hw \/ hw2 = hw \union {h},
         IF h \in hw2 THEN Hollow(r) ELSE Fits(hd2, mem2, ub2, h)
  PROVE  Kept(hd2, mem2, ub2, tk, hw2)
<1>0. hd \in [Handles -> Records] /\ NULL \notin Blocks
  BY HandleAssumption DEF HandleAssumption, Kept, Typed
<1>1. hd2[h] = r /\ \A x \in Handles : x # h => hd2[x] = hd[x] OBVIOUS
<1>2. hd[h] = Dead BY DEF Kept, FlagsSay, Lives
<1>3. \A x \in Handles : IsChild(hd2, x) => x # h /\ IsChild(hd, x) BY <1>1 DEF IsChild
<1>4. ASSUME NEW x \in Handles, x # h, IsChild(hd, x)
      PROVE  hd[x].parent \in Handles /\ hd[x].parent # h /\ hd2[hd[x].parent] = hd[hd[x].parent]
  <2>1. Lives(hd, x) BY <1>4 DEF Kept, FlagsSay, Lives, IsChild, Dead
  <2>2. hd[x].parent \in Handles /\ "IN_CHILD" \in hd[hd[x].parent].flags BY <1>4, <2>1, RootLives
  <2>3. hd[x].parent # h BY <1>2, <2>2 DEF Dead
  <2> QED BY <1>1, <2>2, <2>3
<1>5. \A x \in Handles : Foreign(hd, x) => ub \in Blocks /\ ub # NULL
  BY <1>0 DEF Kept, OneForeign
<1>a. h \notin hw /\ hw \subseteq Handles BY <1>2 DEF Kept, Hollow, Dead
<1>6. ASSUME NEW x \in Handles \ hw, x # h PROVE Fits(hd2, mem2, ub2, x)
  <2> SUFFICES ASSUME Lives(hd, x), hd[x].flags \intersect {"INLINE", "RDONLY"} = {}
               PROVE  /\ Bytes(hd2, ub2, x) \in Blocks /\ mem2[Bytes(hd2, ub2, x)] >= Reach(hd2, x)
                      /\ Reach(hd2, x) <= MaxSize
    BY <1>1, <1>6 DEF Fits, Lives
  <2>1. Fits(hd, mem, ub, x) BY DEF Kept
  <2>2. Root(hd2, x) = Root(hd, x) /\ hd2[Root(hd, x)] = hd[Root(hd, x)]
    BY <1>1, <1>4, <1>6 DEF Root, IsChild
  <2>3. Reach(hd2, x) = Reach(hd, x) BY <1>1, <1>4, <1>6 DEF Reach, IsChild
  <2>4. Root(hd, x) \in Handles /\ ~IsChild(hd, Root(hd, x)) BY RootLives
  <2>5. Bytes(hd2, ub2, x) = Bytes(hd, ub, x)
    <3>1. CASE Foreign(hd, Root(hd, x))
      <4>1. ub2 = ub BY <1>5, <2>4, <3>1
      <4> QED BY <2>2, <4>1 DEF Bytes, Foreign
    <3>2. CASE ~Foreign(hd, Root(hd, x)) BY <2>2, <3>2 DEF Bytes, Foreign
    <3> QED BY <3>1, <3>2
  <2>6. mem2[Bytes(hd, ub, x)] = mem[Bytes(hd, ub, x)] BY BytesHeld
  <2> QED BY <2>1, <2>3, <2>5, <2>6 DEF Fits
<1>7. Nested(hd2)
  <2>1. \A x \in Handles : IsChild(hd2, x) => /\ "IN_CHILD" \in hd2[hd2[x].parent].flags
                                             /\ hd2[hd2[x].parent].len >= Empty
    BY <1>1, <1>3, <1>4 DEF Kept, Nested
  <2>2. \A x, y \in Handles :
          IsChild(hd2, x) /\ IsChild(hd2, y) /\ hd2[x].parent = hd2[y].parent => x = y
    BY <1>1, <1>3 DEF Kept, Nested
  <2> QED BY <2>1, <2>2 DEF Nested
<1>8. OneForeign(hd2, ub2)
  <2>1. \A x \in Handles : x # h => (Foreign(hd2, x) <=> Foreign(hd, x)) BY <1>1 DEF Foreign
  <2>2. Foreign(hd2, h) <=> Over(r) BY <1>1 DEF Foreign
  <2> QED BY <1>5, <2>1, <2>2 DEF Kept, OneForeign
<1>9. \A x \in Handles : FlagsSay(hd2[x]) BY <1>1 DEF Kept
<1>10. \A x \in Handles \ hw2 : Fits(hd2, mem2, ub2, x) BY <1>6, <1>a
<1>11. hw2 \subseteq Handles /\ \A x \in hw2 : Hollow(hd2[x]) BY <1>1, <1>a DEF Kept
<1> QED BY <1>7, <1>8, <1>9, <1>10, <1>11 DEF Kept

(* A document that is no child and has none goes.                          *)
LEMMA Leaves ==
  ASSUME NEW hd, NEW mem, NEW ub, NEW tk, NEW hw, Kept(hd, mem, ub, tk, hw),
         NEW h \in Handles, Lives(hd, h), hd[h].flags \intersect {"CHILD", "IN_CHILD"} = {},
         NEW mem2, NEW ub2, NEW tk2,
         NEW hd2, hd2[h] = Dead, \A x \in Handles : x # h => hd2[x] = hd[x],
         Typed(hd2, mem2, ub2, tk2), OneOwner(Own(hd2, ub2, tk2), mem2),
         ub2 # ub => Foreign(hd, h),
         \A b \in Blocks : mem[b] # 0 /\ b # hd[h].struct /\ b # hd[h].alloc => mem2[b] = mem[b],
         NEW hw2, hw2 = hw \ {h}
  PROVE  Kept(hd2, mem2, ub2, tk2, hw2)
<1>0. hd \in [Handles -> Records] BY DEF Kept, Typed
<1>1. hd2[h] = Dead /\ \A x \in Handles : x # h => hd2[x] = hd[x] OBVIOUS
<1>3. \A x \in Handles : IsChild(hd2, x) => x # h /\ IsChild(hd, x) BY <1>1 DEF IsChild, Dead
<1>4. ASSUME NEW x \in Handles, x # h, IsChild(hd, x)
      PROVE  hd[x].parent \in Handles /\ hd[x].parent # h /\ hd2[hd[x].parent] = hd[hd[x].parent]
  <2>1. Lives(hd, x) BY <1>4 DEF Kept, FlagsSay, Lives, IsChild, Dead
  <2>2. hd[x].parent \in Handles /\ "IN_CHILD" \in hd[hd[x].parent].flags BY <1>4, <2>1, RootLives
  <2> QED BY <1>1, <2>2
<1>6. ASSUME NEW x \in Handles \ hw, x # h PROVE Fits(hd2, mem2, ub2, x)
  <2> SUFFICES ASSUME Lives(hd, x), hd[x].flags \intersect {"INLINE", "RDONLY"} = {}
               PROVE  /\ Bytes(hd2, ub2, x) \in Blocks /\ mem2[Bytes(hd2, ub2, x)] >= Reach(hd2, x)
                      /\ Reach(hd2, x) <= MaxSize
    BY <1>1, <1>6 DEF Fits, Lives
  <2>1. Fits(hd, mem, ub, x) BY DEF Kept
  <2>2. Root(hd2, x) = Root(hd, x) /\ hd2[Root(hd, x)] = hd[Root(hd, x)] /\ Root(hd, x) # h
    BY <1>1, <1>4, <1>6 DEF Root, IsChild
  <2>3. Reach(hd2, x) = Reach(hd, x) BY <1>1, <1>4, <1>6 DEF Reach, IsChild
  <2>4. Root(hd, x) \in Handles /\ ~IsChild(hd, Root(hd, x)) BY RootLives
  <2>5. Bytes(hd2, ub2, x) = Bytes(hd, ub, x)
    <3>1. CASE Foreign(hd, Root(hd, x))
      <4>1. ub2 = ub BY <2>2, <2>4, <3>1 DEF Kept, OneForeign
      <4> QED BY <2>2, <4>1 DEF Bytes, Foreign
    <3>2. CASE ~Foreign(hd, Root(hd, x)) BY <2>2, <3>2 DEF Bytes, Foreign
    <3> QED BY <3>1, <3>2
  <2>6. mem2[Bytes(hd, ub, x)] = mem[Bytes(hd, ub, x)]
    <3>1. Bytes(hd, ub, x) # hd[h].struct /\ Bytes(hd, ub, x) # hd[h].alloc BY <2>2, BytesHeld
    <3> QED BY <3>1, BytesHeld
  <2> QED BY <2>1, <2>3, <2>5, <2>6 DEF Fits
<1>7. Nested(hd2)
  <2>1. \A x \in Handles : IsChild(hd2, x) => /\ "IN_CHILD" \in hd2[hd2[x].parent].flags
                                             /\ hd2[hd2[x].parent].len >= Empty
    BY <1>1, <1>3, <1>4 DEF Kept, Nested
  <2>2. \A x, y \in Handles :
          IsChild(hd2, x) /\ IsChild(hd2, y) /\ hd2[x].parent = hd2[y].parent => x = y
    BY <1>1, <1>3 DEF Kept, Nested
  <2> QED BY <2>1, <2>2 DEF Nested
<1>8. OneForeign(hd2, ub2)
  <2>1. \A x \in Handles : Foreign(hd2, x) => Foreign(hd, x) /\ x # h
    BY <1>1 DEF Foreign, Over, Dead
  <2> QED BY <2>1 DEF Kept, OneForeign
<1>9. \A x \in Handles : FlagsSay(hd2[x])
  <2>1. FlagsSay(Dead) BY DEF FlagsSay, Dead
  <2> QED BY <1>1, <2>1 DEF Kept
<1>10. Fits(hd2, mem2, ub2, h) BY <1>1 DEF Fits, Lives, Dead
<1>11. \A x \in Handles \ hw2 : Fits(hd2, mem2, ub2, x) BY <1>6, <1>10
<1>12. hw2 \subseteq Handles /\ \A x \in hw2 : Hollow(hd2[x]) BY <1>1 DEF Kept
<1> QED BY <1>7, <1>8, <1>9, <1>11, <1>12 DEF Kept

(* Who owns what depends on the two fields that say where blocks are.      *)
LEMMA SameOwners ==
  ASSUME NEW hd, NEW hd2, NEW mem, NEW ub, NEW tk, Typed(hd, mem, ub, tk), Typed(hd2, mem, ub, tk),
         \A x \in Handles : hd2[x].struct = hd[x].struct /\ hd2[x].alloc = hd[x].alloc
  PROVE  Own(hd2, ub, tk) = Own(hd, ub, tk)
<1> DEFINE own == Own(hd, ub, tk)
           own2 == Own(hd2, ub, tk)
<1>1. own \in [Owners -> Places] /\ own2 \in [Owners -> Places] BY OwnIs
<1>2. own[Buffer] = own2[Buffer] BY OwnIs
<1>3. \A b \in Blocks : own[AwayFrom(b)] = own2[AwayFrom(b)] BY AwayStays
<1>4. \A x \in Handles : own[StructOf(x)] = own2[StructOf(x)] /\ own[BytesOf(x)] = own2[BytesOf(x)]
  BY OwnIs
<1> HIDE DEF own, own2
<1>5. \A o \in Owners : own[o] = own2[o] BY <1>2, <1>3, <1>4, OwnersDiffer
<1>6. own = own2 BY <1>1, <1>5
<1> QED BY <1>6 DEF own, own2

(* A document's length changes within its room.                            *)
Lengthened(hd, h, len) == [hd EXCEPT ![h].len = len]
LEMMA Resized ==
  ASSUME NEW hd, NEW mem, NEW ub, NEW tk, NEW hw, Kept(hd, mem, ub, tk, hw),
         NEW h \in Handles \ hw, Lives(hd, h), "IN_CHILD" \notin hd[h].flags,
         NEW len \in 1..MaxSize, "INLINE" \in hd[h].flags => len <= InlineCap,
         hd[h].flags \intersect {"INLINE", "RDONLY"} = {} =>
           /\ len + (Reach(hd, h) - hd[h].len) <= mem[Bytes(hd, ub, h)]
           /\ len + (Reach(hd, h) - hd[h].len) <= MaxSize,
         NEW hd2, hd2 = Lengthened(hd, h, len)
  PROVE  Kept(hd2, mem, ub, tk, hw)
<1>0. hd \in [Handles -> Records] /\ Typed(hd, mem, ub, tk) /\ Empty = 2 /\ MaxSize \in Nat
  BY Sizes DEF Kept, Typed
<1>1. hd2[h] = [hd[h] EXCEPT !.len = len] /\ \A x \in Handles : x # h => hd2[x] = hd[x]
  BY <1>0 DEF Lengthened
<1>2. hd2[h] \in Records /\ hd2[h].flags = hd[h].flags /\ hd2[h].struct = hd[h].struct
      /\ hd2[h].alloc = hd[h].alloc /\ hd2[h].parent = hd[h].parent /\ hd2[h].len = len
  BY <1>0, <1>1 DEF Records
<1>3. Typed(hd2, mem, ub, tk)
  <2>1. hd2 \in [Handles -> Records]
    <3>1. hd2 = [x \in Handles |-> hd2[x]] BY <1>0 DEF Lengthened
    <3>2. \A x \in Handles : hd2[x] \in Records BY <1>0, <1>1, <1>2
    <3> QED BY <3>1, <3>2
  <2> QED BY <1>0, <2>1 DEF Typed
<1>4. \A x \in Handles : hd2[x].flags = hd[x].flags /\ hd2[x].struct = hd[x].struct
                         /\ hd2[x].alloc = hd[x].alloc /\ hd2[x].parent = hd[x].parent
  BY <1>1, <1>2
<1>5. \A x \in Handles : FlagsSay(hd2[x])
  <2>1. FlagsSay(hd[h]) BY DEF Kept
  <2>2. FlagsSay(hd2[h]) BY <1>2, <2>1 DEF FlagsSay, Lives, Over
  <2> QED BY <1>1, <2>2 DEF Kept
<1>6. OneOwner(Own(hd2, ub, tk), mem) BY <1>0, <1>3, <1>4, SameOwners DEF Kept
<1>7. ASSUME NEW x \in Handles \ hw PROVE Fits(hd2, mem, ub, x)
  <2> SUFFICES ASSUME Lives(hd, x), hd[x].flags \intersect {"INLINE", "RDONLY"} = {}
               PROVE  /\ Bytes(hd2, ub, x) \in Blocks /\ mem[Bytes(hd2, ub, x)] >= Reach(hd2, x)
                      /\ Reach(hd2, x) <= MaxSize
    BY <1>4 DEF Fits, Lives
  <2>1. Root(hd2, x) = Root(hd, x) /\ Root(hd, x) \in Handles BY <1>4, RootLives DEF Root, IsChild
  <2>2. Bytes(hd2, ub, x) = Bytes(hd, ub, x) BY <1>4, <2>1 DEF Bytes, Foreign, Over
  <2>3. Bytes(hd, ub, x) \in Blocks /\ mem[Bytes(hd, ub, x)] >= Reach(hd, x)
        /\ Reach(hd, x) \in 1..MaxSize /\ mem[Bytes(hd, ub, x)] \in Nat
    BY BytesHeld
  <2>4. IsChild(hd, x) => hd[x].parent \in Handles /\ hd[x].parent # h BY RootLives
  <2>5. CASE x # h
    <3>1. Reach(hd2, x) = Reach(hd, x) BY <1>1, <1>4, <2>4, <2>5 DEF Reach, IsChild
    <3> QED BY <1>0, <2>2, <2>3, <3>1
  <2>6. CASE x = h
    <3> DEFINE around == IF IsChild(hd, x) THEN hd[hd[x].parent].len - Empty ELSE 0
    <3>1. around \in Int
      <4>1. IsChild(hd, x) => hd[hd[x].parent].len \in Nat BY <1>0, <2>4 DEF Records
      <4> QED BY <1>0, <4>1
    <3>2. Reach(hd, x) = hd[x].len + around BY DEF Reach
    <3>3. Reach(hd2, x) = len + around
      <4>1. IsChild(hd, x) => hd2[hd[x].parent] = hd[hd[x].parent] BY <1>1, <2>4, <2>6
      <4> QED BY <1>2, <1>4, <2>6, <4>1 DEF Reach, IsChild
    <3>4. hd[x].len \in Nat BY <1>0 DEF Records
    <3> HIDE DEF around
    <3>5. len + (Reach(hd, h) - hd[h].len) = Reach(hd2, x) BY <2>6, <3>1, <3>2, <3>3, <3>4, <1>0
    <3>6. Reach(hd2, x) <= mem[Bytes(hd, ub, x)] /\ Reach(hd2, x) <= MaxSize BY <2>6, <3>5
    <3>7. Reach(hd2, x) \in Int BY <1>0, <3>1, <3>3
    <3> QED BY <2>2, <2>3, <3>6, <3>7
  <2> QED BY <2>5, <2>6
<1>8. Nested(hd2)
  <2>1. \A x \in Handles : IsChild(hd, x) =>
          hd[x].parent \in Handles /\ hd2[hd[x].parent].len >= Empty
    <3> TAKE x \in Handles
    <3> HAVE IsChild(hd, x)
    <3>1. Lives(hd, x) BY DEF Kept, FlagsSay, Lives, IsChild, Dead
    <3>2. hd[x].parent \in Handles /\ hd[x].parent # h BY <3>1, RootLives
    <3>3. hd[hd[x].parent].len >= Empty BY <3>1, RootLives
    <3> QED BY <1>1, <3>2, <3>3
  <2> QED BY <1>4, <2>1 DEF Kept, Nested, IsChild
<1>9. OneForeign(hd2, ub) BY <1>4 DEF Kept, OneForeign, Foreign, Over
<1>10. hw \subseteq Handles /\ \A x \in hw : Hollow(hd2[x]) BY <1>1 DEF Kept
<1> QED BY <1>3, <1>5, <1>6, <1>7, <1>8, <1>9, <1>10 DEF Kept

(* A child begins in a document that has room for it, and ends.            *)
ChildOf(parent, len) ==
  [flags |-> {"CHILD", "NO_FREE", "STATIC"}, struct |-> NULL, alloc |-> NULL, len |-> len,
   parent |-> parent]
WithChild(hd, p, h) ==
  [hd EXCEPT ![p].flags = @ \union {"IN_CHILD"}, ![p].len = @ + ChildCells,
             ![h] = ChildOf(p, Empty)]
WithoutChild(hd, p, h) ==
  [hd EXCEPT ![p].flags = @ \ {"IN_CHILD"}, ![p].len = @ + hd[h].len - Empty, ![h] = Dead]

LEMMA ChildBegins ==
  ASSUME NEW hd, NEW mem, NEW ub, NEW tk, NEW hw, Kept(hd, mem, ub, tk, hw),
         NEW p \in Handles \ hw, Lives(hd, p), NEW h \in Handles, ~Lives(hd, h),
         hd[p].flags \intersect {"CHILD", "IN_CHILD", "RDONLY", "INLINE"} = {},
         hd[p].len + ChildCells <= mem[Bytes(hd, ub, p)], hd[p].len + ChildCells <= MaxSize,
         NEW hd2, hd2 = WithChild(hd, p, h)
  PROVE  Kept(hd2, mem, ub, tk, hw)
<1>0. hd \in [Handles -> Records] /\ Typed(hd, mem, ub, tk) /\ Empty = 2 /\ MaxSize \in Nat
      /\ p # h /\ ChildCells = 4 /\ MaxSize >= 2
  BY Sizes DEF Kept, Typed, ChildCells
<1> DEFINE child == ChildOf(p, Empty)
           bigger == [hd[p] EXCEPT !.flags = @ \union {"IN_CHILD"}, !.len = @ + ChildCells]
<1>1. /\ hd2[h] = child /\ hd2[p] = bigger
      /\ \A x \in Handles : x # h /\ x # p => hd2[x] = hd[x]
      /\ hd2 = [x \in Handles |-> hd2[x]]
  BY <1>0 DEF WithChild
<1>2. /\ child \in Records /\ child.flags = {"CHILD", "NO_FREE", "STATIC"} /\ child.struct = NULL
      /\ child.alloc = NULL /\ child.len = Empty /\ child.parent = p
  BY <1>0 DEF ChildOf, Records, Places, Flags
<1>3. hd[p] \in Records /\ hd[p].len \in Nat BY <1>0 DEF Records
<1>4. /\ bigger \in Records /\ bigger.flags = hd[p].flags \union {"IN_CHILD"}
      /\ bigger.struct = hd[p].struct /\ bigger.alloc = hd[p].alloc
      /\ bigger.len = hd[p].len + ChildCells /\ bigger.parent = hd[p].parent
  <2> DEFINE flags == hd[p].flags \union {"IN_CHILD"}
             len == hd[p].len + ChildCells
  <2>1. flags \in SUBSET Flags /\ len \in Nat BY <1>0, <1>3 DEF Records, Flags
  <2>2. bigger = [hd[p] EXCEPT !.flags = flags, !.len = len] OBVIOUS
  <2> HIDE DEF bigger, flags, len
  <2>3. /\ bigger \in Records /\ bigger.flags = flags /\ bigger.struct = hd[p].struct
        /\ bigger.alloc = hd[p].alloc /\ bigger.len = len /\ bigger.parent = hd[p].parent
    <3>1. PICK r \in Records : r = hd[p] BY <1>3
    <3>2. bigger = [r EXCEPT !.flags = flags, !.len = len] BY <3>1, <2>2
    <3>3. /\ bigger \in Records /\ bigger.flags = flags /\ bigger.struct = r.struct
          /\ bigger.alloc = r.alloc /\ bigger.len = len /\ bigger.parent = r.parent
      BY <2>1, <3>2 DEF Records
    <3> QED BY <3>1, <3>3
  <2> QED BY <2>3 DEF flags, len
<1> HIDE DEF child, bigger
<1>5. hd2 \in [Handles -> Records]
  <2>1. \A x \in Handles : hd2[x] \in Records BY <1>0, <1>1, <1>2, <1>4
  <2> QED BY <1>1, <2>1
<1>6. Typed(hd2, mem, ub, tk) BY <1>0, <1>5 DEF Typed
<1>7. hd[h] = Dead BY DEF Kept, FlagsSay, Lives
<1>8. OneOwner(Own(hd2, ub, tk), mem)
  <2>1. \A x \in Handles : hd2[x].struct = hd[x].struct /\ hd2[x].alloc = hd[x].alloc
    BY <1>0, <1>1, <1>2, <1>4, <1>7 DEF Dead
  <2> QED BY <1>0, <1>6, <2>1, SameOwners DEF Kept
<1>9. \A x \in Handles : FlagsSay(hd2[x])
  <2>1. FlagsSay(child) BY <1>0, <1>2 DEF FlagsSay, Over
  <2>2. FlagsSay(hd[p]) BY DEF Kept
  <2>3. hd[p].len + ChildCells \in 1..MaxSize BY <1>0, <1>3
  <2>4. FlagsSay(bigger) BY <1>4, <2>2, <2>3 DEF FlagsSay, Lives, Over
  <2> QED BY <1>1, <2>1, <2>4 DEF Kept
<1>10. ASSUME NEW x \in Handles, IsChild(hd, x)
       PROVE  x # h /\ x # p /\ hd[x].parent \in Handles /\ hd[x].parent # h /\ hd[x].parent # p
              /\ Lives(hd, x)
  <2>1. Lives(hd, x) BY <1>10 DEF Kept, FlagsSay, Lives, IsChild, Dead
  <2>2. hd[x].parent \in Handles /\ "IN_CHILD" \in hd[hd[x].parent].flags BY <1>10, <2>1, RootLives
  <2> QED BY <1>7, <1>10, <2>1, <2>2 DEF IsChild, Dead
<1>11. \A x \in Handles : x # h => (IsChild(hd2, x) <=> IsChild(hd, x)) /\ hd2[x].parent = hd[x].parent
  BY <1>1, <1>4 DEF IsChild
<1>12. IsChild(hd2, h) /\ hd2[h].parent = p BY <1>1, <1>2 DEF IsChild
<1>13. Bytes(hd2, ub, p) = Bytes(hd, ub, p) /\ ~IsChild(hd, p) /\ ~IsChild(hd2, p)
  BY <1>0, <1>1, <1>4, <1>11 DEF Bytes, Root, IsChild, Foreign, Over
<1>14. Bytes(hd, ub, p) \in Blocks /\ mem[Bytes(hd, ub, p)] \in Nat BY BytesHeld
<1>15. ASSUME NEW x \in Handles \ hw PROVE Fits(hd2, mem, ub, x)
  <2>1. CASE x = h
    <3>1. Bytes(hd2, ub, h) = Bytes(hd, ub, p) BY <1>12, <1>13 DEF Bytes, Root
    <3>2. Reach(hd2, h) = Empty + ((hd[p].len + ChildCells) - Empty)
      BY <1>1, <1>2, <1>4, <1>12 DEF Reach
    <3>3. Reach(hd2, h) = hd[p].len + ChildCells BY <1>0, <1>3, <3>2
    <3> QED BY <1>14, <2>1, <3>1, <3>3 DEF Fits
  <2>2. CASE x = p
    <3>1. Reach(hd2, p) = hd[p].len + ChildCells BY <1>0, <1>1, <1>3, <1>4, <1>13 DEF Reach
    <3> QED BY <1>13, <1>14, <2>2, <3>1 DEF Fits
  <2>3. CASE x # h /\ x # p
    <3>1. Fits(hd, mem, ub, x) BY DEF Kept
    <3>2. hd2[x] = hd[x] /\ (IsChild(hd2, x) <=> IsChild(hd, x)) BY <1>1, <1>11, <2>3
    <3>3. hd2[Root(hd, x)] = hd[Root(hd, x)] BY <1>1, <1>10, <2>3 DEF Root
    <3>4. Root(hd2, x) = Root(hd, x) BY <3>2 DEF Root
    <3>5. Reach(hd2, x) = Reach(hd, x) BY <3>2, <3>3 DEF Reach, Root
    <3>6. Bytes(hd2, ub, x) = Bytes(hd, ub, x) BY <3>3, <3>4 DEF Bytes, Foreign
    <3> QED BY <3>1, <3>2, <3>5, <3>6 DEF Fits, Lives
  <2> QED BY <2>1, <2>2, <2>3
<1>16. Nested(hd2)
  <2>1. \A x \in Handles : IsChild(hd2, x) => /\ "IN_CHILD" \in hd2[hd2[x].parent].flags
                                             /\ hd2[hd2[x].parent].len >= Empty
    <3> TAKE x \in Handles
    <3> HAVE IsChild(hd2, x)
    <3>1. CASE x = h BY <1>0, <1>1, <1>3, <1>4, <1>12, <3>1
    <3>2. CASE x # h
      <4>1. IsChild(hd, x) /\ hd2[x].parent = hd[x].parent BY <1>11, <3>2
      <4>2. hd2[hd[x].parent] = hd[hd[x].parent] BY <1>1, <1>10, <4>1
      <4> QED BY <4>1, <4>2 DEF Kept, Nested
    <3> QED BY <3>1, <3>2
  <2>2. \A x, y \in Handles :
          IsChild(hd2, x) /\ IsChild(hd2, y) /\ hd2[x].parent = hd2[y].parent => x = y
    BY <1>10, <1>11, <1>12 DEF Kept, Nested
  <2> QED BY <2>1, <2>2 DEF Nested
<1>17. OneForeign(hd2, ub)
  <2>1. \A x \in Handles : Foreign(hd2, x) => Foreign(hd, x)
    BY <1>1, <1>2, <1>4 DEF Foreign, Over
  <2> QED BY <2>1 DEF Kept, OneForeign
<1>18. hw \subseteq Handles /\ \A x \in hw : Hollow(hd2[x])
  <2>1. h \notin hw BY <1>7 DEF Kept, Hollow, Dead
  <2> QED BY <1>1, <2>1 DEF Kept
<1> QED BY <1>6, <1>8, <1>9, <1>15, <1>16, <1>17, <1>18 DEF Kept

LEMMA ChildEnds ==
  ASSUME NEW hd, NEW mem, NEW ub, NEW tk, NEW hw, Kept(hd, mem, ub, tk, hw),
         NEW h \in Handles, Lives(hd, h), IsChild(hd, h), NEW p, p = hd[h].parent,
         NEW hd2, hd2 = WithoutChild(hd, p, h)
  PROVE  Kept(hd2, mem, ub, tk, hw)
<1>0. hd \in [Handles -> Records] /\ Typed(hd, mem, ub, tk) /\ Empty = 2 /\ MaxSize \in Nat
      /\ MaxSize >= 2
  BY Sizes DEF Kept, Typed
<1>a. /\ p \in Handles /\ Lives(hd, p) /\ ~IsChild(hd, p) /\ p # h /\ Root(hd, h) = p
      /\ "IN_CHILD" \in hd[p].flags /\ hd[p].flags \intersect {"INLINE", "RDONLY"} = {}
      /\ hd[h].flags \intersect {"INLINE", "RDONLY"} = {}
      /\ hd[h].len \in 1..MaxSize /\ hd[p].len \in 1..MaxSize /\ hd[p].len >= Empty
      /\ h \notin hw /\ p \notin hw
  <2>1. Root(hd, h) = p BY DEF Root
  <2> QED BY <2>1, RootLives
<1> DEFINE len == hd[p].len + hd[h].len - Empty
           ended == [hd[p] EXCEPT !.flags = @ \ {"IN_CHILD"}, !.len = len]
<1>1. /\ hd2[h] = Dead /\ hd2[p] = ended
      /\ \A x \in Handles : x # h /\ x # p => hd2[x] = hd[x]
      /\ hd2 = [x \in Handles |-> hd2[x]]
  BY <1>0, <1>a DEF WithoutChild
<1>b. /\ len \in 1..MaxSize /\ Bytes(hd, ub, p) \in Blocks
      /\ len <= mem[Bytes(hd, ub, p)]
  <2>1. Reach(hd, h) = hd[h].len + (hd[p].len - Empty) BY DEF Reach
  <2>2. Bytes(hd, ub, h) = Bytes(hd, ub, p) BY <1>a DEF Bytes, Root
  <2>3. Reach(hd, h) \in 1..MaxSize /\ mem[Bytes(hd, ub, h)] >= Reach(hd, h)
        /\ Bytes(hd, ub, h) \in Blocks /\ mem[Bytes(hd, ub, h)] \in Nat
    BY <1>a, BytesHeld
  <2>4. Reach(hd, h) = len BY <1>0, <1>a, <2>1
  <2> HIDE DEF len
  <2> QED BY <1>0, <2>2, <2>3, <2>4
<1>3. hd[p] \in Records BY <1>0, <1>a
<1>4. /\ ended \in Records /\ ended.flags = hd[p].flags \ {"IN_CHILD"}
      /\ ended.struct = hd[p].struct /\ ended.alloc = hd[p].alloc
      /\ ended.len = len /\ ended.parent = hd[p].parent
  <2> DEFINE flags == hd[p].flags \ {"IN_CHILD"}
  <2>1. flags \in SUBSET Flags BY <1>3 DEF Records
  <2>2. len \in Nat BY <1>0, <1>b
  <2>3. ended = [hd[p] EXCEPT !.flags = flags, !.len = len] OBVIOUS
  <2> HIDE DEF ended, flags, len
  <2>4. /\ ended \in Records /\ ended.flags = flags /\ ended.struct = hd[p].struct
        /\ ended.alloc = hd[p].alloc /\ ended.len = len /\ ended.parent = hd[p].parent
    <3>1. PICK r \in Records : r = hd[p] BY <1>3
    <3>2. ended = [r EXCEPT !.flags = flags, !.len = len] BY <3>1, <2>2, <2>3
    <3>3. /\ ended \in Records /\ ended.flags = flags /\ ended.struct = r.struct
          /\ ended.alloc = r.alloc /\ ended.len = len /\ ended.parent = r.parent
      BY <2>1, <2>2, <3>2 DEF Records
    <3> QED BY <3>1, <3>3
  <2> QED BY <2>4 DEF flags
<1> HIDE DEF len, ended
<1>2. Dead \in Records /\ Dead.flags = {"DEAD"} /\ Dead.struct = NULL /\ Dead.alloc = NULL
  <2>1. NULL \in Places /\ {"DEAD"} \in SUBSET Flags BY DEF Places, Flags
  <2> QED BY <2>1 DEF Dead, Records
<1>5. hd2 \in [Handles -> Records]
  <2>1. \A x \in Handles : hd2[x] \in Records BY <1>0, <1>1, <1>2, <1>4
  <2> QED BY <1>1, <2>1
<1>6. Typed(hd2, mem, ub, tk) BY <1>0, <1>5 DEF Typed
<1>7. hd[h].struct = NULL /\ hd[h].alloc = NULL /\ "NO_FREE" \in hd[h].flags
  <2>1. FlagsSay(hd[h]) /\ "CHILD" \in hd[h].flags BY DEF Kept, IsChild
  <2>2. "NO_FREE" \in hd[h].flags /\ "STATIC" \in hd[h].flags BY <2>1 DEF FlagsSay, Lives
  <2> QED BY <2>1, <2>2 DEF FlagsSay, Lives
<1>8. OneOwner(Own(hd2, ub, tk), mem)
  <2>1. \A x \in Handles : hd2[x].struct = hd[x].struct /\ hd2[x].alloc = hd[x].alloc
    BY <1>0, <1>1, <1>2, <1>4, <1>7
  <2> QED BY <1>0, <1>6, <2>1, SameOwners DEF Kept
<1>9. \A x \in Handles : FlagsSay(hd2[x])
  <2>1. FlagsSay(Dead) BY DEF FlagsSay, Dead
  <2>2. FlagsSay(hd[p]) BY <1>a DEF Kept
  <2>3. FlagsSay(ended) BY <1>a, <1>b, <1>4, <2>2 DEF FlagsSay, Lives, Over
  <2> QED BY <1>1, <2>1, <2>3 DEF Kept
<1>10. ASSUME NEW x \in Handles, IsChild(hd, x), x # h
       PROVE  x # p /\ hd[x].parent \in Handles /\ hd[x].parent # h /\ hd[x].parent # p
  <2>1. Lives(hd, x) BY <1>10 DEF Kept, FlagsSay, Lives, IsChild, Dead
  <2>2. hd[x].parent \in Handles /\ "IN_CHILD" \in hd[hd[x].parent].flags BY <1>10, <2>1, RootLives
  <2>3. "IN_CHILD" \notin hd[h].flags BY RootLives
  <2>4. hd[x].parent # p BY <1>10 DEF Kept, Nested
  <2> QED BY <1>a, <1>10, <2>2, <2>3, <2>4
<1>11. \A x \in Handles : x # h => (IsChild(hd2, x) <=> IsChild(hd, x)) /\ hd2[x].parent = hd[x].parent
  BY <1>1, <1>4 DEF IsChild
<1>12. ~IsChild(hd2, h) /\ ~Lives(hd2, h) BY <1>1, <1>2 DEF IsChild, Lives
<1>13. Bytes(hd2, ub, p) = Bytes(hd, ub, p) /\ ~IsChild(hd2, p)
  BY <1>a, <1>1, <1>4, <1>11 DEF Bytes, Root, Foreign, Over
<1>15. ASSUME NEW x \in Handles \ hw PROVE Fits(hd2, mem, ub, x)
  <2>1. CASE x = h BY <1>12, <2>1 DEF Fits
  <2>2. CASE x = p
    <3>1. Reach(hd2, p) = len + 0 BY <1>1, <1>4, <1>13 DEF Reach
    <3>2. Reach(hd2, p) = len BY <1>0, <1>b, <3>1
    <3>3. Reach(hd2, p) <= MaxSize BY <1>0, <1>b, <3>2
    <3> QED BY <1>b, <1>13, <2>2, <3>2, <3>3 DEF Fits
  <2>3. CASE x # h /\ x # p
    <3>1. Fits(hd, mem, ub, x) BY DEF Kept
    <3>2. hd2[x] = hd[x] /\ (IsChild(hd2, x) <=> IsChild(hd, x)) BY <1>1, <1>11, <2>3
    <3>3. hd2[Root(hd, x)] = hd[Root(hd, x)] BY <1>1, <1>10, <2>3 DEF Root
    <3>4. Root(hd2, x) = Root(hd, x) BY <3>2 DEF Root
    <3>5. Reach(hd2, x) = Reach(hd, x) BY <3>2, <3>3 DEF Reach, Root
    <3>6. Bytes(hd2, ub, x) = Bytes(hd, ub, x) BY <3>3, <3>4 DEF Bytes, Foreign
    <3> QED BY <3>1, <3>2, <3>5, <3>6 DEF Fits, Lives
  <2> QED BY <2>1, <2>2, <2>3
<1>16. Nested(hd2)
  <2>1. \A x \in Handles : IsChild(hd2, x) => /\ "IN_CHILD" \in hd2[hd2[x].parent].flags
                                             /\ hd2[hd2[x].parent].len >= Empty
    <3> TAKE x \in Handles
    <3> HAVE IsChild(hd2, x)
    <3>1. x # h /\ IsChild(hd, x) /\ hd2[x].parent = hd[x].parent BY <1>11, <1>12
    <3>2. hd2[hd[x].parent] = hd[hd[x].parent] BY <1>1, <1>10, <3>1
    <3> QED BY <3>1, <3>2 DEF Kept, Nested
  <2>2. \A x, y \in Handles :
          IsChild(hd2, x) /\ IsChild(hd2, y) /\ hd2[x].parent = hd2[y].parent => x = y
    BY <1>11, <1>12 DEF Kept, Nested
  <2> QED BY <2>1, <2>2 DEF Nested
<1>17. OneForeign(hd2, ub)
  <2>1. \A x \in Handles : Foreign(hd2, x) => Foreign(hd, x)
    BY <1>1, <1>2, <1>4 DEF Foreign, Over
  <2> QED BY <2>1 DEF Kept, OneForeign
<1>18. hw \subseteq Handles /\ \A x \in hw : Hollow(hd2[x]) BY <1>a, <1>1 DEF Kept
<1> QED BY <1>6, <1>8, <1>9, <1>15, <1>16, <1>17, <1>18 DEF Kept

(* Growing: the bytes stay where they are, or move to a block that was     *)
(* free and is larger, and then there is room for what was asked for.      *)
LEMMA Moves ==
  ASSUME HandleInv, Room(1), NEW h \in Handles, Live(h), ~Has(h, {"IN_CHILD", "RDONLY"}),
         NEW size \in Nat, Reach(handle, h) + size <= 2 * MaxSize,
         NEW mem2, NEW ub2, NEW hd2, Moved(h, size) = [heap |-> mem2, userBuf |-> ub2, handle |-> hd2],
         NEW hw2, hw2 = hollow \ {h}
  PROVE  /\ Kept(hd2, mem2, ub2, Away, hw2)
         /\ \A x \in Handles : /\ hd2[x].flags \ {"INLINE"} = handle[x].flags \ {"INLINE"}
                               /\ hd2[x].len = handle[x].len /\ hd2[x].parent = handle[x].parent
                               /\ x # h => ("INLINE" \in hd2[x].flags <=> "INLINE" \in handle[x].flags)
         /\ IF "INLINE" \in hd2[h].flags
            THEN Reach(handle, h) + size <= InlineCap /\ "INLINE" \in handle[h].flags
            ELSE mem2[Bytes(hd2, ub2, h)] >= Reach(handle, h) + size
<1> DEFINE owner == Root(handle, h)
           foreign == Foreign(handle, owner)
           req == Reach(handle, h) + size
           to == Unused(heap)
           old == Bytes(handle, userBuf, h)
           inline == "INLINE" \in handle[h].flags
           moved == [handle EXCEPT ![owner].flags = @ \ {"INLINE"},
                                   ![owner].alloc = IF foreign THEN @ ELSE to]
<1>0. /\ Kept(handle, heap, userBuf, Away, hollow) /\ Typed(handle, heap, userBuf, Away)
      /\ handle \in [Handles -> Records] /\ heap \in [Blocks -> Nat] /\ userBuf \in Places
      /\ NULL \notin Blocks /\ NULL \in Places /\ Empty = 2 /\ MaxSize \in Nat /\ InlineCap \in Nat
  BY Sizes, HandleAssumption DEF HandleInv, Kept, Typed, HandleAssumption, Places
<1>1. /\ Lives(handle, h) /\ "IN_CHILD" \notin handle[h].flags /\ "RDONLY" \notin handle[h].flags
      /\ Around(h) = (IF IsChild(handle, h) THEN handle[handle[h].parent].len - Empty ELSE 0)
      /\ owner = (IF Has(h, {"CHILD"}) THEN handle[h].parent ELSE h)
      /\ Buf(h) = old /\ (Has(h, {"INLINE"}) <=> inline) /\ (OverCaller(owner) <=> foreign)
      /\ owner = Owner(h)
  BY DEF Live, Lives, Has, Around, IsChild, Root, Buf, OwnBuf, Bytes, OverCaller, Foreign, Over, Owner
<1>2. /\ owner \in Handles /\ Lives(handle, owner) /\ ~IsChild(handle, owner)
      /\ (IsChild(handle, h) => owner # h /\ owner = handle[h].parent /\ ~inline
                                /\ "RDONLY" \notin handle[owner].flags
                                /\ "INLINE" \notin handle[owner].flags
                                /\ h \notin hollow /\ owner \notin hollow)
      /\ (~IsChild(handle, h) => owner = h)
      /\ handle[h].len \in 1..MaxSize /\ handle[owner].len \in 1..MaxSize
  BY <1>0, <1>1, RootLives
<1>3. FlagsSay(handle[owner]) /\ FlagsSay(handle[h]) BY <1>0, <1>2 DEF Kept
<1>4. inline => /\ owner = h /\ old = NULL /\ ~foreign /\ Reach(handle, h) = handle[h].len
                /\ handle[h].flags \subseteq {"STATIC", "INLINE"}
  <2> SUFFICES ASSUME inline PROVE owner = h /\ old = NULL /\ ~foreign
                                   /\ Reach(handle, h) = handle[h].len
                                   /\ handle[h].flags \subseteq {"STATIC", "INLINE"}
    OBVIOUS
  <2>1. owner = h /\ ~IsChild(handle, h) BY <1>2
  <2>2. handle[h].flags \subseteq {"STATIC", "INLINE"} /\ handle[h].alloc = NULL
    BY <1>1, <1>3 DEF FlagsSay, Lives
  <2>3. ~foreign BY <2>1, <2>2 DEF Foreign, Over
  <2>4. old = NULL BY <2>1, <2>2, <2>3 DEF Bytes
  <2>5. Reach(handle, h) = handle[h].len + 0 BY <2>1 DEF Reach
  <2>6. handle[h].len \in Nat BY <1>0 DEF Records
  <2> QED BY <2>1, <2>2, <2>3, <2>4, <2>5, <2>6
<1>5. ~inline /\ h \notin hollow =>
         /\ old \in Blocks /\ heap[old] \in Nat \ {0}
         /\ Reach(handle, h) \in 1..MaxSize /\ heap[old] >= Reach(handle, h)
         /\ \A k \in Handles : k # owner => old # handle[k].alloc
         /\ (~foreign => old # userBuf)
  BY <1>0, <1>1, BytesHeld
<1>a. h \in hollow =>
        /\ ~inline /\ owner = h /\ Reach(handle, h) = handle[h].len
        /\ \/ old = NULL
           \/ foreign /\ old = userBuf /\ old \in Blocks /\ heap[old] \in Nat \ {0}
  <2> SUFFICES ASSUME h \in hollow
               PROVE  /\ ~inline /\ owner = h /\ Reach(handle, h) = handle[h].len
                      /\ \/ old = NULL
                         \/ foreign /\ old = userBuf /\ old \in Blocks /\ heap[old] \in Nat \ {0}
    OBVIOUS
  <2>1. Hollow(handle[h]) BY <1>0 DEF Kept
  <2>2. ~inline /\ owner = h /\ ~IsChild(handle, h) BY <1>2, <2>1 DEF Hollow, IsChild
  <2>3. handle[h].len \in Nat /\ Reach(handle, h) = handle[h].len + 0
    BY <1>0, <2>2 DEF Reach, Records
  <2>4. CASE foreign
    <3>1. old = userBuf BY <2>4 DEF Bytes
    <3>2. userBuf \in Blocks BY <1>0, <1>2, <2>4 DEF Kept, OneForeign
    <3>3. Own(handle, userBuf, Away)[Buffer] = userBuf BY <1>0, OwnIs
    <3>4. heap[userBuf] # 0 BY <1>0, <3>2, <3>3, OwnersDiffer DEF Kept, OneOwner
    <3>5. heap[userBuf] \in Nat BY <1>0, <3>2
    <3> HIDE DEF old, inline, owner, foreign
    <3> QED BY <2>2, <2>3, <2>4, <3>1, <3>2, <3>4, <3>5
  <2>5. CASE ~foreign
    <3>1. old = handle[h].alloc BY <2>2, <2>5 DEF Bytes
    <3>2. "STATIC" \in handle[h].flags BY <2>1, <2>2, <2>5 DEF Hollow, Foreign, Over
    <3>3. handle[h].alloc = NULL BY <2>1, <3>2 DEF Hollow
    <3> HIDE DEF old, inline, owner, foreign
    <3> QED BY <2>2, <2>3, <3>1, <3>3
  <2> QED BY <2>4, <2>5
<1>b. ~inline => /\ old = NULL \/ (old \in Blocks /\ heap[old] \in Nat \ {0})
                 /\ (old \in Blocks => Size(old) = heap[old]) /\ (old = NULL => Size(old) = 0)
                 /\ Size(old) \in Nat
  <2> HIDE DEF old, inline
  <2>1. ~inline => old = NULL \/ (old \in Blocks /\ heap[old] \in Nat \ {0}) BY <1>5, <1>a
  <2> QED BY <1>0, <2>1 DEF Size
<1>6. Reach(handle, h) \in 1..MaxSize /\ req \in Nat /\ req > 0 /\ req >= Reach(handle, h)
  <2>1. Reach(handle, h) \in 1..MaxSize BY <1>2, <1>4, <1>5, <1>a
  <2> QED BY <1>0, <2>1
<1>7. handle[h].len + size + Around(h) = req
  <2>1. handle[h].len \in Nat /\ Around(h) \in Int BY <1>0, <1>1, <1>2
  <2>2. Reach(handle, h) = handle[h].len + Around(h) BY <1>1 DEF Reach
  <2> QED BY <2>1, <2>2
<1>8. Moved(h, size) =
        IF req <= (IF inline THEN InlineCap ELSE Size(old))
        THEN [heap |-> heap, userBuf |-> userBuf, handle |-> handle]
        ELSE [heap |-> FreeBlock([heap EXCEPT ![to] = PowerOfTwo(req)], old),
              userBuf |-> IF foreign THEN to ELSE userBuf, handle |-> moved]
  <2>1. Required(h, size) = req BY <1>7 DEF Required
  <2>2. HasRoom(h, size) <=> req <= (IF inline THEN InlineCap ELSE Size(old))
    BY <1>1, <2>1 DEF HasRoom
  <2> DEFINE o == Owner(h)
             over == OverCaller(o)
  <2>3. Moved(h, size) =
        IF HasRoom(h, size)
        THEN [heap |-> heap, userBuf |-> userBuf, handle |-> handle]
        ELSE [heap |-> FreeBlock([heap EXCEPT ![to] = PowerOfTwo(Required(h, size))], Buf(h)),
              userBuf |-> IF over THEN to ELSE userBuf,
              handle |-> [handle EXCEPT ![o].flags = @ \ {"INLINE"},
                                        ![o].alloc = IF over THEN @ ELSE to]]
    BY DEF Moved
  <2>4. o = owner /\ Buf(h) = old /\ (over <=> foreign) BY <1>1
  <2> HIDE DEF o, over, owner, foreign, old, req, to
  <2>5. CASE foreign BY <2>1, <2>2, <2>3, <2>4, <2>5
  <2>6. CASE ~foreign BY <2>1, <2>2, <2>3, <2>4, <2>6
  <2> QED BY <2>5, <2>6
<1> HIDE DEF owner, foreign, req, to, old, inline, moved
<1>9. CASE req <= (IF inline THEN InlineCap ELSE Size(old))
  <2>1. mem2 = heap /\ ub2 = userBuf /\ hd2 = handle BY <1>8, <1>9
  <2>2. ~inline => old \in Blocks /\ heap[old] >= req
    <3>1. ~inline => old \in Blocks \/ (old = NULL /\ Size(old) = 0) BY <1>b
    <3>2. ~inline => req <= Size(old) /\ Size(old) \in Nat BY <1>9, <1>b
    <3>3. ~inline => old \in Blocks BY <1>6, <3>1, <3>2
    <3>4. ~inline => Size(old) = heap[old] BY <1>b, <3>3
    <3> QED BY <1>6, <3>2, <3>3, <3>4
  <2>3. IF "INLINE" \in hd2[h].flags
        THEN req <= InlineCap /\ "INLINE" \in handle[h].flags
        ELSE mem2[Bytes(hd2, ub2, h)] >= req
    <3>1. CASE inline BY <1>9, <2>1, <3>1 DEF inline
    <3>2. CASE ~inline BY <2>1, <2>2, <3>2 DEF inline, old
    <3> QED BY <3>1, <3>2
  <2>4. Fits(handle, heap, userBuf, h)
    <3>1. CASE inline BY <3>1 DEF Fits, inline
    <3>2. CASE ~inline
      <4>1. old \in Blocks /\ heap[old] \in Nat /\ heap[old] >= req BY <1>b, <1>0, <2>2, <3>2
      <4>2. heap[old] >= Reach(handle, h) /\ Reach(handle, h) <= MaxSize BY <1>0, <1>6, <4>1
      <4> QED BY <4>1, <4>2 DEF Fits, old
    <3> QED BY <3>1, <3>2
  <2>5. Kept(handle, heap, userBuf, Away, hw2)
    <3>1. \A x \in Handles \ (hollow \ {h}) : Fits(handle, heap, userBuf, x) BY <1>0, <2>4 DEF Kept
    <3>2. hollow \ {h} \subseteq Handles /\ \A x \in hollow \ {h} : Hollow(handle[x])
      BY <1>0 DEF Kept
    <3> QED BY <1>0, <3>1, <3>2 DEF Kept
  <2> QED BY <2>1, <2>3, <2>5 DEF req
<1>10. CASE ~(req <= (IF inline THEN InlineCap ELSE Size(old)))
  <2> DEFINE power == PowerOfTwo(req)
             more == [heap EXCEPT ![to] = power]
  <2>1. mem2 = FreeBlock(more, old) /\ ub2 = (IF foreign THEN to ELSE userBuf) /\ hd2 = moved
    BY <1>8, <1>10
  <2>2. power \in Nat /\ req <= power /\ power > 0
    <3>1. req \in Nat \ {0} /\ 32 \in 0..32 BY <1>6
    <3>2. req <= 2 ^ 32 BY <1>6, Sizes DEF req
    <3>3. PowerOfTwo(req) \in Nat /\ req <= PowerOfTwo(req) BY <3>1, <3>2, NextPowerFits, Zenon
    <3> HIDE DEF power
    <3> QED BY <1>6, <3>3 DEF power
  <2>3. to \in Blocks /\ heap[to] = 0 BY <1>0, RoomLeft, UnusedIsFree DEF to
  <2>4. to # old /\ (old \in Blocks \/ old = NULL) BY <1>0, <1>4, <1>b, <2>3
  <2> HIDE DEF power
  <2>5. /\ mem2 \in [Blocks -> Nat] /\ mem2[to] = power /\ (old \in Blocks => mem2[old] = 0)
        /\ \A b \in Blocks : b # to /\ b # old => mem2[b] = heap[b]
    <3>1. more \in [Blocks -> Nat] /\ more[to] = power /\ \A b \in Blocks : b # to => more[b] = heap[b]
      BY <1>0, <2>2, <2>3
    <3> HIDE DEF more
    <3> QED BY <1>0, <2>1, <2>4, <3>1 DEF FreeBlock
  <2> DEFINE r == handle[owner]
             flags == r.flags \ {"INLINE"}
             alloc == IF foreign THEN r.alloc ELSE to
  <2>6. /\ hd2[owner].flags = flags /\ hd2[owner].struct = r.struct /\ hd2[owner].alloc = alloc
        /\ hd2[owner].len = r.len /\ hd2[owner].parent = r.parent /\ hd2[owner] \in Records
        /\ \A x \in Handles : x # owner => hd2[x] = handle[x]
        /\ hd2 = [x \in Handles |-> hd2[x]]
    <3>1. PICK old_r \in Records : old_r = handle[owner] BY <1>0, <1>2
    <3>2. hd2[owner] = [old_r EXCEPT !.flags = @ \ {"INLINE"}, !.alloc = IF foreign THEN @ ELSE to]
      BY <1>0, <1>2, <2>1, <3>1 DEF moved
    <3>3. (\A x \in Handles : x # owner => hd2[x] = handle[x]) /\ hd2 = [x \in Handles |-> hd2[x]]
      BY <1>0, <1>2, <2>1 DEF moved
    <3>4. to \in Places BY <2>3 DEF Places
    <3>5. /\ hd2[owner].flags = old_r.flags \ {"INLINE"} /\ hd2[owner].struct = old_r.struct
          /\ hd2[owner].alloc = (IF foreign THEN old_r.alloc ELSE to)
          /\ hd2[owner].len = old_r.len /\ hd2[owner].parent = old_r.parent
          /\ hd2[owner] \in Records
      <4>1. CASE foreign BY <3>2, <3>4, <4>1 DEF Records
      <4>2. CASE ~foreign BY <3>2, <3>4, <4>2 DEF Records
      <4> QED BY <4>1, <4>2
    <3> QED BY <3>1, <3>3, <3>5
  <2> HIDE DEF flags, alloc, r
  <2>7. \A x \in Handles : /\ hd2[x].flags \ {"INLINE"} = handle[x].flags \ {"INLINE"}
                           /\ hd2[x].len = handle[x].len /\ hd2[x].parent = handle[x].parent
                           /\ hd2[x].struct = handle[x].struct
                           /\ x # h => ("INLINE" \in hd2[x].flags <=> "INLINE" \in handle[x].flags)
    <3>1. owner # h => "INLINE" \notin handle[owner].flags BY <1>2
    <3>2. hd2[owner].flags \ {"INLINE"} = handle[owner].flags \ {"INLINE"} BY <2>6 DEF flags, r
    <3> QED BY <2>6, <3>1, <3>2 DEF flags, r
  <2>8. \A x \in Handles : /\ IsChild(hd2, x) <=> IsChild(handle, x)
                           /\ Lives(hd2, x) <=> Lives(handle, x)
                           /\ Root(hd2, x) = Root(handle, x)
                           /\ Foreign(hd2, x) <=> Foreign(handle, x)
                           /\ "IN_CHILD" \in hd2[x].flags <=> "IN_CHILD" \in handle[x].flags
    BY <2>7 DEF IsChild, Lives, Root, Foreign, Over
  <2>9. Typed(hd2, mem2, ub2, Away)
    <3>1. hd2 \in [Handles -> Records] BY <1>0, <2>6
    <3>2. ub2 \in Places BY <1>0, <2>1, <2>3 DEF Places
    <3> QED BY <1>0, <2>5, <3>1, <3>2 DEF Typed
  <2>10. OneOwner(Own(hd2, ub2, Away), mem2)
    <3> DEFINE own == Own(handle, userBuf, Away)
               own2 == Own(hd2, ub2, Away)
               o == IF foreign THEN Buffer ELSE BytesOf(owner)
    <3>1. own \in [Owners -> Places] /\ own2 \in [Owners -> Places] BY <1>0, <2>9, OwnIs
    <3>2. o \in Owners BY <1>2, OwnersDiffer
    <3>3. own[o] = old
      <4>1. own[Buffer] = userBuf /\ own[BytesOf(owner)] = handle[owner].alloc BY <1>0, <1>2, OwnIs
      <4>2. old = IF foreign THEN userBuf ELSE handle[owner].alloc BY DEF old, Bytes, owner, foreign
      <4> QED BY <4>1, <4>2
    <3>4. own2[o] = to
      <4>1. own2[Buffer] = ub2 /\ own2[BytesOf(owner)] = hd2[owner].alloc BY <1>2, <2>9, OwnIs
      <4> QED BY <2>1, <2>6, <4>1 DEF alloc
    <3>5. \A b \in Blocks : own2[AwayFrom(b)] = own[AwayFrom(b)] BY <1>0, <2>9, AwayStays
    <3>6. \A x \in Handles : own2[StructOf(x)] = own[StructOf(x)] BY <1>0, <2>7, <2>9, OwnIs
    <3>7. \A x \in Handles : BytesOf(x) # o => own2[BytesOf(x)] = own[BytesOf(x)]
      <4>1. \A x \in Handles : own2[BytesOf(x)] = hd2[x].alloc /\ own[BytesOf(x)] = handle[x].alloc
        BY <1>0, <2>9, OwnIs
      <4>2. foreign => hd2[owner].alloc = handle[owner].alloc BY <2>6 DEF alloc, r
      <4> QED BY <2>6, <4>1, <4>2
    <3>8. Buffer # o => own2[Buffer] = own[Buffer]
      <4>1. own2[Buffer] = ub2 /\ own[Buffer] = userBuf BY <1>0, <2>9, OwnIs
      <4> QED BY <2>1, <4>1
    <3> HIDE DEF own, own2, o
    <3>9. \A p \in Owners : p # o => own2[p] = own[p] BY <3>5, <3>6, <3>7, <3>8, OwnersDiffer
    <3>10. OneOwner(own, heap) BY <1>0 DEF Kept, own
    <3>11. mem2[to] # 0 BY <2>2, <2>5
    <3>12. OneOwner(own2, mem2)
      BY <2>3, <2>5, <3>1, <3>2, <3>3, <3>4, <3>9, <3>10, <3>11, OwnerTakes
    <3> QED BY <3>12 DEF own2
  <2>11. \A x \in Handles : FlagsSay(hd2[x])
    <3>1. FlagsSay(hd2[owner])
      <4>1. hd2[owner].flags = handle[owner].flags \ {"INLINE"} /\ "DEAD" \notin handle[owner].flags
        BY <1>2, <2>6 DEF flags, r, Lives
      <4>2. CASE foreign
        <5>1. hd2[owner].alloc = handle[owner].alloc BY <2>6, <4>2 DEF alloc, r
        <5> QED BY <1>3, <2>6, <4>1, <5>1 DEF FlagsSay, r, Over
      <4>3. CASE ~foreign
        <5>1. "RDONLY" \notin handle[owner].flags BY <1>1, <1>2
        <5>2. hd2[owner].flags \intersect {"INLINE", "RDONLY"} = {} BY <4>1, <5>1
        <5>3. "CHILD" \notin hd2[owner].flags BY <1>2, <4>1 DEF IsChild
        <5>4. ~Over(hd2[owner]) BY <1>2, <2>8, <4>3 DEF foreign, Foreign
        <5> QED BY <1>2, <1>3, <2>6, <4>1, <5>2, <5>3, <5>4 DEF FlagsSay, r
      <4> QED BY <4>2, <4>3
    <3> QED BY <1>0, <2>6, <3>1 DEF Kept
  <2>12. ~inline /\ h \notin hollow => req > heap[old]
    <3>1. ~inline /\ h \notin hollow => Size(old) = heap[old] /\ heap[old] \in Nat BY <1>5, <1>b
    <3> QED BY <1>6, <1>10, <3>1
  <2>13. \A x \in Handles : Lives(handle, x) => Reach(hd2, x) = Reach(handle, x)
    <3> TAKE x \in Handles
    <3> HAVE Lives(handle, x)
    <3>1. IsChild(handle, x) => handle[x].parent \in Handles BY <1>0, RootLives
    <3> QED BY <2>7, <2>8, <3>1 DEF Reach
  <2>14. ASSUME NEW x \in Handles, Lives(handle, x), Root(handle, x) = owner
         PROVE  Bytes(hd2, ub2, x) = to
    <3>1. Bytes(hd2, ub2, x) = IF Foreign(hd2, owner) THEN ub2 ELSE hd2[owner].alloc
      BY <2>8, <2>14 DEF Bytes
    <3>2. Foreign(hd2, owner) <=> foreign BY <1>2, <2>8 DEF foreign
    <3> QED BY <2>1, <2>6, <3>1, <3>2 DEF alloc
  <2>15. ASSUME NEW x \in Handles \ (hollow \ {h}) PROVE Fits(hd2, mem2, ub2, x)
    <3> SUFFICES ASSUME Lives(handle, x), hd2[x].flags \intersect {"INLINE", "RDONLY"} = {}
                 PROVE  /\ Bytes(hd2, ub2, x) \in Blocks
                        /\ mem2[Bytes(hd2, ub2, x)] >= Reach(hd2, x) /\ Reach(hd2, x) <= MaxSize
      BY <2>8 DEF Fits
    <3>1. CASE Root(handle, x) = owner
      <4>1. Bytes(hd2, ub2, x) = to BY <2>14, <3>1
      <4>2. Reach(handle, x) \in 1..MaxSize /\ power >= Reach(handle, x)
        <5>1. CASE inline \/ h \in hollow
          <6>1. owner = h BY <1>4, <1>a, <5>1
          <6>2. IsChild(handle, x) => "IN_CHILD" \in handle[owner].flags BY <1>0, <3>1, RootLives
          <6>3. ~IsChild(handle, x) => Root(handle, x) = x BY <1>0, RootLives
          <6>4. x = h BY <1>1, <3>1, <6>1, <6>2, <6>3
          <6>5. Reach(handle, h) <= req
            <7>1. Reach(handle, h) \in Nat BY <1>0, <1>6
            <7> QED BY <7>1 DEF req
          <6>6. power >= Reach(handle, h)
            <7>1. Reach(handle, h) \in Nat BY <1>0, <1>6
            <7> QED BY <1>6, <2>2, <6>5, <7>1
          <6> QED BY <1>6, <6>4, <6>6
        <5>2. CASE ~inline /\ h \notin hollow
          <6>1. handle[x].flags \intersect {"INLINE", "RDONLY"} = {}
            <7>1. x = owner => "INLINE" \notin handle[x].flags BY <1>2, <5>2 DEF inline
            <7>2. x # owner => hd2[x] = handle[x] BY <2>6
            <7>3. "RDONLY" \notin handle[x].flags BY <2>7
            <7> QED BY <7>1, <7>2, <7>3
          <6>2. Bytes(handle, userBuf, x) = old BY <3>1 DEF Bytes, old, owner
          <6>3. heap[old] >= Reach(handle, x) /\ Reach(handle, x) \in 1..MaxSize
            BY <1>0, <5>2, <6>1, <6>2, BytesHeld
          <6>4. heap[old] \in Nat /\ req > heap[old] BY <1>5, <2>12, <5>2
          <6>5. power >= Reach(handle, x)
            <7>1. Reach(handle, x) \in Nat BY <1>0, <6>3
            <7> QED BY <1>6, <2>2, <6>3, <6>4, <7>1
          <6> QED BY <6>3, <6>5
        <5> QED BY <5>1, <5>2
      <4>3. Reach(handle, x) <= MaxSize BY <1>0, <4>2
      <4> QED BY <2>3, <2>5, <2>13, <4>1, <4>2, <4>3
    <3>2. CASE Root(handle, x) # owner
      <4> DEFINE root == Root(handle, x)
                 place == Bytes(handle, userBuf, x)
      <4>1. root \in Handles /\ ~IsChild(handle, root) /\ x # owner
        <5>1. Root(handle, owner) = owner BY <1>2 DEF Root
        <5> QED BY <1>0, <3>2, <5>1, RootLives
      <4>2. hd2[x] = handle[x] /\ hd2[root] = handle[root] BY <2>6, <3>2, <4>1
      <4>3. /\ place \in Blocks /\ heap[place] \in Nat \ {0} /\ heap[place] >= Reach(handle, x)
            /\ Reach(handle, x) \in 1..MaxSize
            /\ place = (IF Foreign(handle, root) THEN userBuf ELSE handle[root].alloc)
            /\ (~Foreign(handle, root) => place # userBuf)
        <5>1. x # h BY <3>2 DEF owner
        <5>2. place = (IF Foreign(handle, root) THEN userBuf ELSE handle[root].alloc) BY DEF Bytes
        <5> QED BY <1>0, <4>2, <5>1, <5>2, BytesHeld
      <4>4. Foreign(handle, root) => ~foreign
        BY <1>0, <1>2, <3>2, <4>1 DEF Kept, OneForeign, foreign
      <4>5. place # old
        <5>1. CASE inline BY <1>0, <1>4, <4>3, <5>1
        <5>2. CASE h \in hollow BY <1>0, <1>a, <4>3, <4>4, <5>2
        <5>3. CASE ~inline /\ h \notin hollow
          <6>1. CASE Foreign(handle, root) BY <1>5, <4>3, <4>4, <5>3, <6>1
          <6>2. CASE ~Foreign(handle, root) BY <1>5, <3>2, <4>1, <4>3, <5>3, <6>2
          <6> QED BY <6>1, <6>2
        <5> QED BY <5>1, <5>2, <5>3
      <4>6. Bytes(hd2, ub2, x) = place
        <5>1. Foreign(handle, root) => ub2 = userBuf BY <2>1, <4>4
        <5>2. Bytes(hd2, ub2, x) = IF Foreign(handle, root) THEN ub2 ELSE handle[root].alloc
          BY <2>8, <4>1, <4>2 DEF Bytes
        <5> QED BY <4>3, <5>1, <5>2
      <4>7. mem2[place] = heap[place] BY <2>3, <2>5, <4>3, <4>5
      <4>8. Reach(handle, x) <= MaxSize BY <1>0, <4>3
      <4> HIDE DEF place
      <4> QED BY <2>13, <4>3, <4>6, <4>7, <4>8
    <3> QED BY <3>1, <3>2
  <2>16. Nested(hd2)
    <3>1. \A x \in Handles : IsChild(handle, x) => handle[x].parent \in Handles
      <4> TAKE x \in Handles
      <4> HAVE IsChild(handle, x)
      <4>1. Lives(handle, x) BY <1>0 DEF Kept, FlagsSay, Lives, IsChild, Dead
      <4> QED BY <1>0, <4>1, RootLives
    <3>2. Nested(handle) BY <1>0 DEF Kept
    <3> QED BY <2>7, <2>8, <3>1, <3>2 DEF Nested
  <2>17. OneForeign(hd2, ub2)
    <3>1. foreign => ub2 \in Blocks BY <2>1, <2>3
    <3>2. ~foreign => ub2 = userBuf BY <2>1
    <3> QED BY <1>0, <2>8, <3>1, <3>2 DEF Kept, OneForeign
  <2>18. Kept(hd2, mem2, ub2, Away, hw2)
    <3>1. hollow \ {h} \subseteq Handles /\ \A x \in hollow \ {h} : Hollow(hd2[x])
      <4>1. \A x \in hollow \ {h} : x \in Handles /\ Hollow(handle[x]) BY <1>0 DEF Kept
      <4>2. \A x \in hollow \ {h} : x # owner BY <1>2
      <4> QED BY <2>6, <4>1, <4>2
    <3> QED BY <2>9, <2>10, <2>11, <2>15, <2>16, <2>17, <3>1 DEF Kept
  <2>19. "INLINE" \notin hd2[h].flags /\ mem2[Bytes(hd2, ub2, h)] >= req
    <3>1. Bytes(hd2, ub2, h) = to BY <1>1, <2>14 DEF owner
    <3>2. mem2[to] >= req BY <1>6, <2>2, <2>5
    <3>3. "INLINE" \notin hd2[h].flags
      <4>1. CASE owner = h BY <2>6, <4>1 DEF flags
      <4>2. CASE owner # h
        <5>1. ~inline BY <1>2, <4>2
        <5> QED BY <2>6, <4>2, <5>1 DEF inline
      <4> QED BY <4>1, <4>2
    <3> QED BY <3>1, <3>2, <3>3
  <2> QED BY <2>7, <2>18, <2>19 DEF req
<1> QED BY <1>9, <1>10
-----------------------------------------------------------------------------
(* The records of documents that come to be, and who owns what then.       *)
LEMMA NewIs ==
  ASSUME NEW flags \in SUBSET Flags, NEW struct \in Places, NEW alloc \in Places, NEW len \in Nat
  PROVE  /\ New(flags, struct, alloc, len) \in Records
         /\ New(flags, struct, alloc, len).flags = flags
         /\ New(flags, struct, alloc, len).struct = struct
         /\ New(flags, struct, alloc, len).alloc = alloc /\ New(flags, struct, alloc, len).len = len
BY DEF New, Records

LEMMA DeadIs ==
  /\ Dead \in Records /\ Dead.flags = {"DEAD"} /\ Dead.struct = NULL /\ Dead.alloc = NULL
  /\ FlagsSay(Dead)
  /\ \A hd, mem, ub, tk, hw : Kept(hd, mem, ub, tk, hw) =>
       \A h \in Handles : ~Lives(hd, h) => hd[h] = Dead /\ h \notin hw
<1>1. NULL \in Places /\ {"DEAD"} \in SUBSET Flags BY DEF Places, Flags
<1>2. Dead \in Records /\ Dead.flags = {"DEAD"} /\ Dead.struct = NULL /\ Dead.alloc = NULL
  BY <1>1 DEF Dead, Records
<1>3. FlagsSay(Dead) BY <1>2 DEF FlagsSay
<1>4. ASSUME NEW hd, NEW mem, NEW ub, NEW tk, NEW hw, Kept(hd, mem, ub, tk, hw),
             NEW h \in Handles, ~Lives(hd, h)
      PROVE  hd[h] = Dead /\ h \notin hw
  BY <1>4 DEF Kept, FlagsSay, Lives, Hollow
<1> QED BY <1>2, <1>3, <1>4

LEMMA OwnPut ==
  ASSUME NEW hd, NEW mem, NEW ub, NEW tk, Typed(hd, mem, ub, tk), NEW h \in Handles, NEW r \in Records,
         NEW hd2 \in [Handles -> Records], hd2[h] = r, \A x \in Handles : x # h => hd2[x] = hd[x],
         NEW mem2 \in [Blocks -> Nat], NEW ub2 \in Places
  PROVE  /\ Typed(hd2, mem2, ub2, tk)
         /\ Own(hd2, ub2, tk) \in [Owners -> Places] /\ Own(hd2, ub2, tk)[Buffer] = ub2
         /\ Own(hd2, ub2, tk)[StructOf(h)] = r.struct /\ Own(hd2, ub2, tk)[BytesOf(h)] = r.alloc
         /\ \A o \in Owners : o # StructOf(h) /\ o # BytesOf(h) /\ o # Buffer =>
                                Own(hd2, ub2, tk)[o] = Own(hd, ub, tk)[o]
<1> DEFINE own == Own(hd, ub, tk)
           own2 == Own(hd2, ub2, tk)
<1>2. hd2[h] = r /\ \A x \in Handles : x # h => hd2[x] = hd[x] OBVIOUS
<1>3. Typed(hd2, mem2, ub2, tk) BY DEF Typed
<1>4. /\ own \in [Owners -> Places] /\ own2 \in [Owners -> Places]
      /\ own2[Buffer] = ub2 /\ \A b \in Blocks : own[AwayFrom(b)] = own2[AwayFrom(b)]
  BY <1>3, OwnIs, AwayStays
<1>5. \A x \in Handles : /\ own[StructOf(x)] = hd[x].struct /\ own[BytesOf(x)] = hd[x].alloc
                         /\ own2[StructOf(x)] = hd2[x].struct /\ own2[BytesOf(x)] = hd2[x].alloc
  BY <1>3, OwnIs
<1> HIDE DEF own, own2
<1>6. \A o \in Owners : o # StructOf(h) /\ o # BytesOf(h) /\ o # Buffer => own2[o] = own[o]
  BY <1>2, <1>4, <1>5, OwnersDiffer
<1>7. own2[StructOf(h)] = r.struct /\ own2[BytesOf(h)] = r.alloc BY <1>2, <1>5
<1> QED BY <1>2, <1>3, <1>4, <1>6, <1>7 DEF own, own2

(* Nothing more is let go of.                                              *)
LEMMA HandsOn ==
  ASSUME HandleInv, UNCHANGED <<taken, leaked>> PROVE Away' = Away /\ OneGift'
BY DEF HandleInv, Away, OneGift

LEMMA PutIs ==
  ASSUME handle \in [Handles -> Records], NEW h \in Handles, NEW r \in Records, Put(h, r)
  PROVE  /\ handle' \in [Handles -> Records] /\ handle'[h] = r
         /\ \A x \in Handles : x # h => handle'[x] = handle[x]
BY DEF Put

(* Documents whose bytes are in the struct or not theirs, on the stack.    *)
LEMMA ArrivesBare ==
  ASSUME HandleInv, NEW h \in Handles, ~Live(h), NEW len \in 1..MaxSize, NEW flags,
         \/ flags = {"STATIC", "INLINE"} /\ len <= InlineCap
         \/ flags = {"STATIC", "RDONLY"},
         Put(h, New(flags, NULL, NULL, len)), UNCHANGED <<heap, userBuf, taken, leaked, hollow>>
  PROVE  HandleInv'
<1> DEFINE r == New(flags, NULL, NULL, len)
           own == Own(handle, userBuf, Away)
<1>0. Kept(handle, heap, userBuf, Away, hollow) /\ Typed(handle, heap, userBuf, Away) /\ Empty = 2
      /\ heap \in [Blocks -> Nat] /\ userBuf \in Places /\ NULL \in Places
      /\ handle \in [Handles -> Records]
  BY DEF HandleInv, Kept, Typed, Places, Empty
<1>1. len \in Nat /\ flags \in SUBSET Flags BY <1>0 DEF Flags
<1>2. r \in Records /\ r.flags = flags /\ r.struct = NULL /\ r.alloc = NULL /\ r.len = len
  BY <1>0, <1>1, NewIs
<1> HIDE DEF r
<1>3. FlagsSay(r) BY <1>2 DEF FlagsSay, Over
<1>4. /\ heap' = heap /\ userBuf' = userBuf /\ hollow' = hollow /\ Away' = Away /\ OneGift'
      /\ handle' \in [Handles -> Records] /\ handle'[h] = r
      /\ \A x \in Handles : x # h => handle'[x] = handle[x]
  BY <1>0, <1>2, PutIs, HandsOn DEF r
<1>5. ~Lives(handle, h) /\ handle[h] = Dead /\ h \notin hollow BY <1>0, DeadIs DEF Live, Lives
<1> DEFINE own2 == Own(handle', userBuf, Away)
<1>6. /\ Typed(handle', heap, userBuf, Away)
      /\ own2 \in [Owners -> Places] /\ own2[Buffer] = userBuf
      /\ own2[StructOf(h)] = NULL /\ own2[BytesOf(h)] = NULL
      /\ \A o \in Owners : o # StructOf(h) /\ o # BytesOf(h) /\ o # Buffer => own2[o] = own[o]
  BY <1>0, <1>2, <1>4, OwnPut
<1>7. own \in [Owners -> Places] /\ own[StructOf(h)] = NULL /\ own[BytesOf(h)] = NULL
      /\ own[Buffer] = userBuf
  BY <1>0, <1>5, OwnIs, DeadIs
<1>8. Own(handle', userBuf, Away) = own
  <2> HIDE DEF own, own2
  <2>1. \A o \in Owners : own2[o] = own[o] BY <1>6, <1>7
  <2>2. own2 = own BY <1>6, <1>7, <2>1
  <2> QED BY <2>2 DEF own2
<1>9. OneOwner(Own(handle', userBuf, Away), heap) BY <1>0, <1>8 DEF Kept, own
<1>10. Fits(handle', heap, userBuf, h) BY <1>2, <1>4 DEF Fits
<1>11. r.flags \intersect {"DEAD", "CHILD", "IN_CHILD"} = {} /\ ~Over(r) BY <1>2 DEF Over
<1>12. Kept(handle', heap, userBuf, Away, hollow)
  BY <1>0, <1>2, <1>3, <1>4, <1>5, <1>6, <1>9, <1>10, <1>11, Arrives
<1> QED BY <1>4, <1>12 DEF HandleInv

(* Documents on the heap, their bytes inside the struct or in a block.     *)
LEMMA SizedNewStep ==
  ASSUME HandleInv, NEW h \in Handles, NEW size \in Nat, NEW len \in 1..MaxSize, len <= size,
         SizedNew(h, size, len)
  PROVE  HandleInv'
<1> DEFINE s == Unused(heap)
           one == Malloc(heap, StructSize)
           own == Own(handle, userBuf, Away)
           own1 == [own EXCEPT ![StructOf(h)] = s]
           own2 == Own(handle', userBuf, Away)
<1>0. /\ Kept(handle, heap, userBuf, Away, hollow) /\ Typed(handle, heap, userBuf, Away)
      /\ Empty = 2 /\ MaxSize \in Nat /\ InlineCap \in Nat /\ InlineCap >= Empty
      /\ heap \in [Blocks -> Nat] /\ userBuf \in Places /\ NULL \in Places
      /\ handle \in [Handles -> Records] /\ OneOwner(own, heap) /\ StructSize \in Nat \ {0}
  BY Sizes, HandleAssumption DEF HandleInv, Kept, Typed, Places, HandleAssumption
<1>1. /\ ~Live(h) /\ ~Lives(handle, h) /\ Room(2) /\ Room(1) /\ UNCHANGED <<userBuf, taken, leaked, hollow>>
      /\ len \in Nat /\ len <= MaxSize
  <2>1. ~Live(h) /\ Room(2) BY DEF SizedNew
  <2>2. Room(1)
    <3> DEFINE c == Cardinality({b \in Blocks : heap[b] = 0})
    <3>1. c \in Nat
      <4>1. IsFiniteSet(Blocks) BY HandleAssumption DEF HandleAssumption
      <4>2. IsFiniteSet({b \in Blocks : heap[b] = 0}) BY <4>1, FS_Subset
      <4> QED BY <4>2, FS_CardinalityType
    <3>2. c >= 2 BY <2>1 DEF Room
    <3> HIDE DEF c
    <3>3. c >= 1 BY <3>1, <3>2
    <3> QED BY <3>3 DEF Room, c
  <2> QED BY <1>0, <2>1, <2>2 DEF SizedNew, Live, Lives
<1>2. handle[h] = Dead /\ h \notin hollow BY <1>0, <1>1, DeadIs
<1>a. Away' = Away /\ OneGift' /\ userBuf' = userBuf /\ hollow' = hollow BY <1>1, HandsOn
<1>3. own \in [Owners -> Places] /\ own[StructOf(h)] = NULL /\ own[BytesOf(h)] = NULL
      /\ own[Buffer] = userBuf
  BY <1>0, <1>2, OwnIs, DeadIs
<1>4. FreeIn(heap) # {} /\ FreeIn(one) # {} BY <1>0, <1>1, RoomLeft
<1>5. s \in Blocks /\ s \in Places BY <1>0, <1>4, UnusedIsFree DEF Places
<1> HIDE DEF own, s, one
<1>6. own1 \in [Owners -> Places] /\ own1[StructOf(h)] = s
      /\ \A o \in Owners : o # StructOf(h) => own1[o] = own[o]
  BY <1>3, <1>5, OwnersDiffer
<1> HIDE DEF own1
<1>7. /\ heap[s] = 0 /\ one \in [Blocks -> Nat] /\ one[s] = StructSize
      /\ (\A b \in Blocks : b # s => one[b] = heap[b]) /\ OneOwner(own1, one)
  BY <1>0, <1>3, <1>4, <1>6, OwnersDiffer, Allocates DEF s, one
<1>8. CASE size <= InlineCap
  <2> DEFINE r == New({"INLINE"}, s, NULL, len)
  <2>1. heap' = one /\ Put(h, r) BY <1>8 DEF SizedNew, s, one
  <2>2. {"INLINE"} \in SUBSET Flags BY DEF Flags
  <2>3. /\ r \in Records /\ r.flags = {"INLINE"} /\ r.struct = s /\ r.alloc = NULL /\ r.len = len
    BY <1>0, <1>1, <1>5, <2>2, NewIs
  <2> HIDE DEF r
  <2>b. r \in Records BY <2>3
  <2>4. len <= InlineCap BY <1>0, <1>1, <1>8
  <2>5. FlagsSay(r) BY <2>3, <2>4 DEF FlagsSay, Over
  <2>6. handle' \in [Handles -> Records] /\ handle'[h] = r
        /\ \A x \in Handles : x # h => handle'[x] = handle[x]
    BY <1>0, <2>1, <2>3, PutIs
  <2>a. one \in [Blocks -> Nat] BY <1>7
  <2>7. /\ Typed(handle', one, userBuf, Away)
        /\ own2 \in [Owners -> Places] /\ own2[Buffer] = userBuf
        /\ own2[StructOf(h)] = s /\ own2[BytesOf(h)] = NULL
        /\ \A o \in Owners : o # StructOf(h) /\ o # BytesOf(h) /\ o # Buffer => own2[o] = own[o]
    <3>1. /\ Typed(handle', one, userBuf, Away)
          /\ own2 \in [Owners -> Places] /\ own2[Buffer] = userBuf
          /\ own2[StructOf(h)] = r.struct /\ own2[BytesOf(h)] = r.alloc
          /\ \A o \in Owners : o # StructOf(h) /\ o # BytesOf(h) /\ o # Buffer =>
                                own2[o] = Own(handle, userBuf, Away)[o]
      BY <1>0, <2>a, <2>b, <2>6, OwnPut
    <3> HIDE DEF own2
    <3> QED BY <2>3, <3>1 DEF own
  <2> HIDE DEF own2
  <2>8. \A o \in Owners : own2[o] = own1[o] BY <1>3, <1>6, <2>7, OwnersDiffer
  <2>9. OneOwner(own2, one)
    <3>1. own2 = own1 BY <1>6, <2>7, <2>8
    <3> QED BY <1>7, <3>1
  <2>10. \A b \in Blocks : heap[b] # 0 => one[b] = heap[b] BY <1>7
  <2>11. Fits(handle', one, userBuf, h) BY <2>3, <2>6 DEF Fits
  <2>12. r.flags \intersect {"DEAD", "CHILD", "IN_CHILD"} = {} /\ ~Over(r) BY <2>3 DEF Over
  <2>13. Kept(handle', one, userBuf, Away, hollow)
    BY <1>0, <1>1, <1>2, <2>3, <2>5, <2>6, <2>7, <2>9, <2>10, <2>11, <2>12, Arrives DEF own2
  <2> QED BY <1>a, <2>1, <2>13 DEF HandleInv
<1>9. CASE ~(size <= InlineCap)
  <2> DEFINE a == Unused(one)
             two == Malloc(one, size)
             r == New({}, s, a, len)
  <2>0. size \in Nat \ {0} BY <1>0, <1>9
  <2>1. heap' = two /\ Put(h, r) BY <1>9 DEF SizedNew, s, one
  <2>2. {} \in SUBSET Flags /\ a \in Blocks /\ a \in Places
    BY <1>4, <1>7, UnusedIsFree DEF Places
  <2> HIDE DEF a, two
  <2>3. /\ r \in Records /\ r.flags = {} /\ r.struct = s /\ r.alloc = a /\ r.len = len
    BY <1>0, <1>1, <1>5, <2>2, NewIs
  <2> HIDE DEF r
  <2>b. r \in Records BY <2>3
  <2>5. FlagsSay(r) BY <2>3 DEF FlagsSay, Over
  <2>6. handle' \in [Handles -> Records] /\ handle'[h] = r
        /\ \A x \in Handles : x # h => handle'[x] = handle[x]
    BY <1>0, <2>1, <2>3, PutIs
  <2>a. two \in [Blocks -> Nat] BY <2>0, <1>7, <2>2 DEF two, a, Malloc
  <2>7. /\ Typed(handle', two, userBuf, Away)
        /\ own2 \in [Owners -> Places] /\ own2[Buffer] = userBuf
        /\ own2[StructOf(h)] = s /\ own2[BytesOf(h)] = a
        /\ \A o \in Owners : o # StructOf(h) /\ o # BytesOf(h) /\ o # Buffer => own2[o] = own[o]
    <3>1. /\ Typed(handle', two, userBuf, Away)
          /\ own2 \in [Owners -> Places] /\ own2[Buffer] = userBuf
          /\ own2[StructOf(h)] = r.struct /\ own2[BytesOf(h)] = r.alloc
          /\ \A o \in Owners : o # StructOf(h) /\ o # BytesOf(h) /\ o # Buffer =>
                                own2[o] = Own(handle, userBuf, Away)[o]
      BY <1>0, <2>a, <2>b, <2>6, OwnPut
    <3> HIDE DEF own2
    <3> QED BY <2>3, <3>1 DEF own
  <2> HIDE DEF own2
  <2>8. \A o \in Owners : o # BytesOf(h) => own2[o] = own1[o] BY <1>3, <1>6, <2>7, OwnersDiffer
  <2>9. own1[BytesOf(h)] = NULL BY <1>3, <1>6, OwnersDiffer
  <2>10. /\ one[a] = 0 /\ two[a] = size /\ OneOwner(own2, two)
         /\ \A b \in Blocks : b # a => two[b] = one[b]
    BY <1>4, <1>6, <1>7, <2>0, <2>7, <2>8, <2>9, OwnersDiffer, Allocates DEF a, two
  <2>11. \A b \in Blocks : heap[b] # 0 => two[b] = heap[b] BY <1>0, <1>7, <2>10
  <2>12. r.flags \intersect {"DEAD", "CHILD", "IN_CHILD"} = {} /\ ~Over(r) BY <2>3 DEF Over
  <2>13. Fits(handle', two, userBuf, h)
    <3>1. ~IsChild(handle', h) /\ ~Foreign(handle', h) BY <2>3, <2>6 DEF IsChild, Foreign, Over
    <3>2. Bytes(handle', userBuf, h) = a BY <2>3, <2>6, <3>1 DEF Bytes, Root
    <3>3. Reach(handle', h) = len + 0 BY <2>3, <2>6, <3>1 DEF Reach
    <3>4. Reach(handle', h) <= MaxSize /\ two[a] >= Reach(handle', h) BY <1>0, <1>1, <2>10, <3>3
    <3> QED BY <2>2, <3>2, <3>4 DEF Fits
  <2>14. Kept(handle', two, userBuf, Away, hollow)
    BY <1>0, <1>1, <1>2, <2>3, <2>5, <2>6, <2>7, <2>10, <2>11, <2>12, <2>13, Arrives DEF own2
  <2> QED BY <1>a, <2>1, <2>14 DEF HandleInv
<1> QED BY <1>8, <1>9

(* A document over a buffer that is made for the caller to keep, or over   *)
(* one that the caller has.                                                *)
LEMMA BufferMade ==
  ASSUME HandleInv, NEW h \in Handles, ~Live(h), userBuf = NULL, Room(2),
         heap' = Malloc(Malloc(heap, StructSize), Empty),
         userBuf' = Unused(Malloc(heap, StructSize)),
         Put(h, New({"NO_FREE"}, Unused(heap), NULL, Empty)), UNCHANGED <<taken, leaked, hollow>>
  PROVE  HandleInv'
<1> DEFINE s == Unused(heap)
           one == Malloc(heap, StructSize)
           a == Unused(one)
           two == Malloc(one, Empty)
           r == New({"NO_FREE"}, s, NULL, Empty)
           own == Own(handle, userBuf, Away)
           own1 == [own EXCEPT ![StructOf(h)] = s]
           own2 == Own(handle', a, Away)
<1>0. /\ Kept(handle, heap, userBuf, Away, hollow) /\ Typed(handle, heap, userBuf, Away)
      /\ Empty = 2 /\ MaxSize \in Nat /\ Empty <= MaxSize /\ NULL \in Places
      /\ heap \in [Blocks -> Nat] /\ userBuf \in Places
      /\ handle \in [Handles -> Records] /\ OneOwner(own, heap) /\ StructSize \in Nat \ {0}
  BY Sizes, HandleAssumption DEF HandleInv, Kept, Typed, Places, HandleAssumption
<1>1. /\ ~Lives(handle, h) /\ heap' = two /\ userBuf' = a /\ Put(h, r)
      /\ hollow' = hollow /\ Away' = Away /\ OneGift'
  BY HandsOn DEF Live, Lives
<1>2. /\ handle[h] = Dead /\ h \notin hollow
      /\ \A x \in Handles : ~Foreign(handle, x)
  <2>1. NULL \notin Blocks BY HandleAssumption DEF HandleAssumption
  <2> QED BY <1>0, <1>1, <2>1, DeadIs DEF Kept, OneForeign
<1>3. own \in [Owners -> Places] /\ own[StructOf(h)] = NULL /\ own[BytesOf(h)] = NULL
      /\ own[Buffer] = NULL
  BY <1>0, <1>1, <1>2, OwnIs, DeadIs
<1>4. FreeIn(heap) # {} /\ FreeIn(one) # {}
  <2>1. Room(1)
    <3> DEFINE c == Cardinality({b \in Blocks : heap[b] = 0})
    <3>1. IsFiniteSet(Blocks) BY HandleAssumption DEF HandleAssumption
    <3>2. IsFiniteSet({b \in Blocks : heap[b] = 0}) BY <3>1, FS_Subset
    <3>3. c \in Nat BY <3>2, FS_CardinalityType
    <3>4. c >= 2 BY DEF Room
    <3> HIDE DEF c
    <3>5. c >= 1 BY <3>3, <3>4
    <3> QED BY <3>5 DEF Room, c
  <2> QED BY <1>0, <1>1, <2>1, RoomLeft
<1>5. s \in Blocks /\ s \in Places BY <1>0, <1>4, UnusedIsFree DEF Places
<1> HIDE DEF own, s, one, r
<1>6. own1 \in [Owners -> Places] /\ own1[StructOf(h)] = s
      /\ \A o \in Owners : o # StructOf(h) => own1[o] = own[o]
  BY <1>3, <1>5, OwnersDiffer
<1> HIDE DEF own1
<1>7. /\ heap[s] = 0 /\ one \in [Blocks -> Nat] /\ one[s] = StructSize
      /\ (\A b \in Blocks : b # s => one[b] = heap[b]) /\ OneOwner(own1, one)
  BY <1>0, <1>3, <1>4, <1>6, OwnersDiffer, Allocates DEF s, one
<1>8. {"NO_FREE"} \in SUBSET Flags /\ Empty \in Nat BY <1>0 DEF Flags
<1>9. r \in Records /\ r.flags = {"NO_FREE"} /\ r.struct = s /\ r.alloc = NULL /\ r.len = Empty
  BY <1>0, <1>5, <1>8, NewIs DEF r
<1>10. r \in Records BY <1>9
<1>11. FlagsSay(r) BY <1>0, <1>9 DEF FlagsSay, Over
<1>12. /\ handle' \in [Handles -> Records] /\ handle'[h] = r
       /\ \A x \in Handles : x # h => handle'[x] = handle[x]
  BY <1>0, <1>1, <1>10, PutIs
<1>13. a \in Blocks /\ a \in Places BY <1>4, <1>7, UnusedIsFree DEF Places
<1>14. two \in [Blocks -> Nat]
  <2>1. two = [one EXCEPT ![a] = Empty] BY DEF Malloc
  <2> QED BY <1>7, <1>8, <1>13, <2>1
<1> HIDE DEF a, two
<1>15. /\ Typed(handle', two, a, Away)
       /\ own2 \in [Owners -> Places] /\ own2[Buffer] = a
       /\ own2[StructOf(h)] = s /\ own2[BytesOf(h)] = NULL
       /\ \A o \in Owners : o # StructOf(h) /\ o # BytesOf(h) /\ o # Buffer => own2[o] = own[o]
  <2>1. /\ Typed(handle', two, a, Away)
        /\ own2 \in [Owners -> Places] /\ own2[Buffer] = a
        /\ own2[StructOf(h)] = r.struct /\ own2[BytesOf(h)] = r.alloc
        /\ \A o \in Owners : o # StructOf(h) /\ o # BytesOf(h) /\ o # Buffer =>
                                own2[o] = Own(handle, userBuf, Away)[o]
    <3>1. h \in Handles /\ a \in Places BY <1>13
    <3>2. Typed(handle, heap, userBuf, Away) BY <1>0
    <3> QED BY ONLY <3>1, <3>2, <1>10, <1>12, <1>14, OwnPut
  <2> HIDE DEF own2
  <2> QED BY <1>9, <2>1 DEF own
<1> HIDE DEF own2
<1>16. \A o \in Owners : o # Buffer => own2[o] = own1[o] BY <1>3, <1>6, <1>15, OwnersDiffer
<1>17. own1[Buffer] = NULL BY <1>3, <1>6, OwnersDiffer
<1>18. /\ one[a] = 0 /\ two[a] = Empty /\ OneOwner(own2, two)
       /\ \A b \in Blocks : b # a => two[b] = one[b]
  <2>1. Empty \in Nat \ {0} BY <1>0
  <2> QED BY <1>4, <1>6, <1>7, <1>15, <1>16, <1>17, <2>1, OwnersDiffer, Allocates DEF a, two
<1>19. \A b \in Blocks : heap[b] # 0 => two[b] = heap[b] BY <1>0, <1>7, <1>18
<1>20. r.flags \intersect {"DEAD", "CHILD", "IN_CHILD"} = {} BY <1>9
<1>21. Fits(handle', two, a, h)
  <2>1. ~IsChild(handle', h) /\ Foreign(handle', h) BY <1>9, <1>12 DEF IsChild, Foreign, Over
  <2>2. Bytes(handle', a, h) = a BY <1>9, <1>12, <2>1 DEF Bytes, Root
  <2>3. Reach(handle', h) = Empty + 0 BY <1>9, <1>12, <2>1 DEF Reach
  <2>4. Reach(handle', h) <= MaxSize /\ two[a] >= Reach(handle', h) BY <1>0, <1>18, <2>3
  <2> QED BY <1>13, <2>2, <2>4 DEF Fits
<1>22. Kept(handle', two, a, Away, hollow)
  BY <1>0, <1>1, <1>2, <1>10, <1>11, <1>12, <1>13, <1>15, <1>18, <1>19, <1>20, <1>21, Arrives
     DEF own2
<1> QED BY <1>1, <1>22 DEF HandleInv

LEMMA BufferUsed ==
  ASSUME HandleInv, NEW h \in Handles, ~Live(h), \A g \in Handles : ~OverCaller(g),
         userBuf # NULL, Room(1), NEW word \in 1..MaxSize, userBuf' = userBuf,
         heap' = Malloc(heap, StructSize), Put(h, New({"NO_FREE"}, Unused(heap), NULL, word)),
         hollow' = IF word <= heap[userBuf] THEN hollow ELSE hollow \union {h},
         UNCHANGED <<taken, leaked>>
  PROVE  HandleInv'
<1> DEFINE s == Unused(heap)
           one == Malloc(heap, StructSize)
           r == New({"NO_FREE"}, s, NULL, word)
           own == Own(handle, userBuf, Away)
           own2 == Own(handle', userBuf, Away)
<1>0. /\ Kept(handle, heap, userBuf, Away, hollow) /\ Typed(handle, heap, userBuf, Away)
      /\ MaxSize \in Nat /\ NULL \in Places /\ heap \in [Blocks -> Nat] /\ userBuf \in Blocks
      /\ userBuf \in Places
      /\ handle \in [Handles -> Records] /\ OneOwner(own, heap) /\ StructSize \in Nat \ {0}
  BY Sizes, HandleAssumption DEF HandleInv, Kept, Typed, Places, HandleAssumption
<1>1. ~Lives(handle, h) /\ Away' = Away /\ OneGift' BY HandsOn DEF Live, Lives
<1>2. handle[h] = Dead /\ h \notin hollow BY <1>0, <1>1, DeadIs
<1>3. \A x \in Handles : ~Foreign(handle, x) BY DEF OverCaller, Has, Foreign, Over
<1>4. FreeIn(heap) # {} BY <1>0, RoomLeft
<1>5. s \in Places /\ word \in Nat /\ {"NO_FREE"} \in SUBSET Flags
  <2>1. s \in Blocks BY <1>0, <1>4, UnusedIsFree
  <2> QED BY <1>0, <2>1 DEF Places, Flags
<1> HIDE DEF s, one
<1>6. r \in Records /\ r.flags = {"NO_FREE"} /\ r.struct = s /\ r.alloc = NULL /\ r.len = word
  BY <1>0, <1>5, NewIs
<1> HIDE DEF r
<1>7. r \in Records BY <1>6
<1>8. /\ FlagsSay(r) /\ Over(r) /\ r.flags \intersect {"DEAD", "CHILD", "IN_CHILD"} = {}
      /\ Hollow(r)
  BY <1>6 DEF FlagsSay, Over, Hollow
<1>9. /\ handle' \in [Handles -> Records] /\ handle'[h] = r
      /\ \A x \in Handles : x # h => handle'[x] = handle[x]
  BY <1>0, <1>7, PutIs DEF r, s
<1>10. one \in [Blocks -> Nat]
  <2>1. s \in Blocks BY <1>0, <1>4, UnusedIsFree DEF s
  <2> QED BY <1>0, <2>1 DEF one, s, Malloc
<1>11. /\ Typed(handle', one, userBuf, Away)
       /\ own2 \in [Owners -> Places] /\ own2[Buffer] = userBuf
       /\ own2[StructOf(h)] = s /\ own2[BytesOf(h)] = NULL
       /\ \A o \in Owners : o # StructOf(h) /\ o # BytesOf(h) /\ o # Buffer => own2[o] = own[o]
  <2>1. /\ Typed(handle', one, userBuf, Away)
        /\ own2 \in [Owners -> Places] /\ own2[Buffer] = userBuf
        /\ own2[StructOf(h)] = r.struct /\ own2[BytesOf(h)] = r.alloc
        /\ \A o \in Owners : o # StructOf(h) /\ o # BytesOf(h) /\ o # Buffer =>
                                own2[o] = Own(handle, userBuf, Away)[o]
    BY <1>0, <1>7, <1>9, <1>10, OwnPut
  <2> HIDE DEF own2
  <2> QED BY <1>6, <2>1 DEF own
<1>12. own \in [Owners -> Places] /\ own[StructOf(h)] = NULL /\ own[BytesOf(h)] = NULL
       /\ own[Buffer] = userBuf
  BY <1>0, <1>2, OwnIs, DeadIs
<1> HIDE DEF own, own2
<1>13. \A o \in Owners : o # StructOf(h) => own2[o] = own[o] BY <1>11, <1>12, OwnersDiffer
<1>14. /\ heap[s] = 0 /\ OneOwner(own2, one)
       /\ \A b \in Blocks : b # s => one[b] = heap[b]
  BY <1>0, <1>4, <1>11, <1>12, <1>13, OwnersDiffer, Allocates DEF s, one
<1>15. \A b \in Blocks : heap[b] # 0 => one[b] = heap[b] BY <1>14
<1>16. heap[userBuf] # 0 BY <1>0, <1>12, OwnersDiffer DEF OneOwner
<1>17. word <= heap[userBuf] => Fits(handle', one, userBuf, h)
  <2> SUFFICES ASSUME word <= heap[userBuf] PROVE Fits(handle', one, userBuf, h) OBVIOUS
  <2>1. ~IsChild(handle', h) /\ Foreign(handle', h)
    BY <1>6, <1>8, <1>9 DEF IsChild, Foreign
  <2>2. Bytes(handle', userBuf, h) = userBuf BY <2>1 DEF Bytes, Root
  <2>3. Reach(handle', h) = word + 0 BY <1>6, <1>9, <2>1 DEF Reach
  <2>4. one[userBuf] = heap[userBuf] /\ heap[userBuf] \in Nat BY <1>0, <1>15, <1>16
  <2>5. Reach(handle', h) <= MaxSize /\ one[userBuf] >= Reach(handle', h)
    BY <1>0, <1>5, <2>3, <2>4
  <2> QED BY <1>0, <2>2, <2>5 DEF Fits
<1>18. /\ hollow' = hollow \/ hollow' = hollow \union {h}
       /\ IF h \in hollow' THEN Hollow(r) ELSE Fits(handle', one, userBuf, h)
  BY <1>2, <1>8, <1>17
<1>19. Kept(handle', one, userBuf, Away, hollow')
  BY <1>0, <1>1, <1>3, <1>7, <1>8, <1>9, <1>11, <1>14, <1>15, <1>18, Arrives DEF own2
<1> QED BY <1>1, <1>19 DEF HandleInv, one

LEMMA NewFromBufferStep ==
  ASSUME HandleInv, NEW h \in Handles, NEW word \in 1..MaxSize, NewFromBuffer(h, word)
  PROVE  HandleInv'
<1> DEFINE s == Unused(heap)
           one == Malloc(heap, StructSize)
<1>1. /\ ~Live(h) /\ (\A g \in Handles : ~OverCaller(g)) /\ UNCHANGED <<taken, leaked>>
      /\ \/ /\ userBuf = NULL /\ Room(2)
            /\ heap' = Malloc(one, Empty) /\ userBuf' = Unused(one)
            /\ Put(h, New({"NO_FREE"}, s, NULL, Empty)) /\ hollow' = hollow
         \/ /\ userBuf # NULL /\ Room(1) /\ heap' = one /\ userBuf' = userBuf
            /\ Put(h, New({"NO_FREE"}, s, NULL, word))
            /\ hollow' = IF word <= heap[userBuf] THEN hollow ELSE hollow \union {h}
  BY DEF NewFromBuffer
<1>2. CASE userBuf = NULL BY <1>1, <1>2, BufferMade
<1>3. CASE userBuf # NULL BY <1>1, <1>3, BufferUsed
<1> QED BY <1>2, <1>3

(* A copy into a struct of the caller's.                                   *)
LEMMA CopyToStep ==
  ASSUME HandleInv, NEW h \in Handles, NEW src \in Handles, CopyTo(src, h) PROVE HandleInv'
<1> DEFINE len == handle[src].len
           power == PowerOfTwo(len)
           a == Unused(heap)
           mem2 == Malloc(heap, power)
           r == New({"STATIC"}, NULL, a, len)
           own == Own(handle, userBuf, Away)
           own2 == Own(handle', userBuf, Away)
<1>0. /\ Kept(handle, heap, userBuf, Away, hollow) /\ Typed(handle, heap, userBuf, Away)
      /\ Empty = 2 /\ MaxSize \in Nat /\ Empty <= MaxSize /\ NULL \in Places
      /\ heap \in [Blocks -> Nat] /\ userBuf \in Places
      /\ handle \in [Handles -> Records] /\ OneOwner(own, heap)
  BY Sizes DEF HandleInv, Kept, Typed, Places
<1>1. /\ ~Live(h) /\ ~Lives(handle, h) /\ Lives(handle, src) /\ Room(1)
      /\ UNCHANGED <<userBuf, taken, leaked, hollow>>
  BY DEF CopyTo, Live, Lives
<1>2. handle[h] = Dead /\ h \notin hollow BY <1>0, <1>1, DeadIs
<1>a. Away' = Away /\ OneGift' /\ userBuf' = userBuf /\ hollow' = hollow BY <1>1, HandsOn
<1>3. len \in 1..MaxSize BY <1>0, <1>1, RootLives
<1>4. CASE Has(src, {"INLINE"})
  <2>1. Put(h, New({"STATIC", "INLINE"}, NULL, NULL, len)) /\ heap' = heap
    BY <1>4 DEF CopyTo
  <2>2. len <= InlineCap
    <3>1. FlagsSay(handle[src]) BY <1>0 DEF Kept
    <3> QED BY <1>1, <1>4, <3>1 DEF FlagsSay, Has, Lives
  <2> HIDE DEF len
  <2>3. UNCHANGED <<heap, userBuf, taken, leaked, hollow>> BY <1>1, <2>1
  <2> QED BY <1>1, <1>3, <2>1, <2>2, <2>3, ArrivesBare
<1>5. CASE ~Has(src, {"INLINE"})
  <2>1. heap' = mem2 /\ Put(h, r) BY <1>5 DEF CopyTo
  <2>2. power \in Nat \ {0} /\ len <= power /\ len \in Nat
    <3>1. len \in Nat \ {0} /\ 32 \in 0..32 /\ len <= 2 * MaxSize BY <1>0, <1>3
    <3> HIDE DEF len
    <3>2. len <= 2 ^ 32 BY <3>1, Sizes
    <3>3. PowerOfTwo(len) \in Nat /\ len <= PowerOfTwo(len) BY <3>1, <3>2, NextPowerFits, Zenon
    <3> HIDE DEF power
    <3> QED BY <3>1, <3>3 DEF power
  <2>3. FreeIn(heap) # {} BY <1>0, <1>1, RoomLeft
  <2>4. a \in Blocks /\ a \in Places BY <1>0, <2>3, UnusedIsFree DEF Places
  <2>5. {"STATIC"} \in SUBSET Flags BY DEF Flags
  <2> HIDE DEF len, power, a
  <2>6. r \in Records /\ r.flags = {"STATIC"} /\ r.struct = NULL /\ r.alloc = a /\ r.len = len
    BY <1>0, <2>2, <2>4, <2>5, NewIs
  <2> HIDE DEF r
  <2>7. r \in Records BY <2>6
  <2>8. FlagsSay(r) BY <1>3, <2>6 DEF FlagsSay, Over
  <2>9. /\ handle' \in [Handles -> Records] /\ handle'[h] = r
        /\ \A x \in Handles : x # h => handle'[x] = handle[x]
    BY <1>0, <2>1, <2>7, PutIs
  <2>10. mem2 \in [Blocks -> Nat]
    <3>1. mem2 = [heap EXCEPT ![a] = power] BY DEF Malloc, a
    <3> QED BY <1>0, <2>2, <2>4, <3>1
  <2> HIDE DEF mem2
  <2>11. /\ Typed(handle', mem2, userBuf, Away)
         /\ own2 \in [Owners -> Places] /\ own2[Buffer] = userBuf
         /\ own2[StructOf(h)] = NULL /\ own2[BytesOf(h)] = a
         /\ \A o \in Owners : o # StructOf(h) /\ o # BytesOf(h) /\ o # Buffer => own2[o] = own[o]
    <3>1. /\ Typed(handle', mem2, userBuf, Away)
          /\ own2 \in [Owners -> Places] /\ own2[Buffer] = userBuf
          /\ own2[StructOf(h)] = r.struct /\ own2[BytesOf(h)] = r.alloc
          /\ \A o \in Owners : o # StructOf(h) /\ o # BytesOf(h) /\ o # Buffer =>
                                own2[o] = Own(handle, userBuf, Away)[o]
      BY <1>0, <2>7, <2>9, <2>10, OwnPut, SMTT(30)
    <3> HIDE DEF own2
    <3> QED BY <2>6, <3>1 DEF own
  <2>12. own \in [Owners -> Places] /\ own[StructOf(h)] = NULL /\ own[BytesOf(h)] = NULL
         /\ own[Buffer] = userBuf
    BY <1>0, <1>2, OwnIs, DeadIs
  <2> HIDE DEF own, own2
  <2>13. \A o \in Owners : o # BytesOf(h) => own2[o] = own[o] BY <2>11, <2>12, OwnersDiffer
  <2>14. /\ heap[a] = 0 /\ mem2[a] = power /\ OneOwner(own2, mem2)
         /\ \A b \in Blocks : b # a => mem2[b] = heap[b]
    BY <1>0, <2>2, <2>3, <2>11, <2>12, <2>13, OwnersDiffer, Allocates DEF a, mem2
  <2>15. \A b \in Blocks : heap[b] # 0 => mem2[b] = heap[b] BY <2>14
  <2>16. r.flags \intersect {"DEAD", "CHILD", "IN_CHILD"} = {} /\ ~Over(r) BY <2>6 DEF Over
  <2>17. Fits(handle', mem2, userBuf, h)
    <3>1. ~IsChild(handle', h) /\ ~Foreign(handle', h) BY <2>6, <2>9 DEF IsChild, Foreign, Over
    <3>2. Bytes(handle', userBuf, h) = a BY <2>6, <2>9, <3>1 DEF Bytes, Root
    <3>3. Reach(handle', h) = len + 0 BY <2>6, <2>9, <3>1 DEF Reach
    <3>4. Reach(handle', h) <= MaxSize /\ mem2[a] >= Reach(handle', h)
      BY <1>0, <1>3, <2>2, <2>14, <3>3
    <3> QED BY <2>4, <3>2, <3>4 DEF Fits
  <2>18. Kept(handle', mem2, userBuf, Away, hollow)
    BY <1>0, <1>1, <1>2, <2>7, <2>8, <2>9, <2>11, <2>14, <2>15, <2>16, <2>17, Arrives DEF own2
  <2> QED BY <1>a, <2>1, <2>18 DEF HandleInv
<1> QED BY <1>4, <1>5

(* A document grows, or a buffer is reserved in it.                        *)
LEMMA MovedIs ==
  ASSUME NEW h, NEW size
  PROVE  Moved(h, size) = [heap |-> Moved(h, size).heap, userBuf |-> Moved(h, size).userBuf,
                           handle |-> Moved(h, size).handle]
<1> DEFINE over == OverCaller(Owner(h))
           to == Unused(heap)
           mem == FreeBlock([heap EXCEPT ![to] = PowerOfTwo(Required(h, size))], Buf(h))
           ub == IF over THEN to ELSE userBuf
           hd == [handle EXCEPT ![Owner(h)].flags = @ \ {"INLINE"},
                                ![Owner(h)].alloc = IF over THEN @ ELSE to]
           stays == HasRoom(h, size)
<1>1. Moved(h, size) = IF stays THEN [heap |-> heap, userBuf |-> userBuf, handle |-> handle]
                       ELSE [heap |-> mem, userBuf |-> ub, handle |-> hd]
  BY DEF Moved
<1> HIDE DEF mem, ub, hd, stays
<1> QED BY <1>1

LEMMA ResizeStep ==
  ASSUME HandleInv, NEW h \in Handles, Live(h), ~Has(h, {"IN_CHILD", "RDONLY"}), NEW size \in Nat,
         Reach(handle, h) + size <= 2 * MaxSize, NEW len \in 1..MaxSize,
         len + (Reach(handle, h) - handle[h].len) <= Reach(handle, h) + size,
         len + (Reach(handle, h) - handle[h].len) <= MaxSize,
         Resize(h, size, len)
  PROVE  HandleInv'
<1> DEFINE grown == Moved(h, size)
           mem2 == grown.heap
           ub2 == grown.userBuf
           hd2 == grown.handle
           reach == Reach(handle, h)
           was == handle[h].len
<1>0. /\ Kept(handle, heap, userBuf, Away, hollow) /\ Typed(handle, heap, userBuf, Away)
      /\ handle \in [Handles -> Records] /\ MaxSize \in Nat /\ Empty = 2 /\ InlineCap \in Nat
      /\ Lives(handle, h)
  BY Sizes DEF HandleInv, Kept, Typed, Live, Lives
<1>1. /\ Room(1) /\ heap' = mem2 /\ userBuf' = ub2 /\ handle' = [hd2 EXCEPT ![h].len = len]
      /\ hollow' = hollow \ {h} /\ Away' = Away /\ OneGift'
  BY HandsOn DEF Resize
<1>2. grown = [heap |-> mem2, userBuf |-> ub2, handle |-> hd2] BY MovedIs
<1> HIDE DEF grown, mem2, ub2, hd2
<1>3. /\ Kept(hd2, mem2, ub2, Away, hollow \ {h})
      /\ \A x \in Handles : /\ hd2[x].flags \ {"INLINE"} = handle[x].flags \ {"INLINE"}
                            /\ hd2[x].len = handle[x].len /\ hd2[x].parent = handle[x].parent
      /\ IF "INLINE" \in hd2[h].flags
         THEN Reach(handle, h) + size <= InlineCap /\ "INLINE" \in handle[h].flags
         ELSE mem2[Bytes(hd2, ub2, h)] >= Reach(handle, h) + size
  <2>1. /\ HandleInv /\ Room(1) /\ h \in Handles /\ Live(h) /\ ~Has(h, {"IN_CHILD", "RDONLY"})
        /\ size \in Nat /\ Reach(handle, h) + size <= 2 * MaxSize
    BY <1>1
  <2>2. Moved(h, size) = [heap |-> mem2, userBuf |-> ub2, handle |-> hd2] BY <1>2 DEF grown
  <2> DEFINE hw2 == hollow \ {h}
  <2>3. hw2 = hollow \ {h} OBVIOUS
  <2> HIDE DEF hw2
  <2>4. /\ Kept(hd2, mem2, ub2, Away, hw2)
        /\ \A x \in Handles : /\ hd2[x].flags \ {"INLINE"} = handle[x].flags \ {"INLINE"}
                              /\ hd2[x].len = handle[x].len /\ hd2[x].parent = handle[x].parent
        /\ IF "INLINE" \in hd2[h].flags
           THEN Reach(handle, h) + size <= InlineCap /\ "INLINE" \in handle[h].flags
           ELSE mem2[Bytes(hd2, ub2, h)] >= Reach(handle, h) + size
    BY <2>1, <2>2, <2>3, Moves
  <2> QED BY <2>4 DEF hw2
<1>4. Lives(hd2, h) /\ "IN_CHILD" \notin hd2[h].flags /\ (IsChild(hd2, h) <=> IsChild(handle, h))
  BY <1>0, <1>3 DEF Lives, IsChild, Has
<1>5. Reach(hd2, h) = reach /\ hd2[h].len = was
  <2>1. IsChild(handle, h) => handle[h].parent \in Handles BY <1>0, RootLives
  <2> QED BY <1>3, <1>4, <2>1 DEF Reach
<1>6. reach \in Int /\ was \in Nat /\ len \in Nat
  <2>1. was \in Nat /\ len \in Nat BY <1>0 DEF Records
  <2>2. IsChild(handle, h) => handle[handle[h].parent].len \in Nat
    <3>1. IsChild(handle, h) => handle[h].parent \in Handles BY <1>0, RootLives
    <3> QED BY <1>0, <3>1 DEF Records
  <2> QED BY <1>0, <2>1, <2>2 DEF Reach
<1>7. "INLINE" \in hd2[h].flags => len <= InlineCap
  <2> SUFFICES ASSUME "INLINE" \in hd2[h].flags PROVE len <= InlineCap OBVIOUS
  <2>1. reach + size <= InlineCap /\ "INLINE" \in handle[h].flags BY <1>3
  <2>2. ~IsChild(handle, h) BY <1>0, <2>1, RootLives
  <2>3. reach = was + 0 BY <2>2 DEF Reach
  <2>4. len + (reach - was) <= reach + size OBVIOUS
  <2> HIDE DEF reach, was
  <2> QED BY <1>0, <1>6, <2>1, <2>3, <2>4
<1>8. hd2[h].flags \intersect {"INLINE", "RDONLY"} = {} =>
        /\ len + (Reach(hd2, h) - hd2[h].len) <= mem2[Bytes(hd2, ub2, h)]
        /\ len + (Reach(hd2, h) - hd2[h].len) <= MaxSize
  <2> SUFFICES ASSUME hd2[h].flags \intersect {"INLINE", "RDONLY"} = {}
               PROVE  /\ len + (reach - was) <= mem2[Bytes(hd2, ub2, h)]
                      /\ len + (reach - was) <= MaxSize
    BY <1>5
  <2> DEFINE room == mem2[Bytes(hd2, ub2, h)]
  <2>1. room \in Nat BY <1>3, <1>4, BytesHeld
  <2>2. room >= reach + size BY <1>3
  <2>3. len + (reach - was) <= reach + size /\ len + (reach - was) <= MaxSize OBVIOUS
  <2> HIDE DEF room, reach, was
  <2>4. len + (reach - was) <= room BY <1>6, <2>1, <2>2, <2>3
  <2> QED BY <2>3, <2>4 DEF room
<1>9. handle' = Lengthened(hd2, h, len) BY <1>1 DEF Lengthened
<1>10. Kept(handle', mem2, ub2, Away, hollow \ {h})
  BY <1>3, <1>4, <1>7, <1>8, <1>9, Resized
<1> QED BY <1>1, <1>10 DEF HandleInv

LEMMA ReachIs ==
  ASSUME HandleInv, NEW h \in Handles, Live(h)
  PROVE  /\ Reach(handle, h) = handle[h].len + Around(h) /\ Around(h) \in Nat
         /\ handle[h].len \in 1..MaxSize /\ (~Has(h, {"CHILD"}) => Around(h) = 0)
<1>0. Kept(handle, heap, userBuf, Away, hollow) /\ Lives(handle, h) /\ Empty = 2 /\ MaxSize \in Nat
  BY Sizes DEF HandleInv, Live, Lives
<1>1. Around(h) = (IF IsChild(handle, h) THEN handle[handle[h].parent].len - Empty ELSE 0)
      /\ (Has(h, {"CHILD"}) <=> IsChild(handle, h))
  BY DEF Around, Has, IsChild
<1>2. IsChild(handle, h) => /\ handle[handle[h].parent].len \in 1..MaxSize
                            /\ handle[handle[h].parent].len >= Empty
  <2> SUFFICES ASSUME IsChild(handle, h)
               PROVE  /\ handle[handle[h].parent].len \in 1..MaxSize
                      /\ handle[handle[h].parent].len >= Empty
    OBVIOUS
  <2>1. handle[h].parent = Root(handle, h) /\ Root(handle, h) \in Handles
        /\ Lives(handle, Root(handle, h)) /\ handle[Root(handle, h)].len >= Empty
    BY <1>0, RootLives
  <2> QED BY <1>0, <2>1, RootLives
<1>3. handle[h].len \in 1..MaxSize BY <1>0, RootLives
<1> QED BY <1>0, <1>1, <1>2, <1>3 DEF Reach

LEMMA GrowStep ==
  ASSUME HandleInv, NEW h \in Handles, Grow(h, 4) PROVE HandleInv'
<1>1. /\ Live(h) /\ ~Has(h, {"IN_CHILD", "RDONLY"}) /\ handle[h].len + 4 + Around(h) <= MaxLen
      /\ Resize(h, 4, handle[h].len + 4)
  BY DEF Grow
<1>2. /\ Reach(handle, h) = handle[h].len + Around(h) /\ Around(h) \in Nat
      /\ handle[h].len \in 1..MaxSize
  BY <1>1, ReachIs
<1>3. MaxLen \in 0..MaxSize /\ MaxSize \in Nat /\ Empty = 2
  BY Sizes, HandleAssumption DEF HandleAssumption
<1>4. PICK len \in Nat, around \in Nat, reach \in Nat :
        len = handle[h].len /\ around = Around(h) /\ reach = Reach(handle, h)
  BY <1>2, <1>3
<1>5. reach = len + around /\ len >= 1 /\ len + 4 + around <= MaxLen BY <1>1, <1>2, <1>3, <1>4
<1>6. reach + 4 <= 2 * MaxSize /\ len + 4 \in 1..MaxSize
      /\ (len + 4) + (reach - len) <= reach + 4 /\ (len + 4) + (reach - len) <= MaxSize
  BY <1>3, <1>5
<1>7. Resize(h, 4, len + 4) BY <1>1, <1>4
<1>8. 4 \in Nat OBVIOUS
<1> QED BY <1>1, <1>4, <1>6, <1>7, <1>8, ResizeStep

LEMMA ReserveStep ==
  ASSUME HandleInv, NEW h \in Handles, Reserve(h, InlineCap + 1) PROVE HandleInv'
<1> DEFINE size == InlineCap + 1
<1>1. Live(h) /\ ~Has(h, {"CHILD", "IN_CHILD", "RDONLY"}) /\ Resize(h, size, size)
  BY DEF Reserve
<1>2. ~Has(h, {"IN_CHILD", "RDONLY"}) /\ ~Has(h, {"CHILD"}) BY <1>1 DEF Has
<1>3. /\ Reach(handle, h) = handle[h].len + Around(h) /\ Around(h) = 0
      /\ handle[h].len \in 1..MaxSize
  BY <1>1, <1>2, ReachIs
<1>4. PICK len \in Nat : len = handle[h].len /\ Reach(handle, h) = len /\ len <= MaxSize
  BY <1>3, Sizes
<1>5. size \in Nat /\ size \in 1..MaxSize /\ size <= MaxSize BY Sizes
<1> HIDE DEF size
<1>6. len + size <= 2 * MaxSize /\ size + (len - len) <= len + size /\ size + (len - len) <= MaxSize
  BY <1>4, <1>5, Sizes
<1> QED BY <1>1, <1>2, <1>4, <1>5, <1>6, ResizeStep

(* A child begins, and ends.                                               *)
LEMMA BeginChildStep ==
  ASSUME HandleInv, NEW p \in Handles, NEW h \in Handles, BeginChild(p, h) PROVE HandleInv'
<1> DEFINE begin == IF Has(p, {"INLINE"}) THEN BeginSize - handle[p].len ELSE 0
           size == IF begin > ChildCells THEN begin ELSE ChildCells
           grown == Moved(p, size)
           mem2 == grown.heap
           ub2 == grown.userBuf
           hd2 == grown.handle
<1>0. /\ Kept(handle, heap, userBuf, Away, hollow) /\ MaxSize \in Nat /\ Empty = 2 /\ ChildCells = 4
      /\ InlineCap \in Nat /\ BeginSize \in Nat /\ InlineCap < BeginSize /\ 2 * BeginSize <= MaxSize
      /\ MaxLen \in Nat /\ MaxLen <= MaxSize
  <2>1. MaxLen \in Nat /\ MaxLen <= MaxSize /\ MaxSize \in Nat
    BY Sizes, HandleAssumption DEF HandleAssumption
  <2> QED BY <2>1, Sizes DEF HandleInv, ChildCells
<1>1. /\ Live(p) /\ ~Live(h) /\ Room(1) /\ ~Has(p, {"CHILD", "IN_CHILD", "RDONLY"})
      /\ handle[p].len + ChildCells <= MaxLen /\ heap' = mem2 /\ userBuf' = ub2
      /\ handle' = [hd2 EXCEPT
             ![p].flags = @ \union {"IN_CHILD"}, ![p].len = @ + ChildCells,
             ![h] = [New({"CHILD", "NO_FREE", "STATIC"}, NULL, NULL, Empty) EXCEPT !.parent = p]]
      /\ hollow' = hollow \ {p} /\ UNCHANGED <<taken, leaked>>
  BY DEF BeginChild
<1>a. Away' = Away /\ OneGift' BY <1>1, HandsOn
<1>2. ~Has(p, {"IN_CHILD", "RDONLY"}) /\ ~Has(p, {"CHILD"}) BY <1>1 DEF Has
<1>3. grown = [heap |-> mem2, userBuf |-> ub2, handle |-> hd2] BY MovedIs
<1>4. PICK len \in Nat : len = handle[p].len /\ Reach(handle, p) = len /\ len <= MaxSize
  <2>1. /\ Reach(handle, p) = handle[p].len + Around(p) /\ Around(p) = 0
        /\ handle[p].len \in 1..MaxSize
    BY <1>1, <1>2, ReachIs
  <2> QED BY <1>0, <2>1
<1>5. Has(p, {"INLINE"}) => len <= InlineCap
  <2>1. FlagsSay(handle[p]) BY <1>0 DEF Kept
  <2> QED BY <1>1, <1>4, <2>1 DEF FlagsSay, Has, Live
<1>6. size \in Nat /\ len + size <= 2 * MaxSize /\ len + ChildCells <= len + size
      /\ (Has(p, {"INLINE"}) => len + size > InlineCap) /\ len + ChildCells <= MaxSize
  <2>1. len + ChildCells <= MaxSize
    <3>1. len + ChildCells <= MaxLen BY <1>1, <1>4
    <3> QED BY <1>0, <1>4, <3>1
  <2>2. CASE Has(p, {"INLINE"})
    <3>1. begin = BeginSize - len BY <1>4, <2>2
    <3> HIDE DEF begin
    <3> QED BY <1>0, <1>4, <1>5, <2>1, <2>2, <3>1
  <2>3. CASE ~Has(p, {"INLINE"})
    <3>1. begin = 0 BY <2>3
    <3> HIDE DEF begin
    <3> QED BY <1>0, <1>4, <2>1, <2>3, <3>1
  <2> QED BY <2>2, <2>3
<1>7. ChildOf(p, Empty) = [New({"CHILD", "NO_FREE", "STATIC"}, NULL, NULL, Empty) EXCEPT !.parent = p]
  BY DEF ChildOf, New
<1> HIDE DEF size, grown, mem2, ub2, hd2
<1>8. /\ Kept(hd2, mem2, ub2, Away, hollow \ {p})
      /\ \A x \in Handles : /\ hd2[x].flags \ {"INLINE"} = handle[x].flags \ {"INLINE"}
                            /\ hd2[x].len = handle[x].len
      /\ IF "INLINE" \in hd2[p].flags
         THEN len + size <= InlineCap /\ "INLINE" \in handle[p].flags
         ELSE mem2[Bytes(hd2, ub2, p)] >= len + size
  <2>1. Reach(handle, p) + size <= 2 * MaxSize BY <1>4, <1>6
  <2>2. /\ Kept(hd2, mem2, ub2, Away, hollow \ {p})
        /\ \A x \in Handles : /\ hd2[x].flags \ {"INLINE"} = handle[x].flags \ {"INLINE"}
                              /\ hd2[x].len = handle[x].len
        /\ IF "INLINE" \in hd2[p].flags
           THEN Reach(handle, p) + size <= InlineCap /\ "INLINE" \in handle[p].flags
           ELSE mem2[Bytes(hd2, ub2, p)] >= Reach(handle, p) + size
    <3>1. HandleInv /\ Room(1) /\ p \in Handles /\ Live(p) /\ ~Has(p, {"IN_CHILD", "RDONLY"})
      BY <1>1, <1>2
    <3>2. Moved(p, size) = [heap |-> mem2, userBuf |-> ub2, handle |-> hd2] /\ size \in Nat
      BY <1>3, <1>6 DEF grown
    <3> DEFINE hw2 == hollow \ {p}
    <3>3. hw2 = hollow \ {p} OBVIOUS
    <3> HIDE DEF hw2
    <3>4. /\ Kept(hd2, mem2, ub2, Away, hw2)
          /\ \A x \in Handles : /\ hd2[x].flags \ {"INLINE"} = handle[x].flags \ {"INLINE"}
                                /\ hd2[x].len = handle[x].len
          /\ IF "INLINE" \in hd2[p].flags
             THEN Reach(handle, p) + size <= InlineCap /\ "INLINE" \in handle[p].flags
             ELSE mem2[Bytes(hd2, ub2, p)] >= Reach(handle, p) + size
      BY <2>1, <3>1, <3>2, <3>3, Moves
    <3> QED BY <3>4 DEF hw2
  <2> QED BY <1>4, <2>2
<1>9. "INLINE" \notin hd2[p].flags
  <2> SUFFICES ASSUME "INLINE" \in hd2[p].flags PROVE FALSE OBVIOUS
  <2>1. len + size <= InlineCap /\ Has(p, {"INLINE"}) BY <1>8 DEF Has
  <2> QED BY <1>0, <1>4, <1>6, <2>1
<1>10. /\ Lives(hd2, p) /\ ~Lives(hd2, h)
       /\ hd2[p].flags \intersect {"CHILD", "IN_CHILD", "RDONLY", "INLINE"} = {}
  BY <1>1, <1>8, <1>9 DEF Live, Lives, Has
<1>11. hd2[p].len + ChildCells <= mem2[Bytes(hd2, ub2, p)] /\ hd2[p].len + ChildCells <= MaxSize
  <2> DEFINE room == mem2[Bytes(hd2, ub2, p)]
  <2>1. room \in Nat BY <1>8, <1>10, BytesHeld
  <2>2. room >= len + size /\ hd2[p].len = len BY <1>4, <1>8, <1>9
  <2> HIDE DEF room
  <2>3. len + ChildCells <= room BY <1>0, <1>4, <1>6, <2>1, <2>2
  <2> QED BY <1>6, <2>2, <2>3 DEF room
<1>12. handle' = WithChild(hd2, p, h) BY <1>1, <1>7 DEF WithChild
<1>13. Kept(handle', mem2, ub2, Away, hollow \ {p}) BY <1>8, <1>10, <1>11, <1>12, ChildBegins
<1> QED BY <1>1, <1>a, <1>13 DEF HandleInv

LEMMA EndChildStep == ASSUME HandleInv, NEW h \in Handles, EndChild(h) PROVE HandleInv'
<1> DEFINE p == handle[h].parent
<1>1. /\ Lives(handle, h) /\ IsChild(handle, h) /\ UNCHANGED <<heap, userBuf, taken, leaked, hollow>>
      /\ handle' = WithoutChild(handle, p, h)
  BY DEF EndChild, Live, Lives, Has, IsChild, WithoutChild
<1>2. Kept(handle, heap, userBuf, Away, hollow) BY DEF HandleInv
<1>3. Kept(handle', heap, userBuf, Away, hollow) BY <1>1, <1>2, ChildEnds
<1>4. Away' = Away /\ OneGift' BY <1>1, HandsOn
<1> QED BY <1>1, <1>3, <1>4 DEF HandleInv

(* A document goes whose struct is freed, and whose bytes are freed or     *)
(* another owner's by then.                                                *)
LEMMA OwnGone ==
  ASSUME NEW hd, NEW mem, NEW ub, NEW tk, Typed(hd, mem, ub, tk), NEW h \in Handles,
         NEW hd2 \in [Handles -> Records], hd2[h] = Dead,
         \A x \in Handles : x # h => hd2[x] = hd[x],
         NEW mem2 \in [Blocks -> Nat], NEW ub2 \in Places, NEW tk2 \in SUBSET Blocks
  PROVE  /\ Typed(hd2, mem2, ub2, tk2)
         /\ Own(hd2, ub2, tk2) \in [Owners -> Places] /\ Own(hd2, ub2, tk2)[Buffer] = ub2
         /\ Own(hd2, ub2, tk2)[StructOf(h)] = NULL /\ Own(hd2, ub2, tk2)[BytesOf(h)] = NULL
         /\ \A b \in Blocks : Own(hd2, ub2, tk2)[AwayFrom(b)] = IF b \in tk2 THEN b ELSE NULL
         /\ \A x \in Handles : x # h =>
              /\ Own(hd2, ub2, tk2)[StructOf(x)] = Own(hd, ub, tk)[StructOf(x)]
              /\ Own(hd2, ub2, tk2)[BytesOf(x)] = Own(hd, ub, tk)[BytesOf(x)]
<1> DEFINE own == Own(hd, ub, tk)
           own2 == Own(hd2, ub2, tk2)
<1>1. Typed(hd2, mem2, ub2, tk2) BY DEF Typed
<1>2. /\ own2 \in [Owners -> Places] /\ own2[Buffer] = ub2
      /\ \A b \in Blocks : own2[AwayFrom(b)] = IF b \in tk2 THEN b ELSE NULL
  BY <1>1, OwnIs
<1>3. \A x \in Handles : /\ own[StructOf(x)] = hd[x].struct /\ own[BytesOf(x)] = hd[x].alloc
                         /\ own2[StructOf(x)] = hd2[x].struct /\ own2[BytesOf(x)] = hd2[x].alloc
  BY <1>1, OwnIs
<1> HIDE DEF own, own2
<1>4. own2[StructOf(h)] = NULL /\ own2[BytesOf(h)] = NULL BY <1>3, DeadIs
<1> QED BY <1>1, <1>2, <1>3, <1>4 DEF own, own2

LEMMA GivesAway ==
  ASSUME HandleInv, NEW h \in Handles, Live(h), ~Has(h, {"CHILD", "IN_CHILD"}), Put(h, Dead),
         NEW mem1 \in [Blocks -> Nat], heap' = FreeBlock(mem1, handle[h].struct),
         userBuf' \in Places, userBuf' # userBuf => Foreign(handle, h),
         Away' \in SUBSET Blocks, OneGift', hollow' = hollow \ {h},
         NEW own1 \in [Owners -> Places], OneOwner(own1, mem1),
         own1[StructOf(h)] = handle[h].struct, own1[BytesOf(h)] = NULL, own1[Buffer] = userBuf',
         \A b \in Blocks : own1[AwayFrom(b)] = IF b \in Away' THEN b ELSE NULL,
         \A x \in Handles : x # h =>
           /\ own1[StructOf(x)] = Own(handle, userBuf, Away)[StructOf(x)]
           /\ own1[BytesOf(x)] = Own(handle, userBuf, Away)[BytesOf(x)],
         \A b \in Blocks : heap[b] # 0 /\ b # handle[h].alloc => mem1[b] = heap[b]
  PROVE  HandleInv'
<1> DEFINE s == handle[h].struct
           mem2 == FreeBlock(mem1, s)
           own == Own(handle, userBuf, Away)
           own2 == Own(handle', userBuf', Away')
<1>0. /\ Kept(handle, heap, userBuf, Away, hollow) /\ Typed(handle, heap, userBuf, Away)
      /\ handle \in [Handles -> Records] /\ Lives(handle, h)
      /\ handle[h].flags \intersect {"CHILD", "IN_CHILD"} = {}
  BY DEF HandleInv, Kept, Typed, Live, Lives, Has
<1>1. /\ handle' \in [Handles -> Records] /\ handle'[h] = Dead
      /\ \A x \in Handles : x # h => handle'[x] = handle[x]
  <2>1. Dead \in Records BY DeadIs
  <2> QED BY <1>0, <2>1, PutIs
<1> HIDE DEF s
<1>2. s \in Blocks \/ s = NULL
  <2>1. own1[StructOf(h)] \in Places BY OwnersDiffer
  <2> QED BY <2>1 DEF Places, s
<1>3. mem2 \in [Blocks -> Nat] /\ \A b \in Blocks : b # s => mem2[b] = mem1[b]
  BY <1>2 DEF FreeBlock
<1> HIDE DEF mem2
<1> DEFINE away2 == Away'
<1>4. away2 \in SUBSET Blocks /\ userBuf' \in Places OBVIOUS
<1> HIDE DEF away2
<1>5. /\ Typed(handle', mem2, userBuf', away2)
      /\ Own(handle', userBuf', away2) \in [Owners -> Places]
      /\ Own(handle', userBuf', away2)[Buffer] = userBuf'
      /\ Own(handle', userBuf', away2)[StructOf(h)] = NULL
      /\ Own(handle', userBuf', away2)[BytesOf(h)] = NULL
      /\ \A b \in Blocks :
           Own(handle', userBuf', away2)[AwayFrom(b)] = IF b \in away2 THEN b ELSE NULL
      /\ \A x \in Handles : x # h =>
           /\ Own(handle', userBuf', away2)[StructOf(x)] = Own(handle, userBuf, Away)[StructOf(x)]
           /\ Own(handle', userBuf', away2)[BytesOf(x)] = Own(handle, userBuf, Away)[BytesOf(x)]
  <2>1. h \in Handles OBVIOUS
  <2>2. Typed(handle, heap, userBuf, Away) BY <1>0
  <2> QED BY ONLY <1>1, <1>3, <1>4, <2>1, <2>2, OwnGone
<1>6. /\ Typed(handle', mem2, userBuf', Away') /\ own2 \in [Owners -> Places]
      /\ own2[Buffer] = userBuf' /\ own2[StructOf(h)] = NULL /\ own2[BytesOf(h)] = NULL
      /\ \A b \in Blocks : own2[AwayFrom(b)] = IF b \in Away' THEN b ELSE NULL
      /\ \A x \in Handles : x # h => own2[StructOf(x)] = own[StructOf(x)]
                                     /\ own2[BytesOf(x)] = own[BytesOf(x)]
  BY <1>5 DEF away2
<1> HIDE DEF own2
<1>7. \A o \in Owners : o # StructOf(h) => own2[o] = own1[o]
  <2> TAKE o \in Owners
  <2> HAVE o # StructOf(h)
  <2>1. CASE o = Buffer BY <1>6, <2>1
  <2>2. CASE \E b \in Blocks : o = AwayFrom(b) BY <1>6, <2>2
  <2>3. CASE o = BytesOf(h) BY <1>6, <2>3
  <2>4. CASE \E x \in Handles : x # h /\ (o = StructOf(x) \/ o = BytesOf(x)) BY <1>6, <2>4
  <2> QED BY <2>1, <2>2, <2>3, <2>4, OwnersDiffer
<1>8. OneOwner(own2, mem2)
  <2>1. StructOf(h) \in Owners /\ s = own1[StructOf(h)] BY OwnersDiffer DEF s
  <2> QED BY <1>6, <1>7, <2>1, Frees DEF mem2
<1>9. \A b \in Blocks : heap[b] # 0 /\ b # handle[h].struct /\ b # handle[h].alloc => mem2[b] = heap[b]
  BY <1>3 DEF s
<1>10. Kept(handle', mem2, userBuf', Away', hollow')
  BY <1>0, <1>1, <1>6, <1>8, <1>9, Leaves DEF own2
<1> QED BY <1>10 DEF HandleInv, mem2, s

(* A document is destroyed, and its bytes go with it; or they stay where   *)
(* nobody has them, if it was stolen from the caller's buffer.             *)
LEMMA DestroyStep == ASSUME HandleInv, NEW h \in Handles, Destroy(h) PROVE HandleInv'
<1> DEFINE s == handle[h].struct
           a == handle[h].alloc
           own == Own(handle, userBuf, Away)
<1>0. /\ Kept(handle, heap, userBuf, Away, hollow) /\ Typed(handle, heap, userBuf, Away)
      /\ heap \in [Blocks -> Nat] /\ userBuf \in Places /\ NULL \in Places /\ NULL \notin Blocks
      /\ handle \in [Handles -> Records] /\ OneOwner(own, heap) /\ OneGift
      /\ taken \subseteq Away /\ Away \subseteq Blocks
  BY HandleAssumption DEF HandleAssumption, HandleInv, Kept, Typed, Places, Away
<1>1. /\ Live(h) /\ Lives(handle, h) /\ ~Has(h, {"CHILD", "IN_CHILD"})
      /\ heap' = Destroyed(heap, h, Buf(h)) /\ Put(h, Dead) /\ hollow' = hollow \ {h}
      /\ leaked' = (IF FreesData(h) THEN leaked ELSE leaked \union ({a} \ {NULL}))
      /\ userBuf' = userBuf /\ taken' = taken
  BY DEF Destroy, Live, Lives
<1>2. FlagsSay(handle[h]) BY <1>0 DEF Kept
<1>3. \A mem : heap' = FreeBlock(mem, IF Has(h, {"STATIC"}) THEN NULL ELSE s)
                 => heap' = FreeBlock(mem, s)
  <2>1. Has(h, {"STATIC"}) => s = NULL BY <1>1, <1>2 DEF FlagsSay, Live, Has
  <2> HIDE DEF s
  <2> QED BY <2>1
<1>4. heap' = FreeBlock(IF FreesData(h) THEN FreeBlock(heap, Buf(h)) ELSE heap, s)
  <2>1. heap' = FreeBlock(IF FreesData(h) THEN FreeBlock(heap, Buf(h)) ELSE heap,
                          IF Has(h, {"STATIC"}) THEN NULL ELSE s)
    BY <1>1 DEF Destroyed
  <2> QED BY <1>3, <2>1
<1>5. /\ own \in [Owners -> Places] /\ own[StructOf(h)] = s /\ own[BytesOf(h)] = a
      /\ own[Buffer] = userBuf
      /\ \A b \in Blocks : own[AwayFrom(b)] = IF b \in Away THEN b ELSE NULL
  BY <1>0, OwnIs
<1>6. a \in Blocks \/ a = NULL
  <2>1. own[BytesOf(h)] \in Places BY <1>5, OwnersDiffer
  <2> HIDE DEF own
  <2> QED BY <1>5, <2>1 DEF Places
<1>7. CASE FreesData(h) \/ a = NULL
  <2> DEFINE one == FreeBlock(heap, a)
             own1 == [own EXCEPT ![BytesOf(h)] = NULL]
  <2>1. heap' = FreeBlock(one, s)
    <3>1. CASE FreesData(h)
      <4>1. Buf(h) = a BY <1>1, <3>1 DEF FreesData, Buf, OwnBuf, OverCaller, Has
      <4> QED BY <1>4, <3>1, <4>1
    <3>2. CASE ~FreesData(h) BY <1>4, <1>7, <3>2 DEF FreeBlock
    <3> QED BY <3>1, <3>2
  <2>2. UNCHANGED <<taken, leaked>> BY <1>1, <1>7
  <2>3. Away' = Away /\ OneGift' BY <2>2, HandsOn
  <2> HIDE DEF own, s, a
  <2>4. own1 \in [Owners -> Places] /\ own1[BytesOf(h)] = NULL
        /\ \A o \in Owners : o # BytesOf(h) => own1[o] = own[o]
    BY <1>0, <1>5, OwnersDiffer
  <2> HIDE DEF own1, one
  <2>5. /\ one \in [Blocks -> Nat] /\ OneOwner(own1, one)
        /\ \A b \in Blocks : b # a => one[b] = heap[b]
    <3>1. BytesOf(h) \in Owners BY OwnersDiffer
    <3> QED BY <1>0, <1>5, <2>4, <3>1, Frees DEF one
  <2>6. /\ own1[StructOf(h)] = s /\ own1[Buffer] = userBuf'
        /\ \A b \in Blocks : own1[AwayFrom(b)] = IF b \in Away' THEN b ELSE NULL
        /\ \A x \in Handles : x # h => own1[StructOf(x)] = own[StructOf(x)]
                                       /\ own1[BytesOf(x)] = own[BytesOf(x)]
    BY <1>1, <1>5, <2>3, <2>4, OwnersDiffer
  <2>7. userBuf' \in Places /\ userBuf' = userBuf /\ Away' \in SUBSET Blocks BY <1>0, <1>1, <2>3
  <2> QED BY <1>1, <2>1, <2>3, <2>4, <2>5, <2>6, <2>7, GivesAway DEF s, a, own
<1>8. CASE ~FreesData(h) /\ a # NULL
  <2> DEFINE own1 == [own EXCEPT ![BytesOf(h)] = NULL, ![AwayFrom(a)] = a]
  <2>1. heap' = FreeBlock(heap, s) /\ a \in Blocks BY <1>4, <1>6, <1>8
  <2>2. own[BytesOf(h)] = a /\ BytesOf(h) \in Owners /\ AwayFrom(a) \in Owners
        /\ AwayFrom(a) # BytesOf(h)
    BY <1>5, <2>1, OwnersDiffer
  <2>3. a \notin Away
    <3> HIDE DEF own, a
    <3> QED BY <1>0, <1>5, <1>8, <2>1, <2>2 DEF OneOwner
  <2>4. own[AwayFrom(a)] = NULL BY <1>5, <2>1, <2>3
  <2>5. Away' = Away \union {a} /\ OneGift'
    <3>1. leaked' = leaked \union {a} /\ taken' = taken BY <1>1, <1>8
    <3> HIDE DEF a
    <3> QED BY <1>0, <2>3, <3>1 DEF Away, OneGift
  <2> HIDE DEF own, s, a
  <2>6. /\ own1 \in [Owners -> Places] /\ own1[BytesOf(h)] = NULL /\ own1[AwayFrom(a)] = a
        /\ \A o \in Owners \ {BytesOf(h), AwayFrom(a)} : own1[o] = own[o]
    BY <1>0, <1>5, <2>1, <2>2 DEF Places
  <2> HIDE DEF own1
  <2>7. OneOwner(own1, heap) BY <1>0, <1>5, <2>2, <2>4, <2>6, OwnerGives
  <2>8. /\ own1[StructOf(h)] = s /\ own1[Buffer] = userBuf'
        /\ \A x \in Handles : x # h => own1[StructOf(x)] = own[StructOf(x)]
                                       /\ own1[BytesOf(x)] = own[BytesOf(x)]
    BY <1>1, <1>5, <2>6, OwnersDiffer
  <2>9. \A b \in Blocks : own1[AwayFrom(b)] = IF b \in Away' THEN b ELSE NULL
    <3> TAKE b \in Blocks
    <3>1. CASE b = a BY <2>5, <2>6, <3>1
    <3>2. CASE b # a
      <4>1. AwayFrom(b) \in Owners \ {BytesOf(h), AwayFrom(a)} BY <3>2, OwnersDiffer
      <4> QED BY <1>5, <2>5, <2>6, <3>2, <4>1
    <3> QED BY <3>1, <3>2
  <2>10. userBuf' \in Places /\ userBuf' = userBuf /\ Away' \in SUBSET Blocks
    BY <1>0, <1>1, <2>1, <2>5
  <2>11. \A b \in Blocks : heap[b] # 0 /\ b # handle[h].alloc => heap[b] = heap[b] OBVIOUS
  <2> QED BY <1>0, <1>1, <2>1, <2>5, <2>6, <2>7, <2>8, <2>9, <2>10, <2>11, GivesAway DEF s, own
<1> QED BY <1>7, <1>8

(* The caller allocates a buffer, and frees what is its own.               *)
LEMMA UserAllocatesStep ==
  ASSUME HandleInv, NEW size \in Nat \ {0}, UserAllocates(size) PROVE HandleInv'
<1> DEFINE u == Unused(heap)
           mem2 == Malloc(heap, size)
           own == Own(handle, userBuf, Away)
           own2 == Own(handle, u, Away)
<1>0. /\ Kept(handle, heap, userBuf, Away, hollow) /\ Typed(handle, heap, userBuf, Away)
      /\ heap \in [Blocks -> Nat] /\ NULL \notin Blocks /\ OneOwner(own, heap)
  BY HandleAssumption DEF HandleInv, Kept, Typed, HandleAssumption
<1>1. /\ userBuf = NULL /\ Room(1) /\ heap' = mem2 /\ userBuf' = u
      /\ UNCHANGED <<handle, hollow>> /\ Away' = Away /\ OneGift'
  BY HandsOn DEF UserAllocates
<1>2. FreeIn(heap) # {} BY <1>0, <1>1, RoomLeft
<1>3. u \in Blocks BY <1>0, <1>2, UnusedIsFree
<1>4. mem2 \in [Blocks -> Nat] BY <1>0, <1>3 DEF Malloc
<1> HIDE DEF u, mem2
<1>5. Typed(handle, mem2, u, Away) BY <1>0, <1>3, <1>4 DEF Typed, Places
<1>6. own \in [Owners -> Places] /\ own2 \in [Owners -> Places] /\ own[Buffer] = NULL
      /\ own2[Buffer] = u /\ \A b \in Blocks : own2[AwayFrom(b)] = own[AwayFrom(b)]
  BY <1>0, <1>1, <1>5, OwnIs, AwayStays
<1>7. \A x \in Handles : own[StructOf(x)] = own2[StructOf(x)] /\ own[BytesOf(x)] = own2[BytesOf(x)]
  BY <1>0, <1>5, OwnIs
<1> HIDE DEF own, own2
<1>8. Buffer \in Owners /\ \A o \in Owners : o # Buffer => own2[o] = own[o]
  BY <1>6, <1>7, OwnersDiffer
<1>9. /\ heap[u] = 0 /\ OneOwner(own2, mem2) /\ \A b \in Blocks : b # u => mem2[b] = heap[b]
  BY <1>0, <1>2, <1>6, <1>8, Allocates DEF u, mem2
<1>10. \A x \in Handles : ~Foreign(handle, x) BY <1>0, <1>1 DEF Kept, OneForeign
<1>11. \A x \in Handles \ hollow :
         Lives(handle, x) /\ handle[x].flags \intersect {"INLINE", "RDONLY"} = {} =>
           mem2[Bytes(handle, userBuf, x)] = heap[Bytes(handle, userBuf, x)]
  <2> TAKE x \in Handles \ hollow
  <2> HAVE Lives(handle, x) /\ handle[x].flags \intersect {"INLINE", "RDONLY"} = {}
  <2>1. Bytes(handle, userBuf, x) \in Blocks /\ heap[Bytes(handle, userBuf, x)] # 0
    BY <1>0, BytesHeld
  <2> QED BY <1>9, <2>1
<1>12. Kept(handle, mem2, u, Away, hollow)
  BY <1>0, <1>5, <1>9, <1>10, <1>11, BlocksChange DEF own2
<1> QED BY <1>1, <1>12 DEF HandleInv

LEMMA UserFreesStep == ASSUME HandleInv, UserFrees PROVE HandleInv'
<1> DEFINE own == Own(handle, userBuf, Away)
<1>0. /\ Kept(handle, heap, userBuf, Away, hollow) /\ Typed(handle, heap, userBuf, Away)
      /\ heap \in [Blocks -> Nat] /\ userBuf \in Places /\ NULL \in Places /\ NULL \notin Blocks
      /\ handle \in [Handles -> Records] /\ OneOwner(own, heap) /\ OneGift /\ Away \subseteq Blocks
      /\ UNCHANGED <<handle, leaked, hollow>>
  BY HandleAssumption DEF HandleInv, Kept, Typed, Places, HandleAssumption, UserFrees
<1>1. CASE \E b \in taken : heap' = FreeBlock(heap, b) /\ taken' = {} /\ userBuf' = userBuf
  <2>1. PICK b \in taken : heap' = FreeBlock(heap, b) /\ taken' = {} /\ userBuf' = userBuf
    BY <1>1
  <2>2. /\ b \in Blocks /\ b \in Away /\ b \notin leaked /\ Away = leaked \union {b}
        /\ Away' = leaked /\ OneGift' /\ leaked \subseteq Blocks
    BY <1>0, <2>1 DEF OneGift, Away
  <2> DEFINE mem2 == FreeBlock(heap, b)
             own2 == Own(handle, userBuf, leaked)
  <2>3. mem2 \in [Blocks -> Nat] /\ \A c \in Blocks : c # b => mem2[c] = heap[c]
    BY <1>0, <2>2 DEF FreeBlock
  <2>4. Typed(handle, mem2, userBuf, leaked) BY <1>0, <2>2, <2>3 DEF Typed
  <2>5. /\ own \in [Owners -> Places] /\ own[Buffer] = userBuf
        /\ \A c \in Blocks : own[AwayFrom(c)] = IF c \in Away THEN c ELSE NULL
    BY <1>0, OwnIs
  <2>6. /\ own2 \in [Owners -> Places] /\ own2[Buffer] = userBuf
        /\ \A c \in Blocks : own2[AwayFrom(c)] = IF c \in leaked THEN c ELSE NULL
    BY <2>4, OwnIs
  <2>7. \A x \in Handles : own[StructOf(x)] = own2[StructOf(x)] /\ own[BytesOf(x)] = own2[BytesOf(x)]
    BY <1>0, <2>4, OwnIs
  <2> HIDE DEF own, own2, mem2
  <2>8. /\ AwayFrom(b) \in Owners /\ own[AwayFrom(b)] = b /\ own2[AwayFrom(b)] = NULL
        /\ \A c \in Blocks : c # b => own2[AwayFrom(c)] = own[AwayFrom(c)]
    BY <2>2, <2>5, <2>6, OwnersDiffer
  <2>9. \A o \in Owners : o # AwayFrom(b) => own2[o] = own[o]
    BY <2>5, <2>6, <2>7, <2>8, OwnersDiffer
  <2>10. OneOwner(own2, mem2) BY <1>0, <2>5, <2>6, <2>8, <2>9, Frees DEF mem2
  <2>11. \A x \in Handles \ hollow :
           Lives(handle, x) /\ handle[x].flags \intersect {"INLINE", "RDONLY"} = {} =>
             mem2[Bytes(handle, userBuf, x)] = heap[Bytes(handle, userBuf, x)]
    <3> TAKE x \in Handles \ hollow
    <3> HAVE Lives(handle, x) /\ handle[x].flags \intersect {"INLINE", "RDONLY"} = {}
    <3>1. Bytes(handle, userBuf, x) \in Blocks /\ Bytes(handle, userBuf, x) \notin Away
      BY <1>0, BytesHeld
    <3> QED BY <2>2, <2>3, <3>1
  <2>12. Kept(handle, mem2, userBuf, leaked, hollow)
    BY <1>0, <2>4, <2>10, <2>11, BlocksChange DEF own2
  <2>13. heap' = mem2 /\ Away' = leaked /\ handle' = handle /\ userBuf' = userBuf /\ hollow' = hollow
    BY <1>0, <2>1, <2>2 DEF mem2
  <2> QED BY <2>2, <2>12, <2>13 DEF HandleInv
<1>2. CASE /\ userBuf # NULL /\ \A h \in Handles : ~OverCaller(h)
           /\ heap' = FreeBlock(heap, userBuf) /\ userBuf' = NULL /\ taken' = taken
  <2> DEFINE mem2 == FreeBlock(heap, userBuf)
             own2 == Own(handle, NULL, Away)
  <2>1. userBuf \in Blocks BY <1>0, <1>2 DEF Places
  <2>2. \A x \in Handles : ~Foreign(handle, x) BY <1>2 DEF Foreign, Over, OverCaller, Has
  <2>3. mem2 \in [Blocks -> Nat] /\ \A c \in Blocks : c # userBuf => mem2[c] = heap[c]
    BY <1>0, <2>1 DEF FreeBlock
  <2>4. Typed(handle, mem2, NULL, Away) BY <1>0, <2>3 DEF Typed
  <2>5. own \in [Owners -> Places] /\ own2 \in [Owners -> Places] /\ own[Buffer] = userBuf
        /\ own2[Buffer] = NULL
    BY <1>0, <2>4, OwnIs
  <2>6. \A b \in Blocks : own2[AwayFrom(b)] = own[AwayFrom(b)] BY <1>0, <2>4, AwayStays
  <2>7. \A x \in Handles : own[StructOf(x)] = own2[StructOf(x)] /\ own[BytesOf(x)] = own2[BytesOf(x)]
    BY <1>0, <2>4, OwnIs
  <2> HIDE DEF own, own2, mem2
  <2>8. Buffer \in Owners /\ \A o \in Owners : o # Buffer => own2[o] = own[o]
    BY <2>6, <2>7, OwnersDiffer
  <2>9. OneOwner(own2, mem2) BY <1>0, <2>5, <2>8, Frees DEF mem2
  <2>10. \A x \in Handles \ hollow :
           Lives(handle, x) /\ handle[x].flags \intersect {"INLINE", "RDONLY"} = {} =>
             mem2[Bytes(handle, userBuf, x)] = heap[Bytes(handle, userBuf, x)]
    <3> TAKE x \in Handles \ hollow
    <3> HAVE Lives(handle, x) /\ handle[x].flags \intersect {"INLINE", "RDONLY"} = {}
    <3>1. Root(handle, x) \in Handles BY <1>0, RootLives
    <3>2. Bytes(handle, userBuf, x) \in Blocks /\ Bytes(handle, userBuf, x) # userBuf
      BY <1>0, <2>2, <3>1, BytesHeld
    <3> QED BY <2>3, <3>2
  <2>11. Kept(handle, mem2, NULL, Away, hollow)
    BY <1>0, <2>2, <2>4, <2>9, <2>10, BlocksChange DEF own2
  <2>12. Away' = Away /\ OneGift'
    <3>1. UNCHANGED <<taken, leaked>> BY <1>0, <1>2
    <3> QED BY <3>1, HandsOn
  <2>13. heap' = mem2 /\ handle' = handle /\ userBuf' = NULL /\ hollow' = hollow
    BY <1>0, <1>2 DEF mem2
  <2> QED BY <2>11, <2>12, <2>13 DEF HandleInv
<1> QED BY <1>1, <1>2 DEF UserFrees

(* A stack struct takes what another says, and the struct of that is freed. *)
LEMMA StealStep ==
  ASSUME HandleInv, NEW src \in Handles, NEW h \in Handles, Steal(src, h) PROVE HandleInv'
<1> DEFINE s == handle[src].struct
           a == handle[src].alloc
           one == FreeBlock(heap, s)
           two == FreeBlock(one, a)
           r == [handle[src] EXCEPT !.flags = @ \union {"STATIC"}, !.struct = NULL]
           hd1 == [handle EXCEPT ![src] = Dead]
           own == Own(handle, userBuf, Away)
           ownA == [own EXCEPT ![StructOf(src)] = NULL]
           own1 == Own(hd1, userBuf, Away)
           own2 == Own(handle', userBuf, Away)
<1>0. /\ Kept(handle, heap, userBuf, Away, hollow) /\ Typed(handle, heap, userBuf, Away)
      /\ heap \in [Blocks -> Nat] /\ userBuf \in Places /\ NULL \in Places /\ NULL \notin Blocks
      /\ handle \in [Handles -> Records] /\ OneOwner(own, heap)
      /\ Empty = 2 /\ MaxSize \in Nat /\ Empty <= MaxSize /\ Empty <= InlineCap
  BY Sizes, HandleAssumption DEF HandleAssumption, HandleInv, Kept, Typed, Places
<1>1. /\ Lives(handle, src) /\ ~Live(h) /\ ~Lives(handle, h) /\ h # src
      /\ UNCHANGED <<userBuf, taken, leaked>> /\ Away' = Away /\ OneGift' /\ h \notin hollow
  BY <1>0, DeadIs, HandsOn DEF Steal, Live, Lives
<1>2. CASE Has(src, {"CHILD", "IN_CHILD", "RDONLY"})
  <2>1. Put(h, New({"STATIC", "INLINE"}, NULL, NULL, Empty)) /\ UNCHANGED <<heap, userBuf, taken, leaked, hollow>>
    BY <1>2 DEF Steal
  <2>2. Empty \in 1..MaxSize BY <1>0
  <2> DEFINE flags == {"STATIC", "INLINE"}
  <2>3. flags = {"STATIC", "INLINE"} /\ Put(h, New(flags, NULL, NULL, Empty)) BY <2>1
  <2> HIDE DEF flags
  <2> QED BY <1>0, <1>1, <2>1, <2>2, <2>3, ArrivesBare
<1>3. CASE ~Has(src, {"CHILD", "IN_CHILD", "RDONLY"})
  <2>1. /\ handle' = [handle EXCEPT ![h] = r, ![src] = Dead] /\ heap' = one
        /\ hollow' = IF OverCaller(src) \/ Lost(src) THEN (hollow \ {src}) \union {h} ELSE hollow
    BY <1>3 DEF Steal
  <2>2. handle[src].flags \intersect {"CHILD", "IN_CHILD"} = {} /\ "RDONLY" \notin handle[src].flags
        /\ FlagsSay(handle[src])
    BY <1>0, <1>3 DEF Has, Kept
  <2>3. /\ r.flags = handle[src].flags \union {"STATIC"} /\ r.struct = NULL /\ r.alloc = a
        /\ r.len = handle[src].len /\ r.parent = handle[src].parent /\ r \in Records
    <3>1. PICK q \in Records : q = handle[src] BY <1>0
    <3>2. {"STATIC"} \subseteq Flags BY DEF Flags
    <3> QED BY <1>0, <3>1, <3>2 DEF Records
  <2>4. r \in Records BY <2>3
  <2> HIDE DEF r
  <2>5. FlagsSay(r) /\ r.flags \intersect {"DEAD", "CHILD", "IN_CHILD"} = {} /\ ~Over(r)
    BY <1>1, <2>2, <2>3 DEF FlagsSay, Lives, Over
  <2>6. Dead \in Records BY DeadIs
  <2>7. /\ hd1 \in [Handles -> Records] /\ hd1[src] = Dead
        /\ \A x \in Handles : x # src => hd1[x] = handle[x]
    BY <1>0, <2>6
  <2> HIDE DEF hd1
  <2>8. /\ handle' \in [Handles -> Records] /\ handle'[h] = r
        /\ \A x \in Handles : x # h => handle'[x] = hd1[x]
    BY <1>0, <1>1, <2>1, <2>4, <2>6, <2>7
  <2>9. own \in [Owners -> Places] /\ own[StructOf(src)] = s /\ own[BytesOf(src)] = a
        /\ own[Buffer] = userBuf
    BY <1>0, OwnIs
  <2>10. handle[h] = Dead BY <1>0, <1>1, DeadIs
  <2>11. own[BytesOf(h)] = NULL /\ own[StructOf(h)] = NULL BY <1>0, <2>10, OwnIs, DeadIs
  <2> HIDE DEF own, s, a
  <2>12. /\ ownA \in [Owners -> Places] /\ ownA[StructOf(src)] = NULL
         /\ \A o \in Owners : o # StructOf(src) => ownA[o] = own[o]
    BY <1>0, <2>9, OwnersDiffer
  <2> HIDE DEF ownA, one, two
  <2>13. one \in [Blocks -> Nat] /\ (\A b \in Blocks : b # s => one[b] = heap[b]) /\ OneOwner(ownA, one)
    <3>1. StructOf(src) \in Owners BY OwnersDiffer
    <3> QED BY <1>0, <2>9, <2>12, <3>1, Frees DEF one
  <2>14. /\ two \in [Blocks -> Nat] /\ (\A b \in Blocks : b # a => two[b] = one[b])
         /\ (a \in Blocks => two[a] = 0)
    <3>1. a \in Blocks \/ a = NULL BY <2>9, OwnersDiffer DEF Places
    <3> QED BY <1>0, <2>13, <3>1 DEF two, FreeBlock
  <2>15. /\ Typed(hd1, two, userBuf, Away) /\ own1 \in [Owners -> Places]
         /\ own1[Buffer] = userBuf /\ own1[StructOf(src)] = NULL /\ own1[BytesOf(src)] = NULL
         /\ \A x \in Handles : x # src => own1[StructOf(x)] = own[StructOf(x)]
                                          /\ own1[BytesOf(x)] = own[BytesOf(x)]
    <3>1. src \in Handles /\ two \in [Blocks -> Nat] /\ userBuf \in Places
          /\ Typed(handle, heap, userBuf, Away) /\ Away \in SUBSET Blocks
      BY <1>0, <2>14 DEF Typed
    <3>2. /\ Typed(hd1, two, userBuf, Away) /\ own1 \in [Owners -> Places]
          /\ own1[Buffer] = userBuf /\ own1[StructOf(src)] = NULL /\ own1[BytesOf(src)] = NULL
          /\ \A x \in Handles : x # src =>
               /\ own1[StructOf(x)] = Own(handle, userBuf, Away)[StructOf(x)]
               /\ own1[BytesOf(x)] = Own(handle, userBuf, Away)[BytesOf(x)]
      BY <2>7, <3>1, OwnGone
    <3> HIDE DEF own1
    <3> QED BY <3>2 DEF own
  <2>16. \A b \in Blocks : own1[AwayFrom(b)] = own[AwayFrom(b)] BY <1>0, <2>15, AwayStays DEF own
  <2>17. /\ Typed(handle', one, userBuf, Away) /\ own2 \in [Owners -> Places]
         /\ own2[Buffer] = userBuf /\ own2[StructOf(h)] = NULL /\ own2[BytesOf(h)] = a
         /\ \A o \in Owners : o # StructOf(h) /\ o # BytesOf(h) /\ o # Buffer => own2[o] = own1[o]
    <3>1. /\ Typed(handle', one, userBuf, Away)
          /\ own2 \in [Owners -> Places] /\ own2[Buffer] = userBuf
          /\ own2[StructOf(h)] = r.struct /\ own2[BytesOf(h)] = r.alloc
          /\ \A o \in Owners : o # StructOf(h) /\ o # BytesOf(h) /\ o # Buffer => own2[o] = own1[o]
      <4>1. one \in [Blocks -> Nat] /\ userBuf \in Places /\ Typed(hd1, two, userBuf, Away)
        BY <1>0, <2>13, <2>15
      <4> QED BY <2>4, <2>8, <4>1, OwnPut DEF own1
    <3> HIDE DEF own2, own1
    <3> QED BY <2>3, <3>1
  <2> HIDE DEF own1, own2
  <2>18. \A o \in Owners : o # BytesOf(src) => own1[o] = ownA[o]
    BY <2>9, <2>12, <2>15, <2>16, OwnersDiffer
  <2>19. BytesOf(src) \in Owners /\ BytesOf(h) \in Owners /\ BytesOf(src) # BytesOf(h)
         /\ ownA[BytesOf(src)] = a /\ ownA[BytesOf(h)] = NULL /\ ownA[StructOf(h)] = NULL
    BY <1>1, <2>9, <2>11, <2>12, OwnersDiffer
  <2>20. OneOwner(own1, two) BY <2>13, <2>12, <2>15, <2>18, <2>19, Frees DEF two
  <2>21. /\ own2[BytesOf(src)] = NULL /\ own2[BytesOf(h)] = ownA[BytesOf(src)]
         /\ \A o \in Owners \ {BytesOf(src), BytesOf(h)} : own2[o] = ownA[o]
    BY <2>9, <2>12, <2>15, <2>17, <2>18, <2>19, OwnersDiffer
  <2>22. OneOwner(own2, one) BY <2>12, <2>13, <2>17, <2>19, <2>21, OwnerGives
  <2>23. \A b \in Blocks : heap[b] # 0 /\ b # handle[src].struct /\ b # handle[src].alloc =>
                             two[b] = heap[b]
    BY <2>13, <2>14 DEF s, a
  <2>24. Kept(hd1, two, userBuf, Away, hollow \ {src})
    BY <1>0, <1>1, <2>2, <2>7, <2>15, <2>20, <2>23, Leaves DEF own1
  <2>25. ~Lives(hd1, h) BY <1>1, <2>7 DEF Lives
  <2>26. /\ hollow' = hollow \ {src} \/ hollow' = (hollow \ {src}) \union {h}
         /\ IF h \in hollow' THEN OverCaller(src) \/ Lost(src) ELSE ~OverCaller(src) /\ src \notin hollow
    BY <1>1, <2>1 DEF Lost
  <2>27. h \in hollow' => Hollow(r)
    <3> SUFFICES ASSUME OverCaller(src) \/ Lost(src) PROVE Hollow(r) BY <2>26
    <3>1. CASE OverCaller(src)
      <4>1. "NO_FREE" \in handle[src].flags /\ "STATIC" \notin handle[src].flags
            /\ Over(handle[src])
        BY <3>1 DEF OverCaller, Has, Over
      <4>2. "INLINE" \notin handle[src].flags /\ handle[src].alloc = NULL
        BY <1>1, <2>2, <4>1 DEF FlagsSay, Lives
      <4>3. r.alloc = NULL BY <2>3, <4>2 DEF a
      <4> QED BY <2>2, <2>3, <2>5, <4>1, <4>2, <4>3 DEF Hollow
    <3>2. CASE Lost(src)
      <4>1. Hollow(handle[src]) /\ ~OverCaller(src) BY <1>0, <3>2 DEF Lost, Kept
      <4>2. "STATIC" \in handle[src].flags BY <4>1 DEF Hollow, OverCaller, Has
      <4>3. handle[src].alloc = NULL BY <4>1, <4>2 DEF Hollow
      <4>4. r.alloc = NULL BY <2>3, <4>3 DEF a
      <4> QED BY <2>3, <4>1, <4>4 DEF Hollow
    <3> QED BY <3>1, <3>2
  <2>28. h \notin hollow' => Fits(handle', one, userBuf, h)
    <3> SUFFICES ASSUME h \notin hollow', r.flags \intersect {"INLINE", "RDONLY"} = {}
                 PROVE  /\ Bytes(handle', userBuf, h) \in Blocks
                        /\ one[Bytes(handle', userBuf, h)] >= Reach(handle', h)
                        /\ Reach(handle', h) <= MaxSize
      BY <2>8 DEF Fits
    <3>1. ~IsChild(handle', h) /\ ~Foreign(handle', h) BY <2>5, <2>8 DEF IsChild, Foreign
    <3>2. Bytes(handle', userBuf, h) = a /\ Reach(handle', h) = handle[src].len + 0
      BY <2>3, <2>8, <3>1 DEF Bytes, Root, Reach
    <3>3. ~IsChild(handle, src) /\ ~Foreign(handle, src) /\ src \notin hollow
      BY <2>2, <2>26 DEF IsChild, OverCaller, Has, Foreign, Over
    <3>4. Bytes(handle, userBuf, src) = a /\ Reach(handle, src) = handle[src].len + 0
      BY <3>3 DEF Bytes, Root, Reach, a
    <3>5. handle[src].flags \intersect {"INLINE", "RDONLY"} = {} BY <2>3
    <3>6. a \in Blocks /\ heap[a] >= handle[src].len + 0 /\ handle[src].len + 0 <= MaxSize
          /\ a # handle[src].struct
      <4>1. /\ Bytes(handle, userBuf, src) \in Blocks /\ Reach(handle, src) \in 1..MaxSize
            /\ heap[Bytes(handle, userBuf, src)] >= Reach(handle, src)
            /\ Bytes(handle, userBuf, src) # handle[src].struct
        BY <1>0, <1>1, <3>3, <3>5, BytesHeld
      <4> QED BY <1>0, <3>4, <4>1
    <3>7. one[a] = heap[a] BY <2>13, <3>6 DEF s
    <3> QED BY <3>2, <3>6, <3>7
  <2>29. \A b \in Blocks : two[b] # 0 => one[b] = two[b] BY <2>14
  <2>30. Kept(handle', one, userBuf, Away, hollow')
    <3>1. IF h \in hollow' THEN Hollow(r) ELSE Fits(handle', one, userBuf, h) BY <2>27, <2>28
    <3> DEFINE hw == hollow \ {src}
    <3>2. Kept(hd1, two, userBuf, Away, hw) /\ (hollow' = hw \/ hollow' = hw \union {h})
      BY <2>24, <2>26
    <3> HIDE DEF hw
    <3> QED BY <2>4, <2>5, <2>8, <2>17, <2>22, <2>25, <2>29, <3>1, <3>2, Arrives DEF own2
  <2> QED BY <1>1, <2>1, <2>30 DEF HandleInv
<1> QED BY <1>2, <1>3

(* The bytes of a document that is destroyed go to the caller.             *)
LEMMA DestroyWithStealStep ==
  ASSUME HandleInv, NEW h \in Handles, DestroyWithSteal(h) PROVE HandleInv'
<1> DEFINE s == handle[h].struct
           a == handle[h].alloc
           own == Own(handle, userBuf, Away)
<1>0. /\ Kept(handle, heap, userBuf, Away, hollow) /\ Typed(handle, heap, userBuf, Away)
      /\ heap \in [Blocks -> Nat] /\ userBuf \in Places /\ NULL \in Places /\ NULL \notin Blocks
      /\ handle \in [Handles -> Records] /\ OneOwner(own, heap)
      /\ MaxSize \in Nat /\ Away \subseteq Blocks
  BY Sizes, HandleAssumption DEF HandleAssumption, HandleInv, Kept, Typed, Places
<1>1. /\ Live(h) /\ Lives(handle, h) /\ ~Has(h, {"CHILD", "IN_CHILD"}) /\ Room(1) /\ taken = {}
      /\ "CHILD" \notin handle[h].flags /\ Away = leaked /\ hollow' = hollow \ {h}
      /\ userBuf' = (IF OverCaller(h) THEN NULL ELSE userBuf) /\ leaked' = leaked
      /\ Put(h, Dead)
  BY DEF DestroyWithSteal, Live, Lives, Has, Away
<1>2. FlagsSay(handle[h]) BY <1>0 DEF Kept
<1>3. \A mem : Destroyed(mem, h, NULL) = FreeBlock(mem, s)
  <2>1. Has(h, {"STATIC"}) => s = NULL BY <1>1, <1>2 DEF FlagsSay, Live, Has
  <2>2. (IF Has(h, {"STATIC"}) THEN NULL ELSE s) = s BY <2>1
  <2>3. \A mem : (IF FreesData(h) THEN FreeBlock(mem, NULL) ELSE mem) = mem BY DEF FreeBlock
  <2> HIDE DEF s
  <2> QED BY <2>2, <2>3 DEF Destroyed, s
<1>4. /\ own \in [Owners -> Places] /\ own[StructOf(h)] = s /\ own[BytesOf(h)] = a
      /\ own[Buffer] = userBuf
      /\ \A b \in Blocks : own[AwayFrom(b)] = IF b \in Away THEN b ELSE NULL
  BY <1>0, <1>1, OwnIs
<1>5. OverCaller(h) <=> Foreign(handle, h) BY DEF OverCaller, Has, Foreign, Over
<1>a. taken' = {} => Away' = Away /\ OneGift' BY <1>1 DEF Away, OneGift
<1>b. \A b \in Blocks : taken' = {b} /\ b \notin Away => Away' = Away \union {b} /\ OneGift'
  BY <1>1 DEF Away, OneGift
<1>c. userBuf' \in Places /\ (userBuf' # userBuf => Foreign(handle, h)) BY <1>0, <1>1, <1>5
<1>6. CASE Has(h, {"RDONLY"})
  <2>1. heap' = FreeBlock(heap, s) /\ taken' = {} BY <1>1, <1>3, <1>6 DEF DestroyWithSteal
  <2>2. ~OverCaller(h) /\ a = NULL BY <1>1, <1>2, <1>6 DEF FlagsSay, OverCaller, Has, Lives
  <2>3. userBuf' = userBuf /\ Away' = Away /\ OneGift' /\ Away' \in SUBSET Blocks
    BY <1>0, <1>1, <1>a, <2>1, <2>2
  <2> HIDE DEF a, s, own
  <2>4. \A b \in Blocks : heap[b] # 0 /\ b # handle[h].alloc => heap[b] = heap[b] OBVIOUS
  <2>5. /\ own[StructOf(h)] = s /\ own[BytesOf(h)] = NULL /\ own[Buffer] = userBuf'
        /\ \A b \in Blocks : own[AwayFrom(b)] = IF b \in Away' THEN b ELSE NULL
    BY <1>4, <2>2, <2>3
  <2> QED BY <1>0, <1>1, <1>4, <1>c, <2>1, <2>3, <2>4, <2>5, GivesAway DEF s, own
<1>7. CASE ~Has(h, {"RDONLY"}) /\ Has(h, {"INLINE"})
  <2> DEFINE u == Unused(heap)
             one == Malloc(heap, handle[h].len)
             own1 == [own EXCEPT ![AwayFrom(u)] = u]
  <2>1. heap' = FreeBlock(one, s) /\ taken' = {u}
    BY <1>1, <1>3, <1>7 DEF DestroyWithSteal
  <2>2. ~OverCaller(h) /\ a = NULL BY <1>1, <1>2, <1>7 DEF FlagsSay, OverCaller, Has, Lives
  <2>3. userBuf' = userBuf BY <1>1, <2>2
  <2>4. FreeIn(heap) # {} BY <1>0, <1>1, RoomLeft
  <2>5. handle[h].len \in Nat \ {0}
    <3>1. handle[h].len \in 1..MaxSize BY <1>0, <1>1, RootLives
    <3> QED BY <1>0, <3>1
  <2>6. u \in Blocks /\ heap[u] = 0 BY <1>0, <2>4, UnusedIsFree
  <2> HIDE DEF own, u
  <2>7. AwayFrom(u) \in Owners /\ u \notin Away
    <3>1. AwayFrom(u) \in Owners BY <2>6, OwnersDiffer
    <3> QED BY <1>0, <1>4, <2>6, <3>1 DEF OneOwner
  <2>8. own[AwayFrom(u)] = NULL BY <1>4, <2>6, <2>7
  <2>9. /\ own1 \in [Owners -> Places] /\ own1[AwayFrom(u)] = u
        /\ \A o \in Owners : o # AwayFrom(u) => own1[o] = own[o]
    BY <1>4, <2>6, <2>7 DEF Places
  <2> HIDE DEF own1, one
  <2>10. /\ one \in [Blocks -> Nat] /\ OneOwner(own1, one)
         /\ \A b \in Blocks : b # u => one[b] = heap[b]
    BY <1>0, <1>4, <2>4, <2>5, <2>7, <2>8, <2>9, Allocates DEF u, one
  <2>11. Away' = Away \union {u} /\ OneGift' BY <1>b, <2>1, <2>6, <2>7
  <2>12. Away' \in SUBSET Blocks BY <1>0, <2>6, <2>11
  <2>13. own1[StructOf(h)] = s /\ own1[BytesOf(h)] = NULL /\ own1[Buffer] = userBuf'
    BY <1>4, <2>2, <2>3, <2>9, OwnersDiffer
  <2>14. \A b \in Blocks : own1[AwayFrom(b)] = IF b \in Away' THEN b ELSE NULL
    <3> TAKE b \in Blocks
    <3>1. CASE b = u BY <2>9, <2>11, <3>1
    <3>2. CASE b # u
      <4>1. AwayFrom(b) \in Owners /\ AwayFrom(b) # AwayFrom(u) BY <3>2, OwnersDiffer
      <4> QED BY <1>4, <2>9, <2>11, <3>2, <4>1
    <3> QED BY <3>1, <3>2
  <2>15. \A x \in Handles : x # h => own1[StructOf(x)] = own[StructOf(x)]
                                     /\ own1[BytesOf(x)] = own[BytesOf(x)]
    BY <2>9, OwnersDiffer
  <2> HIDE DEF a, s
  <2>16. \A b \in Blocks : heap[b] # 0 /\ b # handle[h].alloc => one[b] = heap[b]
    BY <2>6, <2>10
  <2> QED BY <1>0, <1>1, <1>c, <2>1, <2>9, <2>10, <2>11, <2>12, <2>13, <2>14, <2>15, <2>16,
             GivesAway DEF s, own
<1>8. CASE ~Has(h, {"RDONLY"}) /\ ~Has(h, {"INLINE"})
  <2> DEFINE b == Buf(h)
             o == IF OverCaller(h) THEN Buffer ELSE BytesOf(h)
  <2>1. heap' = FreeBlock(heap, s) /\ taken' = {b} \ {NULL}
    BY <1>1, <1>3, <1>8 DEF DestroyWithSteal
  <2>2. b = IF OverCaller(h) THEN userBuf ELSE a BY <1>1 DEF Buf, OwnBuf, Has
  <2>3. OverCaller(h) => a = NULL /\ userBuf \in Blocks
    BY <1>0, <1>1, <1>2, <1>5 DEF FlagsSay, OverCaller, Over, Has, Lives, Kept, OneForeign
  <2> HIDE DEF b, own
  <2>4. o \in Owners /\ own[o] = b /\ \A c : o # AwayFrom(c)
    BY <1>4, <2>2, OwnersDiffer
  <2>5. b \in Blocks \/ b = NULL BY <1>4, <2>4 DEF Places
  <2>6. \A c \in Blocks : heap[c] # 0 /\ c # handle[h].alloc => heap[c] = heap[c] OBVIOUS
  <2>7. CASE b = NULL
    <3>1. ~OverCaller(h) /\ a = NULL BY <1>0, <2>2, <2>3, <2>7
    <3>2. taken' = {} /\ userBuf' = userBuf BY <1>1, <2>1, <2>7, <3>1
    <3>3. Away' = Away /\ OneGift' /\ Away' \in SUBSET Blocks BY <1>0, <1>a, <3>2
    <3> HIDE DEF a, s
    <3>4. /\ own[StructOf(h)] = s /\ own[BytesOf(h)] = NULL /\ own[Buffer] = userBuf'
          /\ \A c \in Blocks : own[AwayFrom(c)] = IF c \in Away' THEN c ELSE NULL
      BY <1>4, <3>1, <3>2, <3>3
    <3> QED BY <1>0, <1>1, <1>4, <1>c, <2>1, <2>6, <3>3, <3>4, GivesAway DEF s, own
  <2>8. CASE b \in Blocks
    <3> DEFINE own1 == [own EXCEPT ![o] = NULL, ![AwayFrom(b)] = b]
    <3>1. taken' = {b} BY <1>0, <2>1, <2>8
    <3>2. AwayFrom(b) \in Owners /\ AwayFrom(b) # o BY <2>4, <2>8, OwnersDiffer
    <3> HIDE DEF o
    <3>3. b \notin Away BY <1>0, <1>4, <2>4, <2>8, <3>2 DEF OneOwner
    <3>4. own[AwayFrom(b)] = NULL BY <1>4, <2>8, <3>3
    <3>5. Away' = Away \union {b} /\ OneGift' BY <1>b, <2>8, <3>1, <3>3
    <3>6. Away' \in SUBSET Blocks BY <1>0, <2>8, <3>5
    <3>7. /\ own1 \in [Owners -> Places] /\ own1[o] = NULL /\ own1[AwayFrom(b)] = b
          /\ \A p \in Owners \ {o, AwayFrom(b)} : own1[p] = own[p]
      BY <1>0, <1>4, <2>4, <2>8, <3>2 DEF Places
    <3> HIDE DEF own1
    <3>8. OneOwner(own1, heap) BY <1>0, <1>4, <2>4, <3>2, <3>4, <3>7, OwnerGives
    <3>9. own1[StructOf(h)] = s /\ own1[BytesOf(h)] = NULL /\ own1[Buffer] = userBuf'
      <4>1. CASE OverCaller(h)
        <5>1. o = Buffer /\ userBuf' = NULL /\ a = NULL BY <1>1, <2>3, <4>1 DEF o
        <5>2. own1[Buffer] = userBuf' BY <3>7, <5>1
        <5> HIDE DEF s, a
        <5>3. StructOf(h) \in Owners \ {o, AwayFrom(b)} /\ BytesOf(h) \in Owners \ {o, AwayFrom(b)}
          BY <2>8, <5>1, OwnersDiffer
        <5>4. own1[StructOf(h)] = own[StructOf(h)] /\ own1[BytesOf(h)] = own[BytesOf(h)]
          BY <3>7, <5>3
        <5> QED BY <1>4, <5>1, <5>2, <5>4
      <4>2. CASE ~OverCaller(h)
        <5>1. o = BytesOf(h) /\ userBuf' = userBuf BY <1>1, <4>2 DEF o
        <5> HIDE DEF s, a
        <5> QED BY <1>4, <3>7, <5>1, OwnersDiffer
      <4> QED BY <4>1, <4>2
    <3>10. \A c \in Blocks : own1[AwayFrom(c)] = IF c \in Away' THEN c ELSE NULL
      <4> TAKE c \in Blocks
      <4>1. CASE c = b BY <3>5, <3>7, <4>1
      <4>2. CASE c # b
        <5>1. AwayFrom(c) \in Owners \ {o, AwayFrom(b)} BY <2>4, <4>2, OwnersDiffer
        <5> QED BY <1>4, <3>5, <3>7, <4>2, <5>1
      <4> QED BY <4>1, <4>2
    <3>11. \A x \in Handles : x # h => own1[StructOf(x)] = own[StructOf(x)]
                                       /\ own1[BytesOf(x)] = own[BytesOf(x)]
      BY <3>7, OwnersDiffer DEF o
    <3> HIDE DEF a, s
    <3> QED BY <1>0, <1>1, <1>c, <2>1, <2>6, <3>5, <3>6, <3>7, <3>8, <3>9, <3>10, <3>11,
               GivesAway DEF s, own
  <2> QED BY <2>5, <2>7, <2>8
<1> QED BY <1>6, <1>7, <1>8

LEMMA HandleStep == ASSUME HandleInv, HandleNext PROVE HandleInv'
<1>0. /\ Kept(handle, heap, userBuf, Away, hollow) /\ Empty = 2 /\ MaxSize \in Nat /\ InlineCap \in Nat
      /\ Empty <= InlineCap /\ Empty <= MaxSize /\ InlineCap + 1 <= MaxSize /\ Empty \in Nat
  BY Sizes DEF HandleInv
<1>1. ASSUME NEW h \in Handles, Setup(h) PROVE HandleInv'
  <2> DEFINE flags == {"STATIC", "INLINE"}
  <2>1. /\ ~Live(h) /\ Put(h, New(flags, NULL, NULL, Empty)) /\ UNCHANGED <<heap, userBuf, taken, leaked, hollow>>
        /\ flags = {"STATIC", "INLINE"} /\ Empty \in 1..MaxSize
    BY <1>0, <1>1 DEF Setup
  <2> HIDE DEF flags
  <2> QED BY <1>0, <2>1, ArrivesBare
<1>2. ASSUME NEW h \in Handles, SetupStatic(h, Empty) PROVE HandleInv'
  <2> DEFINE flags == {"STATIC", "RDONLY"}
  <2>1. /\ ~Live(h) /\ Put(h, New(flags, NULL, NULL, Empty)) /\ UNCHANGED <<heap, userBuf, taken, leaked, hollow>>
        /\ flags = {"STATIC", "RDONLY"} /\ Empty \in 1..MaxSize
    BY <1>0, <1>2 DEF SetupStatic
  <2> HIDE DEF flags
  <2> QED BY <2>1, ArrivesBare
<1>3. ASSUME NEW h \in Handles, NEW n \in {Empty, InlineCap + 1}, SizedNew(h, n, Empty)
      PROVE HandleInv'
  <2>1. n \in Nat /\ Empty \in 1..MaxSize /\ Empty <= n BY <1>0
  <2> QED BY <1>3, <2>1, SizedNewStep
<1>4. ASSUME NEW h \in Handles, NEW n \in {Empty, InlineCap + 1}, NewFromData(h, n)
      PROVE HandleInv'
  <2>1. n \in Nat /\ n \in 1..MaxSize /\ n <= n BY <1>0
  <2>2. SizedNew(h, n, n) BY <1>4 DEF NewFromData
  <2> QED BY <2>1, <2>2, SizedNewStep
<1>5. ASSUME NEW h \in Handles, NEW src \in Handles, Copy(src, h) PROVE HandleInv'
  <2> DEFINE n == handle[src].len
  <2>1. Lives(handle, src) /\ SizedNew(h, n, n) BY <1>5 DEF Copy, Live, Lives
  <2>2. n \in 1..MaxSize BY <1>0, <2>1, RootLives
  <2> HIDE DEF n
  <2>3. n \in Nat /\ n <= n BY <1>0, <2>2
  <2> QED BY <2>1, <2>2, <2>3, SizedNewStep
<1>6. ASSUME UserFrees PROVE HandleInv' BY <1>6, UserFreesStep
<1>7. ASSUME NEW h \in Handles, NEW n \in {1, Empty, InlineCap + 1}, NewFromBuffer(h, n)
      PROVE HandleInv'
  <2>1. n \in 1..MaxSize BY <1>0
  <2> QED BY <1>7, <2>1, NewFromBufferStep
<1>8. ASSUME NEW n \in {Empty, InlineCap + 1}, UserAllocates(n) PROVE HandleInv'
  <2>1. n \in Nat \ {0} BY <1>0
  <2> QED BY <1>8, <2>1, UserAllocatesStep
<1> HIDE DEF HandleInv
<1> QED
  BY <1>1, <1>2, <1>3, <1>4, <1>5, <1>6, <1>7, <1>8, EndChildStep, DestroyStep,
     DestroyWithStealStep, GrowStep, ReserveStep, CopyToStep, BeginChildStep, StealStep
     DEF HandleNext

LEMMA HandleStarts == HandleInit => HandleInv
<1> SUFFICES ASSUME HandleInit PROVE HandleInv OBVIOUS
<1>1. /\ Dead \in Records /\ Dead.flags = {"DEAD"} /\ Dead.struct = NULL /\ Dead.alloc = NULL
      /\ FlagsSay(Dead)
  BY DeadIs
<1>2. handle \in [Handles -> Records] /\ \A x \in Handles : handle[x] = Dead
  BY <1>1 DEF HandleInit
<1>a. Away = {} /\ OneGift BY DEF HandleInit, Away, OneGift
<1>3. Typed(handle, heap, userBuf, Away) BY <1>2, <1>a DEF HandleInit, Typed, Places
<1>4. \A x \in Handles : ~Lives(handle, x) /\ ~IsChild(handle, x) /\ ~Foreign(handle, x)
  BY <1>1, <1>2 DEF Lives, IsChild, Foreign, Over
<1>5. OneOwner(Own(handle, userBuf, Away), heap)
  <2> DEFINE own == Own(handle, userBuf, Away)
  <2>1. own[Buffer] = NULL /\ \A b \in Blocks : own[AwayFrom(b)] = NULL
    BY <1>3, <1>a, OwnIs DEF HandleInit
  <2>2. \A x \in Handles : own[StructOf(x)] = NULL /\ own[BytesOf(x)] = NULL
    BY <1>1, <1>2, <1>3, OwnIs
  <2> HIDE DEF own
  <2>3. \A o \in Owners : own[o] = NULL BY <2>1, <2>2, OwnersDiffer
  <2>4. NULL \notin Blocks BY HandleAssumption DEF HandleAssumption
  <2>5. \A b \in Blocks : heap[b] = 0 BY DEF HandleInit
  <2> QED BY <2>3, <2>4, <2>5 DEF OneOwner, own
<1>6. \A x \in Handles : FlagsSay(handle[x]) BY <1>1, <1>2
<1>7. \A x \in Handles : Fits(handle, heap, userBuf, x) BY <1>4 DEF Fits
<1>8. Nested(handle) BY <1>4 DEF Nested
<1>9. OneForeign(handle, userBuf) BY <1>4 DEF OneForeign
<1>10. hollow \subseteq Handles /\ \A x \in hollow : Hollow(handle[x]) BY DEF HandleInit
<1> QED BY <1>3, <1>a, <1>5, <1>6, <1>7, <1>8, <1>9, <1>10 DEF HandleInv, Kept

LEMMA StringStarts == StringInit => StringInv
BY DEF StringInit, StringInv
-----------------------------------------------------------------------------
(* MemoryHeld holds however many documents and blocks there are, whatever  *)
(* the sizes, and however documents are made, over a buffer of the         *)
(* caller's too, grown, copied, nested, stolen and destroyed (bson.c), and *)
(* a string is appended to and cut (bson-string.c), in any order: every    *)
(* block has one owner, no document reaches past its bytes, and the string *)
(* holds what was put in it.  Two kinds of document are outside it until   *)
(* they next grow, for the bytes alone: one over a buffer whose length     *)
(* word says more than the buffer holds, and one stolen from the caller's  *)
(* buffer, of which what it allocated after that has no owner once it is   *)
(* destroyed.                                                              *)
THEOREM MemoryIsHeld == MemorySpec => []MemoryHeld
<1> DEFINE MemoryInv == HandleInv /\ StringInv
<1>1. MemoryInit => MemoryInv BY HandleStarts, StringStarts DEF MemoryInit
<1>2. MemoryInv /\ [MemoryNext]_memoryVars => MemoryInv'
  <2> SUFFICES ASSUME MemoryInv, [MemoryNext]_memoryVars PROVE MemoryInv' OBVIOUS
  <2>1. CASE HandleNext /\ UNCHANGED stringVars
    <3>1. StringInv'
      BY <2>1 DEF stringVars, StringInv
    <3> QED BY <2>1, <3>1, HandleStep
  <2>2. CASE StringNext /\ UNCHANGED handleVars
    <3>1. HandleInv' BY <2>2 DEF handleVars, HandleInv, Away, OneGift
    <3> QED BY <2>2, <3>1, StringStep
  <2>3. CASE UNCHANGED memoryVars
    <3>1. HandleInv' BY <2>3 DEF memoryVars, handleVars, HandleInv, Away, OneGift
    <3>2. StringInv' BY <2>3 DEF memoryVars, stringVars, StringInv
    <3> QED BY <3>1, <3>2
  <2> HIDE DEF MemoryInv
  <2> QED BY <2>1, <2>2, <2>3 DEF MemoryNext
<1>3. MemoryInv => MemoryHeld BY HandleSaid, StringSaid DEF MemoryHeld
<1> QED BY <1>1, <1>2, <1>3, PTL DEF MemorySpec
-----------------------------------------------------------------------------
(* Cells, and what a search for a terminator finds.                        *)
Iterators ==
  [len : Nat, off : Nat, next : Nat, o : Nat, type : Nat, key : Seq(Nat),
   err : BOOLEAN, unsupported : BOOLEAN, live : BOOLEAN]
Walks == [base : Nat, it : Iterators]

LEMMA CellIs ==
  ASSUME NEW raw \in Seq(Nat), NEW i \in Nat
  PROVE  /\ At(raw, i) \in Int /\ At(raw, i) >= -1
         /\ i < Len(raw) => At(raw, i) \in Nat
         /\ At(raw, i) # Junk => i < Len(raw)
BY DEF At, Junk

LEMMA ZeroIs ==
  ASSUME NEW raw, NEW i \in Nat, NEW len \in Nat
  PROVE  \/ ZeroFrom(raw, i, len) = len
         \/ ZeroFrom(raw, i, len) \in i..(len - 1) /\ At(raw, ZeroFrom(raw, i, len)) = 0
<1> DEFINE zeros == {z \in i..(len - 1) : At(raw, z) = 0}
<1>1. CASE zeros = {} BY <1>1, Zenon DEF ZeroFrom
<1>2. CASE zeros # {}
  <2>1. zeros \in SUBSET Nat OBVIOUS
  <2> HIDE DEF zeros
  <2>2. \E x \in zeros : \A y \in zeros : x <= y BY <1>2, <2>1, LeastNatural
  <2>3. Min(zeros) \in zeros BY <2>2, Zenon DEF Min
  <2>4. ZeroFrom(raw, i, len) = Min(zeros) BY <1>2, Zenon DEF ZeroFrom, zeros
  <2> QED BY <2>3, <2>4 DEF zeros
<1> QED BY <1>1, <1>2

LEMMA SliceIs ==
  ASSUME NEW raw \in Seq(Nat), NEW from \in Nat, NEW to \in Nat, to <= Len(raw)
  PROVE  /\ Slice(raw, from, to) \in Seq(Nat)
         /\ Len(Slice(raw, from, to)) = IF from < to THEN to - from ELSE 0
         /\ \A i \in 1..(to - from) : Slice(raw, from, to)[i] = raw[from + i]
<1> DEFINE m == from + 1
<1>1. m \in Int /\ \A i \in m..to : raw[i] \in Nat OBVIOUS
<1>2. /\ (m <= to <=> from < to) /\ to - m + 1 = to - from
      /\ \A i \in 1..(to - from) : m + i - 1 = from + i
  OBVIOUS
<1>3. Slice(raw, from, to) = SubSeq(raw, m, to) BY DEF Slice
<1> HIDE DEF m
<1>4. /\ SubSeq(raw, m, to) \in Seq(Nat)
      /\ Len(SubSeq(raw, m, to)) = IF m <= to THEN to - m + 1 ELSE 0
      /\ \A i \in 1..to - m + 1 : SubSeq(raw, m, to)[i] = raw[m + i - 1]
  BY <1>1, SubSeqProperties
<1> QED BY <1>2, <1>3, <1>4

LEMMA TailIs ==
  ASSUME NEW raw \in Seq(Nat), NEW b \in Nat
  PROVE  /\ Slice(raw, b, Len(raw)) \in Seq(Nat)
         /\ b <= Len(raw) => Len(Slice(raw, b, Len(raw))) = Len(raw) - b
         /\ \A i \in Nat : At(Slice(raw, b, Len(raw)), i) = At(raw, b + i)
<1> DEFINE tail == Slice(raw, b, Len(raw))
<1>0. Len(raw) \in Nat OBVIOUS
<1>1. /\ tail \in Seq(Nat)
      /\ Len(tail) = IF b < Len(raw) THEN Len(raw) - b ELSE 0
      /\ \A i \in 1..(Len(raw) - b) : tail[i] = raw[b + i]
  BY <1>0, SliceIs
<1> HIDE DEF tail
<1>2. ASSUME NEW i \in Nat PROVE At(tail, i) = At(raw, b + i)
  <2>1. CASE i + 1 \in 1..(Len(raw) - b)
    <3>a. tail[i + 1] = raw[b + (i + 1)] BY <1>1, <2>1
    <3>b. b + (i + 1) = b + i + 1 /\ b + i + 1 \in 1..Len(raw) /\ b < Len(raw) BY <1>0, <2>1
    <3>c. i + 1 \in DOMAIN tail /\ b + i + 1 \in DOMAIN raw BY <1>1, <2>1, <3>b
    <3>1. /\ i + 1 \in DOMAIN tail /\ b + i + 1 \in DOMAIN raw
          /\ tail[i + 1] = raw[b + (i + 1)] /\ b + (i + 1) = b + i + 1
      BY <3>a, <3>b, <3>c
    <3> QED BY <3>1 DEF At
  <2>2. CASE i + 1 \notin 1..(Len(raw) - b)
    <3>1. i + 1 \notin DOMAIN tail /\ b + i + 1 \notin DOMAIN raw BY <1>0, <1>1, <2>2
    <3> QED BY <3>1 DEF At
  <2> QED BY <2>1, <2>2
<1>3. b <= Len(raw) => Len(tail) = Len(raw) - b BY <1>0, <1>1
<1> QED BY <1>1, <1>2, <1>3 DEF tail
-----------------------------------------------------------------------------
(* Where each kind of element ends, and that its accessor stops before.    *)
(* The types, as ValueEnd and LastRead tell them apart.                    *)
LEMMA KindsApart ==
  ASSUME NEW type \in Nat
  PROVE  /\ DOMAIN Width = Fixed
         /\ type \in Fixed => Width[type] \in 0..4
         /\ Bool \in Fixed /\ Width[Bool] = 1
         /\ type \in Texts => type \notin {Binary, Document, Array, Regex, DbPointer, CodeWScope} \union Fixed
         /\ type = Binary => type \notin {Document, Array, Regex, DbPointer, CodeWScope} \union Fixed \union Texts
         /\ type \in {Document, Array} => type \notin {Binary, Regex, DbPointer, CodeWScope} \union Fixed \union Texts
         /\ type = Regex => type \notin {Binary, Document, Array, DbPointer, CodeWScope} \union Fixed \union Texts
         /\ type = DbPointer => type \notin {Binary, Document, Array, Regex, CodeWScope} \union Fixed \union Texts
         /\ type = CodeWScope => type \notin {Binary, Document, Array, Regex, DbPointer} \union Fixed \union Texts
         /\ type \in Fixed => type \notin {Binary, Document, Array, Regex, DbPointer, CodeWScope} \union Texts
BY DEF Width, Fixed, Sizeless, TwoWords, OidCells, Texts, Double, Utf8, Document, Array, Binary,
   Undefined, Oid, Bool, DateTime, Null, Regex, DbPointer, Code, Symbol, CodeWScope, Int32,
   Timestamp, Int64, Decimal128, MaxKey, MinKey

LEMMA ValueEnds ==
  ASSUME NEW type \in Nat, NEW raw, NEW o, NEW len
  PROVE  /\ type \in Texts => ValueEnd(raw, type, o, len) = TextEnd(raw, o, len)
         /\ type = Binary => ValueEnd(raw, type, o, len) = BinaryEnd(raw, o, len)
         /\ type \in {Document, Array} => ValueEnd(raw, type, o, len) = DocumentEnd(raw, o, len)
         /\ type = Bool => ValueEnd(raw, type, o, len) \in {BoolEnd(raw, o, len), o + Width[type]}
         /\ type = Regex => ValueEnd(raw, type, o, len) = RegexEnd(raw, o, len)
         /\ type = DbPointer => ValueEnd(raw, type, o, len) = DbPointerEnd(raw, o, len)
         /\ type = CodeWScope => ValueEnd(raw, type, o, len) = ScopeEnd(raw, o, len)
         /\ type \in Fixed /\ type # Bool => ValueEnd(raw, type, o, len) = o + Width[type]
         /\ ValueEnd(raw, type, o, len) # Bad =>
              type \in Texts \union {Binary, Document, Array, Regex, DbPointer, CodeWScope} \union Fixed
<1>1. type \in Texts => ValueEnd(raw, type, o, len) = TextEnd(raw, o, len)
  BY KindsApart, Zenon DEF ValueEnd
<1>2. type = Binary => ValueEnd(raw, type, o, len) = BinaryEnd(raw, o, len)
  BY KindsApart, Zenon DEF ValueEnd
<1>3. type \in {Document, Array} => ValueEnd(raw, type, o, len) = DocumentEnd(raw, o, len)
  BY KindsApart, Zenon DEF ValueEnd
<1>4. type = Bool => ValueEnd(raw, type, o, len) \in {BoolEnd(raw, o, len), o + Width[type]}
  BY KindsApart, Zenon DEF ValueEnd
<1>5. type = Regex => ValueEnd(raw, type, o, len) = RegexEnd(raw, o, len)
  BY KindsApart, Zenon DEF ValueEnd
<1>6. type = DbPointer => ValueEnd(raw, type, o, len) = DbPointerEnd(raw, o, len)
  BY KindsApart, Zenon DEF ValueEnd
<1>7. type = CodeWScope => ValueEnd(raw, type, o, len) = ScopeEnd(raw, o, len)
  BY KindsApart, Zenon DEF ValueEnd
<1>8. type \in Fixed /\ type # Bool => ValueEnd(raw, type, o, len) = o + Width[type]
  BY KindsApart, Zenon DEF ValueEnd
<1>9. ValueEnd(raw, type, o, len) # Bad =>
        type \in Texts \union {Binary, Document, Array, Regex, DbPointer, CodeWScope} \union Fixed
  BY KindsApart, Zenon DEF ValueEnd
<1> QED BY <1>1, <1>2, <1>3, <1>4, <1>5, <1>6, <1>7, <1>8, <1>9

LEMMA LastReads ==
  ASSUME NEW raw, NEW it \in Iterators
  PROVE  /\ it.type \in Texts => LastRead(raw, it) = it.o + At(raw, it.o)
         /\ it.type = Binary => LastRead(raw, it) = it.o + 1 + At(raw, it.o)
         /\ it.type \in {Document, Array} => LastRead(raw, it) = it.o + At(raw, it.o) - 1
         /\ it.type = Regex =>
              LastRead(raw, it) = ZeroFrom(raw, ZeroFrom(raw, it.o, it.len) + 1, it.len)
         /\ it.type = DbPointer => LastRead(raw, it) = it.o + At(raw, it.o) + OidCells
         /\ it.type = CodeWScope =>
              LastRead(raw, it) = ScopeStart(raw, it.o) + At(raw, ScopeStart(raw, it.o)) - 1
         /\ it.type \in Fixed => LastRead(raw, it) = it.o + Width[it.type] - 1
<1>0. it.type \in Nat BY DEF Iterators
<1>1. it.type \in Texts => LastRead(raw, it) = it.o + At(raw, it.o)
  BY <1>0, KindsApart, Zenon DEF LastRead
<1>2. it.type = Binary => LastRead(raw, it) = it.o + 1 + At(raw, it.o)
  BY <1>0, KindsApart, Zenon DEF LastRead
<1>3. it.type \in {Document, Array} => LastRead(raw, it) = it.o + At(raw, it.o) - 1
  BY <1>0, KindsApart, Zenon DEF LastRead
<1>4. it.type = Regex =>
        LastRead(raw, it) = ZeroFrom(raw, ZeroFrom(raw, it.o, it.len) + 1, it.len)
  BY <1>0, KindsApart, Zenon DEF LastRead
<1>5. it.type = DbPointer => LastRead(raw, it) = it.o + At(raw, it.o) + OidCells
  BY <1>0, KindsApart, Zenon DEF LastRead
<1>6. it.type = CodeWScope =>
        LastRead(raw, it) = ScopeStart(raw, it.o) + At(raw, ScopeStart(raw, it.o)) - 1
  BY <1>0, KindsApart, Zenon DEF LastRead
<1>7. it.type \in Fixed => LastRead(raw, it) = it.o + Width[it.type] - 1
  BY <1>0, KindsApart, Zenon DEF LastRead
<1> QED BY <1>1, <1>2, <1>3, <1>4, <1>5, <1>6, <1>7

LEMMA EndsInside ==
  ASSUME NEW raw \in Seq(Nat), NEW it \in Iterators, it.o <= it.len, it.len <= Len(raw),
         ValueEnd(raw, it.type, it.o, it.len) # Bad
  PROVE  /\ ValueEnd(raw, it.type, it.o, it.len) \in Nat
         /\ it.o <= ValueEnd(raw, it.type, it.o, it.len)
         /\ LastRead(raw, it) < ValueEnd(raw, it.type, it.o, it.len)
<1> DEFINE type == it.type
           o == it.o
           len == it.len
           l == At(raw, o)
           last == LastRead(raw, it)
           end == ValueEnd(raw, type, o, len)
<1>a. /\ type \in Nat /\ o \in Nat /\ len \in Nat /\ o <= len /\ len <= Len(raw) /\ end # Bad
  BY DEF Iterators
<1>b. end = ValueEnd(raw, type, o, len) /\ last = LastRead(raw, it) OBVIOUS
<1>c. /\ (type \in Texts => last = o + l) /\ (type = Binary => last = o + 1 + l)
      /\ (type \in {Document, Array} => last = o + l - 1)
      /\ (type = Regex => last = ZeroFrom(raw, ZeroFrom(raw, o, len) + 1, len))
      /\ (type = DbPointer => last = o + l + OidCells)
      /\ (type = CodeWScope => last = ScopeStart(raw, o) + At(raw, ScopeStart(raw, o)) - 1)
      /\ (type \in Fixed => last = o + Width[type] - 1)
  BY LastReads
<1> SUFFICES end \in Nat /\ o <= end /\ last < end OBVIOUS
<1> HIDE DEF type, o, len, last, end
<1>d. l \in Int /\ l >= -1 /\ (o < len => l \in Nat) BY <1>a, CellIs
<1>1. CASE type \in Texts
  <2>1. end = TextEnd(raw, o, len) BY <1>a, <1>b, <1>1, ValueEnds
  <2>2. o + 1 < len /\ end = o + 1 + l BY <1>a, <2>1 DEF TextEnd, Bad
  <2> QED BY <1>1, <1>a, <1>c, <1>d, <2>2
<1>2. CASE type = Binary
  <2>1. end = BinaryEnd(raw, o, len) BY <1>a, <1>b, <1>2, ValueEnds
  <2>2. o < len - 1 /\ end = o + 2 + l BY <1>a, <2>1 DEF BinaryEnd, Bad
  <2> QED BY <1>2, <1>a, <1>c, <1>d, <2>2
<1>3. CASE type \in {Document, Array}
  <2>1. end = DocumentEnd(raw, o, len) BY <1>a, <1>b, <1>3, ValueEnds
  <2>2. o < len - 1 /\ end = o + l BY <1>a, <2>1 DEF DocumentEnd, Bad
  <2> QED BY <1>3, <1>a, <1>c, <1>d, <2>2
<1>4. CASE type = Regex
  <2> DEFINE pattern == ZeroFrom(raw, o, len)
             start == pattern + 1
             options == ZeroFrom(raw, start, len)
  <2>1. end = RegexEnd(raw, o, len) BY <1>a, <1>b, <1>4, ValueEnds
  <2>2. pattern < len /\ options < len /\ end = options + 1 BY <1>a, <2>1 DEF RegexEnd, Bad
  <2>3. pattern \in o..(len - 1) BY <1>a, <2>2, ZeroIs
  <2>4. options \in start..(len - 1)
    <3>1. start \in Nat BY <1>a, <2>3
    <3>2. options = ZeroFrom(raw, start, len) OBVIOUS
    <3> HIDE DEF start, options
    <3> QED BY <1>a, <2>2, <3>1, <3>2, ZeroIs
  <2>5. last = options BY <1>4, <1>c
  <2> HIDE DEF pattern, options
  <2> QED BY <1>a, <2>2, <2>3, <2>4, <2>5
<1>5. CASE type = DbPointer
  <2>1. end = DbPointerEnd(raw, o, len) BY <1>a, <1>b, <1>5, ValueEnds
  <2>2. o < len - 1 /\ end = o + 1 + l + OidCells BY <1>a, <2>1 DEF DbPointerEnd, Bad
  <2> QED BY <1>5, <1>a, <1>c, <1>d, <2>2 DEF OidCells
<1>6. CASE type = CodeWScope
  <2>1. end = ScopeEnd(raw, o, len) BY <1>a, <1>b, <1>6, ValueEnds
  <2> DEFINE s == ScopeStart(raw, o)
             scoped == At(raw, s)
  <2>2. /\ o < len - 5 /\ l >= 5 /\ s + scoped = o + l /\ end = o + l
    BY <1>a, <2>1 DEF ScopeEnd, Bad, ScopeStart
  <2>3. last = s + scoped - 1 BY <1>6, <1>c
  <2>4. s \in Nat
    <3> DEFINE p == o + 1
    <3>1. p \in Nat /\ s = p + 1 + At(raw, p) BY <1>a DEF ScopeStart
    <3> HIDE DEF p, s
    <3>2. At(raw, p) \in Int /\ At(raw, p) >= -1 BY <3>1, CellIs
    <3> QED BY <3>1, <3>2
  <2> HIDE DEF s
  <2>5. scoped \in Int BY <2>4, CellIs
  <2> HIDE DEF scoped
  <2> QED BY <1>a, <1>d, <2>2, <2>3, <2>4, <2>5
<1>7. CASE type \in Fixed
  <2>1. Width[type] \in 0..4 /\ Width[Bool] = 1 BY <1>7, <1>a, KindsApart
  <2>2. end = o + Width[type]
    <3>1. end \in {BoolEnd(raw, o, len), o + Width[type]} BY <1>a, <1>b, <1>7, ValueEnds
    <3>2. BoolEnd(raw, o, len) \in {Bad, o + 1} BY DEF BoolEnd
    <3>3. CASE type = Bool BY <1>a, <2>1, <3>1, <3>2, <3>3
    <3>4. CASE type # Bool BY <1>a, <1>b, <1>7, <3>4, ValueEnds
    <3> QED BY <3>3, <3>4
  <2>3. last = o + Width[type] - 1 BY <1>7, <1>c, Zenon
  <2> DEFINE width == Width[type]
  <2>4. width \in Nat /\ end = o + width /\ last = o + width - 1 BY <2>1, <2>2, <2>3
  <2> HIDE DEF width
  <2> QED BY <1>a, <2>4
<1>8. type \in Texts \union {Binary, Document, Array, Regex, DbPointer, CodeWScope} \union Fixed
  BY <1>a, <1>b, ValueEnds
<1> QED BY <1>1, <1>2, <1>3, <1>4, <1>5, <1>6, <1>7, <1>8
-----------------------------------------------------------------------------
(* An iterator that may read `size' cells stays inside what it accepts.    *)
Sound(raw, it) ==
  it.live => it.next >= 1 /\ (OnElement(it) => InElement(raw, it))

LEMMA IterIs ==
  ASSUME NEW len \in Nat
  PROVE  /\ Iter(len, 1, TRUE) \in Iterators
         /\ Iter(len, 1, TRUE).len = len /\ Iter(len, 1, TRUE).next = 1
         /\ ~OnElement(Iter(len, 1, TRUE))
BY DEF Iter, Iterators, OnElement

LEMMA LandedSound ==
  ASSUME NEW raw \in Seq(Nat), NEW at \in Iterators, NEW end,
         end = ValueEnd(raw, at.type, at.o, at.len), at.len <= Len(raw),
         at.off < at.o, at.o < at.len + 1
  PROVE  LET to == Landed(at, end)
         IN to \in Iterators /\ to.len = at.len /\ Sound(raw, to)
<1> DEFINE to == Landed(at, end)
<1>a. /\ at.len \in Nat /\ at.off \in Nat /\ at.o \in Nat /\ at.next \in Nat /\ at.type \in Nat
  BY DEF Iterators
<1>1. CASE end = Bad \/ end >= at.len
  <2> DEFINE unsupported == at.type \notin Types \union {0}
  <2>1. to = [at EXCEPT !.live = FALSE, !.next = 0, !.err = TRUE, !.unsupported = unsupported]
    BY <1>1, Zenon DEF Landed
  <2>3. unsupported = TRUE \/ unsupported = FALSE BY Zenon
  <2> HIDE DEF unsupported, to
  <2>4. CASE unsupported = TRUE
    <3>1. to \in Iterators /\ to.len = at.len /\ to.live = FALSE BY <2>1, <2>4 DEF Iterators
    <3> QED BY <3>1 DEF Sound, to
  <2>5. CASE unsupported = FALSE
    <3>1. to \in Iterators /\ to.len = at.len /\ to.live = FALSE BY <2>1, <2>5 DEF Iterators
    <3> QED BY <3>1 DEF Sound, to
  <2> QED BY <2>3, <2>4, <2>5
<1>2. CASE ~(end = Bad \/ end >= at.len)
  <2>1. to = [at EXCEPT !.next = end] BY <1>2, Zenon DEF Landed
  <2>2. end \in Nat /\ at.o <= end /\ LastRead(raw, at) < end BY <1>a, <1>2, EndsInside
  <2>3. /\ to \in Iterators /\ to.len = at.len /\ to.next = end /\ to.o = at.o /\ to.off = at.off
        /\ to.type = at.type
    BY <2>1, <2>2 DEF Iterators
  <2>4. LastRead(raw, to) = LastRead(raw, at) BY <2>3, Zenon DEF LastRead
  <2>5. end < at.len BY <1>a, <1>2, <2>2
  <2>6. InElement(raw, to) BY <1>a, <2>2, <2>3, <2>4, <2>5 DEF InElement
  <2>7. to.next >= 1 BY <1>a, <2>2, <2>3
  <2> QED BY <2>3, <2>6, <2>7 DEF Sound
<1> QED BY <1>1, <1>2

LEMMA NextSound ==
  ASSUME NEW raw \in Seq(Nat), NEW it \in Iterators, it.live, it.next >= 1, it.len <= Len(raw)
  PROVE  LET to == IterNext(raw, it)
         IN to \in Iterators /\ to.len = it.len /\ Sound(raw, to)
<1> DEFINE z == ZeroFrom(raw, it.next + 1, it.len)
           to == IterNext(raw, it)
<1>a. it.len \in Nat /\ it.next \in Nat BY DEF Iterators
<1>b. to = StepPast(raw, it, z) BY DEF IterNext
<1>c. z = it.len \/ z \in (it.next + 1)..(it.len - 1)
  <2> DEFINE start == it.next + 1
  <2>1. start \in Nat BY <1>a
  <2> HIDE DEF start
  <2>2. ZeroFrom(raw, start, it.len) = it.len \/ ZeroFrom(raw, start, it.len) \in start..(it.len - 1)
    BY <1>a, <2>1, ZeroIs
  <2> QED BY <2>2 DEF start
<1> HIDE DEF z, to
<1>1. CASE z = it.len
  <2>1. to = [it EXCEPT !.live = FALSE, !.next = 0, !.unsupported = FALSE]
    BY <1>b, <1>1, Zenon DEF StepPast
  <2>2. to \in Iterators /\ to.len = it.len /\ to.live = FALSE BY <2>1 DEF Iterators
  <2> QED BY <2>2 DEF Sound, to
<1>2. CASE z # it.len
  <2> DEFINE type == At(raw, it.next)
             at == [it EXCEPT !.off = it.next, !.type = type, !.o = z + 1, !.err = FALSE,
                              !.key = Slice(raw, it.next + 1, z), !.unsupported = FALSE]
             end == ValueEnd(raw, type, z + 1, it.len)
  <2>1. z \in Nat /\ it.next < z /\ z < it.len BY <1>a, <1>c, <1>2
  <2>2. type \in Nat
    <3> DEFINE n == it.next
    <3>1. n \in Nat /\ n < Len(raw) /\ type = At(raw, n) BY <1>a, <2>1
    <3> HIDE DEF n, type
    <3> QED BY <3>1, CellIs
  <2>3. Slice(raw, it.next + 1, z) \in Seq(Nat)
    <3> DEFINE from == it.next + 1
    <3>1. from \in Nat /\ z <= Len(raw) BY <1>a, <2>1
    <3> HIDE DEF from
    <3>2. Slice(raw, from, z) \in Seq(Nat) BY <2>1, <3>1, SliceIs
    <3> QED BY <3>2 DEF from
  <2>4. to = Landed(at, end) BY <1>b, <1>2, Zenon DEF StepPast, StepTo
  <2> HIDE DEF type
  <2>a. z + 1 \in Nat BY <2>1
  <2>5. /\ at \in Iterators /\ at.len = it.len /\ at.type = type /\ at.o = z + 1 /\ at.off = it.next
    BY <1>a, <2>a, <2>2, <2>3 DEF Iterators
  <2>6. end = ValueEnd(raw, at.type, at.o, at.len) BY <2>5
  <2>7. at.len <= Len(raw) /\ at.off < at.o /\ at.o < at.len + 1 BY <1>a, <2>1, <2>5
  <2> HIDE DEF at, end
  <2>8. Landed(at, end) \in Iterators /\ Landed(at, end).len = at.len /\ Sound(raw, Landed(at, end))
    BY <2>5, <2>6, <2>7, LandedSound
  <2> QED BY <2>4, <2>5, <2>8 DEF to
<1> QED BY <1>1, <1>2
-----------------------------------------------------------------------------
(* The iterators that are open: each but the innermost stands on an        *)
(* element with a document inside, and the next one starts there, where    *)
(* the last word lies that its accessor goes by.                           *)
Opens(w) == OnElement(w.it) /\ w.it.type \in {Document, Array, CodeWScope}
Anchor(w) ==
  w.base + (IF w.it.type = CodeWScope THEN ScopeStart(Ahead(w), w.it.o) ELSE w.it.o)
Held(w) ==
  w.it.live => /\ w.base + w.it.len <= Len(bytes) /\ Sound(Ahead(w), w.it)
WalkInv ==
  /\ bytes \in Seq(Nat) /\ walks \in Seq(Walks) /\ walks # <<>>
  /\ \A i \in DOMAIN walks : Held(walks[i])
  /\ \A i, j \in DOMAIN walks : i < j => Opens(walks[i]) /\ Anchor(walks[i]) <= walks[j].base
  /\ \A i \in DOMAIN walks : i > 1 => InsideOuter(walks[i], walks[i - 1])

LEMMA InnermostIs ==
  ASSUME WalkInv
  PROVE  /\ Innermost = walks[Len(walks)] /\ Len(walks) \in DOMAIN walks /\ Len(walks) \in Nat \ {0}
         /\ \A i \in DOMAIN walks : walks[i] \in Walks /\ i \in Nat /\ 1 <= i /\ i <= Len(walks)
<1>1. walks \in Seq(Walks) /\ walks # <<>> BY DEF WalkInv
<1>2. Len(walks) \in Nat \ {0} /\ DOMAIN walks = 1..Len(walks)
      /\ \A i \in 1..Len(walks) : walks[i] \in Walks
  BY <1>1
<1>3. \A i \in DOMAIN walks : walks[i] \in Walks /\ i \in Nat /\ 1 <= i /\ i <= Len(walks)
  BY <1>2
<1>4. Len(walks) \in DOMAIN walks BY <1>2
<1>5. Innermost = walks[Len(walks)] BY DEF Last, Innermost
<1> QED BY <1>2, <1>3, <1>4, <1>5

LEMMA AheadIs ==
  ASSUME bytes \in Seq(Nat), NEW w \in Walks, w.base + w.it.len <= Len(bytes)
  PROVE  /\ Ahead(w) \in Seq(Nat) /\ w.it.len <= Len(Ahead(w))
         /\ \A i \in Nat : At(Ahead(w), i) = At(bytes, w.base + i)
<1> DEFINE b == w.base
           l == w.it.len
           tail == Slice(bytes, b, Len(bytes))
<1>1. b \in Nat /\ l \in Nat /\ b + l <= Len(bytes) BY DEF Walks, Iterators
<1>2. Ahead(w) = tail BY DEF Ahead, From
<1> HIDE DEF b, l
<1>3. Len(bytes) \in Nat /\ b <= Len(bytes) BY <1>1
<1>4. /\ tail \in Seq(Nat) /\ Len(tail) = Len(bytes) - b
      /\ \A i \in Nat : At(tail, i) = At(bytes, b + i)
  BY <1>1, <1>3, TailIs
<1>5. l <= Len(tail) BY <1>1, <1>3, <1>4
<1> QED BY <1>2, <1>4, <1>5 DEF b, l

(* The cells that the accessor of an element with a document goes by: the  *)
(* lengths of a code with scope and of its code, and where the document    *)
(* starts.                                                                 *)
LEMMA AnchorIs ==
  ASSUME bytes \in Seq(Nat), NEW w \in Walks, Held(w), Opens(w)
  PROVE  /\ Anchor(w) \in Nat /\ w.base + w.it.o <= Anchor(w)
         /\ w.base \in Nat /\ w.it.o \in Nat /\ w.it.o >= 2
         /\ w.it.type = CodeWScope =>
              /\ Anchor(w) = w.base + w.it.o + 2 + At(bytes, w.base + w.it.o + 1)
              /\ Anchor(w) > w.base + w.it.o
         /\ w.it.type \in {Document, Array} => Anchor(w) = w.base + w.it.o
<1> DEFINE b == w.base
           o == w.it.o
           p == o + 1
<1>1. /\ w.it \in Iterators /\ b \in Nat /\ o \in Nat /\ w.it.off \in Nat /\ w.it.off > 0
      /\ b + w.it.len <= Len(bytes) /\ w.it.off < o
  BY DEF Walks, Iterators, Held, Sound, InElement, Opens, OnElement
<1>a. p \in Nat BY <1>1
<1>3. At(Ahead(w), p) = At(bytes, b + p) BY <1>1, <1>a, AheadIs
<1> HIDE DEF b, o
<1>2. o >= 2 /\ p \in Nat /\ b + p = b + o + 1 BY <1>1
<1>4. b + p \in Nat BY <1>1, <1>2
<1> HIDE DEF p
<1>5. At(bytes, b + p) \in Int /\ At(bytes, b + p) >= -1 BY <1>4, CellIs
<1>6. CASE w.it.type = CodeWScope
  <2>1. Anchor(w) = b + ScopeStart(Ahead(w), o) BY <1>6 DEF Anchor, b, o
  <2>2. ScopeStart(Ahead(w), o) = o + 2 + At(bytes, b + p) BY <1>3 DEF ScopeStart, p
  <2>3. w.it.type \notin {Document, Array} BY <1>6 DEF CodeWScope, Document, Array
  <2>4. Anchor(w) = b + o + 2 + At(bytes, b + p) BY <1>1, <1>5, <2>1, <2>2
  <2>5. At(bytes, b + p) = At(bytes, b + o + 1) BY <1>2
  <2> QED BY <1>1, <1>2, <1>5, <1>6, <2>3, <2>4, <2>5 DEF b, o
<1>7. CASE w.it.type # CodeWScope
  <2>1. Anchor(w) = b + o BY <1>7 DEF Anchor, b, o
  <2>2. b + o \in Nat /\ b + o <= b + o BY <1>1
  <2> QED BY <1>1, <1>2, <1>7, <2>1, <2>2 DEF b, o
<1> QED BY <1>6, <1>7

(* Only the innermost iterator moves, and it keeps its document.           *)
LEMMA WalkOnStep == ASSUME WalkInv, WalkOn PROVE WalkInv'
<1> DEFINE n == Len(walks)
           w == walks[n]
           to == IterNext(Ahead(w), w.it)
<1>1. /\ Innermost = w /\ n \in DOMAIN walks /\ n \in Nat \ {0} /\ w \in Walks
      /\ \A i \in DOMAIN walks : walks[i] \in Walks /\ i \in Nat /\ i <= n
      /\ DOMAIN walks = 1..n
  BY InnermostIs DEF WalkInv
<1>2. w.it.live /\ walks' = [walks EXCEPT ![n].it = to] /\ bytes' = bytes
  BY <1>1 DEF WalkOn
<1>3. /\ w.it \in Iterators /\ w.base \in Nat /\ w.base + w.it.len <= Len(bytes)
      /\ w.it.next >= 1 /\ bytes \in Seq(Nat)
  BY <1>1, <1>2 DEF WalkInv, Held, Sound, Walks
<1>4. Ahead(w) \in Seq(Nat) /\ w.it.len <= Len(Ahead(w)) BY <1>1, <1>3, AheadIs
<1>5. to \in Iterators /\ to.len = w.it.len /\ Sound(Ahead(w), to)
  BY <1>2, <1>3, <1>4, NextSound
<1> HIDE DEF to
<1>6. /\ walks' \in Seq(Walks) /\ Len(walks') = n /\ DOMAIN walks' = DOMAIN walks
      /\ walks'[n] \in Walks /\ walks'[n].it = to /\ walks'[n].base = w.base
      /\ \A i \in DOMAIN walks : i # n => walks'[i] = walks[i]
  <2> DEFINE moved == [w EXCEPT !.it = to]
  <2>1. moved \in Walks /\ moved.it = to /\ moved.base = w.base BY <1>1, <1>5 DEF Walks
  <2>2. walks' = [walks EXCEPT ![n] = moved] BY <1>2
  <2>3. walks \in Seq(Walks) BY DEF WalkInv
  <2> HIDE DEF moved, w, n
  <2>4. n \in DOMAIN walks /\ DOMAIN walks = 1..n BY <1>1
  <2>5. Len(walks) = n BY DEF n
  <2> QED BY <2>1, <2>2, <2>3, <2>4, <2>5
<1>7. Held(walks[n])' 
  <2>1. Ahead(walks[n])' = Ahead(w) BY <1>2, <1>6 DEF Ahead, From
  <2> QED BY <1>2, <1>3, <1>5, <1>6, <2>1 DEF Held, Sound, OnElement, InElement
<1>8. ASSUME NEW i \in DOMAIN walks, i # n PROVE Held(walks[i])' /\ Opens(walks[i])' /\ Anchor(walks[i])' = Anchor(walks[i])
  <2>1. walks[i]' = walks[i] BY <1>6, <1>8
  <2>2. Ahead(walks[i])' = Ahead(walks[i]) BY <1>2, <2>1 DEF Ahead, From
  <2>3. Held(walks[i]) /\ Opens(walks[i]) BY <1>1, <1>8 DEF WalkInv
  <2>4. Held(walks[i])' BY <1>2, <2>1, <2>2, <2>3 DEF Held
  <2> QED BY <2>1, <2>2, <2>3, <2>4 DEF Opens, Anchor
<1>9. \A i \in DOMAIN walks' : Held(walks[i])' BY <1>6, <1>7, <1>8
<1>10. \A i, j \in DOMAIN walks' : i < j => Opens(walks[i])' /\ Anchor(walks[i])' <= walks[j].base'
  <2> SUFFICES ASSUME NEW i \in DOMAIN walks, NEW j \in DOMAIN walks, i < j
               PROVE Opens(walks[i])' /\ Anchor(walks[i])' <= walks[j].base'
    BY <1>6
  <2>1. i # n BY <1>1
  <2>2. walks[j].base' = walks[j].base BY <1>6
  <2>3. Anchor(walks[i]) <= walks[j].base BY DEF WalkInv
  <2> QED BY <1>8, <2>1, <2>2, <2>3
<1>11. \A i \in DOMAIN walks' : i > 1 => InsideOuter(walks[i], walks[i - 1])'
  <2> SUFFICES ASSUME NEW i \in DOMAIN walks, i > 1 PROVE InsideOuter(walks[i], walks[i - 1])'
    BY <1>6
  <2>1. i - 1 \in DOMAIN walks /\ i - 1 # n BY <1>1
  <2>2. walks[i - 1]' = walks[i - 1] BY <1>6, <2>1
  <2>3. walks[i].base' = walks[i].base /\ walks[i].it.len' = walks[i].it.len BY <1>5, <1>6
  <2>4. InsideOuter(walks[i], walks[i - 1]) BY DEF WalkInv
  <2> QED BY <2>2, <2>3, <2>4 DEF InsideOuter
<1>12. walks' # <<>> BY <1>1, <1>6
<1>13. bytes' \in Seq(Nat) BY <1>2, <1>3
<1> QED BY <1>6, <1>9, <1>10, <1>11, <1>12, <1>13 DEF WalkInv

(* A second iterator starts inside the element the innermost one is at.    *)
LEMMA EnterStep ==
  ASSUME WalkInv, NEW base \in Nat, NEW it \in Iterators, Enter(base, it), it.next >= 1,
         ~OnElement(it), Opens(Innermost), Anchor(Innermost) <= base,
         base >= Innermost.base + Innermost.it.o,
         base + it.len <= Innermost.base + Innermost.it.next
  PROVE  WalkInv'
<1> DEFINE n == Len(walks)
           w == walks[n]
           new == Walk(base, it)
<1>1. /\ Innermost = w /\ n \in DOMAIN walks /\ n \in Nat \ {0} /\ w \in Walks
      /\ \A i \in DOMAIN walks : walks[i] \in Walks /\ i \in Nat /\ 1 <= i /\ i <= n
      /\ DOMAIN walks = 1..n /\ walks \in Seq(Walks) /\ bytes \in Seq(Nat)
  BY InnermostIs DEF WalkInv
<1>2. /\ new \in Walks /\ new.base = base /\ new.it = it BY DEF Walks, Walk
<1>3. walks' = Append(walks, new) /\ bytes' = bytes BY DEF Enter
<1> HIDE DEF new
<1>4. /\ walks' \in Seq(Walks) /\ walks' # <<>> /\ DOMAIN walks' = 1..(n + 1)
      /\ walks'[n + 1] = new /\ \A i \in DOMAIN walks : walks'[i] = walks[i]
  <2>1. /\ Append(walks, new) \in Seq(Walks) /\ Append(walks, new) # <<>>
        /\ Len(Append(walks, new)) = n + 1 /\ Append(walks, new)[n + 1] = new
        /\ \A i \in 1..n : Append(walks, new)[i] = walks[i]
    BY <1>1, <1>2, AppendProperties
  <2> QED BY <1>1, <1>3, <2>1
<1>5. /\ w.it.live /\ OnElement(w.it) /\ w.base + w.it.len <= Len(bytes)
      /\ w.it.next < w.it.len /\ w.it.o \in Nat
  BY <1>1 DEF WalkInv, Held, Sound, InElement, Opens, OnElement, Walks, Iterators
<1>6. ASSUME NEW i \in DOMAIN walks
      PROVE  /\ walks[i]' = walks[i] /\ Held(walks[i])'
             /\ Opens(walks[i])' /\ Anchor(walks[i])' = Anchor(walks[i])
  <2>1. walks[i]' = walks[i] BY <1>4
  <2>2. Ahead(walks[i])' = Ahead(walks[i]) BY <1>3, <2>1 DEF Ahead, From
  <2>3. Held(walks[i]) BY DEF WalkInv
  <2>4. Opens(walks[i])
    <3>1. CASE i = n BY <1>1, <3>1
    <3>2. CASE i # n
      <4>1. i < n BY <1>1, <3>2
      <4> QED BY <1>1, <4>1 DEF WalkInv
    <3> QED BY <3>1, <3>2
  <2>5. Held(walks[i])' BY <1>3, <2>1, <2>2, <2>3 DEF Held
  <2> QED BY <2>1, <2>2, <2>4, <2>5 DEF Opens, Anchor
<1>7. \A i \in DOMAIN walks' : Held(walks[i])'
  <2> SUFFICES ASSUME NEW i \in DOMAIN walks' PROVE Held(walks[i])' OBVIOUS
  <2>1. CASE i = n + 1
    <3>1. walks[i]' = new BY <1>4, <2>1
    <3>2. w.base \in Nat /\ w.it.len \in Nat /\ w.it.next \in Nat /\ it.len \in Nat
      BY <1>1 DEF Walks, Iterators
    <3>a. base + it.len <= w.base + w.it.next BY <1>1
    <3>b. Len(bytes) \in Nat BY <1>1
    <3>c. w.base + w.it.len <= Len(bytes) /\ w.it.next < w.it.len BY <1>5
    <3>3. base + it.len <= Len(bytes)
      <4> HIDE DEF w
      <4> QED BY <3>2, <3>a, <3>b, <3>c
    <3> QED BY <1>2, <1>3, <3>1, <3>3 DEF Held, Sound
  <2>2. CASE i # n + 1
    <3>1. i \in DOMAIN walks BY <1>1, <1>4, <2>2
    <3> QED BY <1>6, <3>1
  <2> QED BY <2>1, <2>2
<1>8. \A i, j \in DOMAIN walks' : i < j => Opens(walks[i])' /\ Anchor(walks[i])' <= walks[j].base'
  <2> SUFFICES ASSUME NEW i \in DOMAIN walks', NEW j \in DOMAIN walks', i < j
               PROVE Opens(walks[i])' /\ Anchor(walks[i])' <= walks[j].base'
    OBVIOUS
  <2>1. i \in DOMAIN walks BY <1>1, <1>4
  <2>2. CASE j # n + 1
    <3>1. j \in DOMAIN walks BY <1>1, <1>4, <2>2
    <3>2. Anchor(walks[i]) <= walks[j].base BY <2>1, <3>1 DEF WalkInv
    <3>3. walks[j].base' = walks[j].base BY <1>6, <3>1
    <3> QED BY <1>6, <2>1, <3>2, <3>3
  <2>3. CASE j = n + 1
    <3>1. walks[j].base' = base BY <1>2, <1>4, <2>3
    <3>2. Anchor(walks[i]) <= base
      <4>1. CASE i = n BY <1>1, <4>1
      <4>2. CASE i # n
        <5>1. Anchor(walks[i]) <= w.base BY <1>1, <2>1, <4>2 DEF WalkInv
        <5>2. w.base \in Nat BY <1>1 DEF Walks
        <5>3. Anchor(walks[i]) \in Int
          <6>1. walks[i] \in Walks /\ Held(walks[i]) /\ Opens(walks[i])
            BY <1>1, <2>1, <4>2 DEF WalkInv
          <6> QED BY <1>1, <6>1, AnchorIs
        <5> QED BY <1>1, <1>5, <5>1, <5>2, <5>3
      <4> QED BY <4>1, <4>2
    <3> QED BY <1>6, <2>1, <3>1, <3>2
  <2> QED BY <2>2, <2>3
<1>9. \A i \in DOMAIN walks' : i > 1 => InsideOuter(walks[i], walks[i - 1])'
  <2> SUFFICES ASSUME NEW i \in DOMAIN walks', i > 1 PROVE InsideOuter(walks[i], walks[i - 1])'
    OBVIOUS
  <2>1. i - 1 \in DOMAIN walks BY <1>1, <1>4
  <2>2. walks[i - 1]' = walks[i - 1] BY <1>6, <2>1
  <2>3. CASE i = n + 1
    <3>1. i - 1 = n BY <1>1, <2>3
    <3>2. walks[i]' = new /\ walks[i - 1]' = w BY <1>4, <2>2, <2>3, <3>1
    <3> QED BY <1>1, <1>2, <3>2 DEF InsideOuter
  <2>4. CASE i # n + 1
    <3>1. i \in DOMAIN walks BY <1>1, <1>4, <2>4
    <3>2. InsideOuter(walks[i], walks[i - 1]) BY <3>1 DEF WalkInv
    <3>3. walks[i]' = walks[i] BY <1>6, <3>1
    <3> QED BY <2>2, <3>2, <3>3 DEF InsideOuter
  <2> QED BY <2>3, <2>4
<1> QED BY <1>1, <1>3, <1>4, <1>7, <1>8, <1>9 DEF WalkInv

LEMMA EnterDocumentStep == ASSUME WalkInv, EnterDocument(Innermost) PROVE WalkInv'
<1> DEFINE w == Innermost
           b == w.base
           o == w.it.o
           base == b + o
           len == At(Ahead(w), o)
           it == Iter(len, 1, TRUE)
<1>1. /\ w \in Walks /\ Held(w) /\ OnElement(w.it) /\ w.it.live /\ bytes \in Seq(Nat)
  BY InnermostIs DEF WalkInv, EnterDocument, OnElement
<1>2. /\ Enter(base, IterRecurse(Ahead(w), w.it)) /\ IterRecurse(Ahead(w), w.it).live
  BY DEF EnterDocument, Enter
<1>3. w.it.type \in {Document, Array} /\ IterRecurse(Ahead(w), w.it) = it
  <2>1. CASE w.it.type \in {Document, Array} BY <2>1 DEF IterRecurse
  <2>2. CASE w.it.type \notin {Document, Array}
    <3>1. IterRecurse(Ahead(w), w.it) = NoIter BY <2>2 DEF IterRecurse
    <3>2. NoIter.live = FALSE BY DEF NoIter, Iter
    <3> QED BY <1>2, <3>1, <3>2
  <2> QED BY <2>1, <2>2
<1>4. /\ w.it \in Iterators /\ b \in Nat /\ o \in Nat /\ w.it.next \in Nat /\ w.it.len \in Nat
      /\ b + w.it.len <= Len(bytes) /\ o <= w.it.next /\ w.it.next < w.it.len
      /\ LastRead(Ahead(w), w.it) < w.it.next
  BY <1>1 DEF Walks, Iterators, Held, Sound, InElement
<1>a. Ahead(w) \in Seq(Nat) /\ w.it.len <= Len(Ahead(w)) BY <1>1, <1>4, AheadIs
<1>5. Ahead(w) \in Seq(Nat) /\ o < Len(Ahead(w))
  <2> HIDE DEF w, o
  <2> QED BY <1>4, <1>a
<1> HIDE DEF w, o
<1>6. len \in Nat BY <1>4, <1>5, CellIs
<1>7. LastRead(Ahead(w), w.it) = o + len - 1 BY <1>3, <1>4, LastReads DEF o
<1> HIDE DEF len
<1>8. o + len <= w.it.next BY <1>4, <1>6, <1>7
<1>9. it \in Iterators /\ it.len = len /\ it.next = 1 /\ ~OnElement(it) BY <1>6, IterIs
<1>10. Opens(w) /\ Anchor(w) = base
  <2>1. Opens(w) BY <1>1, <1>3 DEF Opens
  <2> QED BY <1>1, <1>3, <2>1, AnchorIs DEF o
<1>11. base \in Nat /\ base <= base /\ base + len <= b + w.it.next BY <1>4, <1>6, <1>8
<1> HIDE DEF it, base, b
<1>12. Enter(base, it) BY <1>2, <1>3
<1>13. base = b + o /\ b = w.base /\ o = w.it.o BY DEF base, b, o
<1> HIDE DEF w
<1>14. /\ Opens(Innermost) /\ Anchor(Innermost) <= base /\ it.next >= 1
       /\ base >= Innermost.base + Innermost.it.o
       /\ base + it.len <= Innermost.base + Innermost.it.next
  BY <1>9, <1>10, <1>11, <1>13 DEF w
<1> QED BY <1>9, <1>11, <1>12, <1>14, EnterStep

LEMMA EnterScopeStep == ASSUME WalkInv, EnterScope(Innermost) PROVE WalkInv'
<1> DEFINE w == Innermost
           s == ScopeStart(Ahead(w), w.it.o)
           base == w.base + s
           len == At(bytes, base)
           it == Iter(len, 1, TRUE)
<1>1. /\ w \in Walks /\ Held(w) /\ OnElement(w.it) /\ w.it.live /\ bytes \in Seq(Nat)
      /\ w.it.type = CodeWScope
  BY InnermostIs DEF WalkInv, EnterScope, OnElement
<1>2. Enter(base, IterInitFromData(From(base), len)) /\ IterInitFromData(From(base), len).live
  BY DEF EnterScope, Enter
<1>3. len >= Empty /\ IterInitFromData(From(base), len) = it
  <2>1. CASE SoundEnds(From(base), len) BY <2>1 DEF IterInitFromData, SoundEnds
  <2>2. CASE ~SoundEnds(From(base), len)
    <3>1. IterInitFromData(From(base), len) = NoIter BY <2>2 DEF IterInitFromData
    <3>2. NoIter.live = FALSE BY DEF NoIter, Iter
    <3> QED BY <1>2, <3>1, <3>2
  <2> QED BY <2>1, <2>2
<1>4. Opens(w) BY <1>1 DEF Opens
<1>5. Anchor(w) = base BY <1>1 DEF Anchor
<1>6. base \in Nat /\ w.base + w.it.o <= base BY <1>1, <1>4, <1>5, AnchorIs
<1>7. /\ w.it \in Iterators /\ w.base \in Nat /\ w.it.next \in Nat /\ w.it.o \in Nat
      /\ w.base + w.it.len <= Len(bytes) /\ LastRead(Ahead(w), w.it) < w.it.next
  BY <1>1 DEF Walks, Iterators, Held, Sound, InElement
<1>8. s \in Nat /\ len = At(Ahead(w), s)
  <2>1. s \in Nat
    <3> DEFINE p == w.it.o + 1
    <3>1. p \in Nat /\ s = p + 1 + At(Ahead(w), p) BY <1>7 DEF ScopeStart
    <3>2. Ahead(w) \in Seq(Nat) BY <1>1, <1>7, AheadIs
    <3> HIDE DEF p, s, w
    <3>3. At(Ahead(w), p) \in Int /\ At(Ahead(w), p) >= -1 BY <3>1, <3>2, CellIs
    <3> QED BY <3>1, <3>3
  <2>2. \A i \in Nat : At(Ahead(w), i) = At(bytes, w.base + i) BY <1>1, <1>7, AheadIs
  <2> HIDE DEF s, w
  <2> QED BY <2>1, <2>2
<1>9. LastRead(Ahead(w), w.it) = s + At(Ahead(w), s) - 1 BY <1>1, <1>7, LastReads
<1> HIDE DEF w, s
<1>10. len \in Int BY <1>1, <1>6, CellIs
<1>11. LastRead(Ahead(w), w.it) = s + len - 1 BY <1>8, <1>9
<1> HIDE DEF len
<1>12. len \in Nat BY <1>3, <1>10 DEF Empty
<1>13. s + len <= w.it.next BY <1>7, <1>8, <1>11, <1>12
<1>14. base + len <= w.base + w.it.next BY <1>7, <1>8, <1>12, <1>13
<1>15. it \in Iterators /\ it.len = len /\ it.next = 1 /\ ~OnElement(it) BY <1>12, IterIs
<1> HIDE DEF it, base
<1>16. Enter(base, it) BY <1>2, <1>3
<1>17. /\ Opens(Innermost) /\ Anchor(Innermost) <= base /\ it.next >= 1
       /\ base >= Innermost.base + Innermost.it.o
       /\ base + it.len <= Innermost.base + Innermost.it.next
  BY <1>4, <1>5, <1>6, <1>7, <1>14, <1>15 DEF w
<1> QED BY <1>6, <1>15, <1>16, <1>17, EnterStep

(* The caller goes back to the iterator it came from.                      *)
LEMMA LeaveStep == ASSUME WalkInv, Leave PROVE WalkInv'
<1> DEFINE n == Len(walks)
<1>1. /\ n \in Nat \ {0} /\ DOMAIN walks = 1..n /\ walks \in Seq(Walks) /\ bytes \in Seq(Nat)
      /\ n > 1 /\ walks' = Front(walks) /\ bytes' = bytes
  BY InnermostIs DEF WalkInv, Leave
<1>2. /\ walks' \in Seq(Walks) /\ walks' # <<>> /\ DOMAIN walks' = 1..(n - 1)
      /\ \A i \in 1..(n - 1) : walks'[i] = walks[i]
  <2> DEFINE m == n - 1
  <2>1. Front(walks) = SubSeq(walks, 1, m) BY <1>1 DEF Front
  <2>2. m \in Nat \ {0} /\ \A i \in 1..m : walks[i] \in Walks BY <1>1
  <2>3. \A i \in 1..m : 1 + i - 1 = i /\ m - 1 + 1 = m BY <2>2
  <2> HIDE DEF m
  <2>4. /\ SubSeq(walks, 1, m) \in Seq(Walks)
        /\ Len(SubSeq(walks, 1, m)) = IF 1 <= m THEN m - 1 + 1 ELSE 0
        /\ \A i \in 1..m - 1 + 1 : SubSeq(walks, 1, m)[i] = walks[1 + i - 1]
    BY <2>2, SubSeqProperties
  <2>5. /\ Len(SubSeq(walks, 1, m)) = m /\ DOMAIN SubSeq(walks, 1, m) = 1..m
        /\ \A i \in 1..m : SubSeq(walks, 1, m)[i] = walks[i]
    BY <2>2, <2>3, <2>4
  <2>6. SubSeq(walks, 1, m) # <<>> BY <2>2, <2>5
  <2> QED BY <1>1, <2>1, <2>4, <2>5, <2>6 DEF m
<1>3. ASSUME NEW i \in DOMAIN walks'
      PROVE  /\ i \in DOMAIN walks /\ walks[i]' = walks[i] /\ Held(walks[i])'
             /\ Opens(walks[i])' = Opens(walks[i]) /\ Anchor(walks[i])' = Anchor(walks[i])
  <2>1. i \in DOMAIN walks /\ walks[i]' = walks[i] BY <1>1, <1>2
  <2>2. Ahead(walks[i])' = Ahead(walks[i]) BY <1>1, <2>1 DEF Ahead, From
  <2>3. Held(walks[i]) BY <2>1 DEF WalkInv
  <2>4. Held(walks[i])' BY <1>1, <2>1, <2>2, <2>3 DEF Held
  <2>5. Opens(walks[i])' = Opens(walks[i]) BY <2>1, Zenon DEF Opens
  <2> QED BY <2>1, <2>2, <2>4, <2>5 DEF Anchor
<1>4. \A i, j \in DOMAIN walks' : i < j => Opens(walks[i])' /\ Anchor(walks[i])' <= walks[j].base'
  <2> SUFFICES ASSUME NEW i \in DOMAIN walks', NEW j \in DOMAIN walks', i < j
               PROVE Opens(walks[i])' /\ Anchor(walks[i])' <= walks[j].base'
    OBVIOUS
  <2>1. i \in DOMAIN walks /\ j \in DOMAIN walks BY <1>3
  <2>2. Opens(walks[i]) /\ Anchor(walks[i]) <= walks[j].base BY <2>1 DEF WalkInv
  <2>3. walks[j].base' = walks[j].base BY <1>3
  <2> QED BY <1>3, <2>2, <2>3
<1>5. \A i \in DOMAIN walks' : i > 1 => InsideOuter(walks[i], walks[i - 1])'
  <2> SUFFICES ASSUME NEW i \in DOMAIN walks', i > 1 PROVE InsideOuter(walks[i], walks[i - 1])'
    OBVIOUS
  <2>1. i - 1 \in DOMAIN walks' /\ i \in DOMAIN walks BY <1>1, <1>2
  <2>2. walks[i - 1]' = walks[i - 1] /\ walks[i]' = walks[i] BY <1>3, <2>1
  <2>3. InsideOuter(walks[i], walks[i - 1]) BY <2>1 DEF WalkInv
  <2> QED BY <2>2, <2>3 DEF InsideOuter
<1> QED BY <1>1, <1>2, <1>3, <1>4, <1>5 DEF WalkInv

(* What is overwritten lies in the innermost element, behind every cell    *)
(* that the other iterators have gone by.                                  *)
LEMMA OverwriteIs ==
  ASSUME WalkInv, NEW cells \in Seq(Nat), Overwrite(Innermost, cells)
  PROVE  /\ bytes' \in Seq(Nat) /\ Len(bytes') = Len(bytes) /\ walks' = walks
         /\ \A i \in Nat : i < Innermost.base + Innermost.it.o => At(bytes', i) = At(bytes, i)
<1> DEFINE w == Innermost
           at == w.base + w.it.o
<1>a. w \in Walks /\ bytes \in Seq(Nat) BY InnermostIs DEF WalkInv
<1>1. /\ w \in Walks /\ bytes \in Seq(Nat) /\ at \in Nat
  <2>1. w.base \in Nat /\ w.it.o \in Nat BY <1>a, Zenon DEF Walks, Iterators
  <2> QED BY <1>a, <2>1
<1>2. bytes' = Written(bytes, at, cells) /\ walks' = walks
  BY DEF Overwrite, IterOverwrite
<1> HIDE DEF at
<1>3. /\ Written(bytes, at, cells) \in Seq(Nat) /\ Len(Written(bytes, at, cells)) = Len(bytes)
      /\ DOMAIN Written(bytes, at, cells) = DOMAIN bytes
      /\ \A i \in DOMAIN bytes : i <= at => Written(bytes, at, cells)[i] = bytes[i]
  <2>1. \A i \in DOMAIN bytes : i - at \in DOMAIN cells => cells[i - at] \in Nat
    BY <1>1
  <2>2. Written(bytes, at, cells) \in [1..Len(bytes) -> Nat] BY <1>1, <2>1 DEF Written
  <2>3. \A i \in DOMAIN bytes : i <= at => i - at \notin DOMAIN cells BY <1>1
  <2>4. \A i \in DOMAIN bytes : i <= at => Written(bytes, at, cells)[i] = bytes[i]
    BY <2>3 DEF Written
  <2>5. Len(bytes) \in Nat /\ DOMAIN bytes = 1..Len(bytes) BY <1>1
  <2> HIDE DEF w
  <2> QED BY <2>2, <2>4, <2>5
<1>4. ASSUME NEW i \in Nat, i < at PROVE At(bytes', i) = At(bytes, i)
  <2>1. i + 1 <= at BY <1>1, <1>4
  <2> QED BY <1>2, <1>3, <2>1 DEF At
<1> QED BY <1>2, <1>3, <1>4 DEF at

LEMMA OverwriteStep ==
  ASSUME WalkInv, NEW cells \in Seq(Nat), Overwrite(Innermost, cells) PROVE WalkInv'
<1> DEFINE n == Len(walks)
           limit == Innermost.base + Innermost.it.o
<1>1. /\ n \in DOMAIN walks /\ n \in Nat \ {0} /\ DOMAIN walks = 1..n
      /\ \A i \in DOMAIN walks : walks[i] \in Walks /\ i \in Nat /\ 1 <= i /\ i <= n
      /\ Innermost = walks[n] /\ bytes \in Seq(Nat)
  BY InnermostIs DEF WalkInv
<1>2. /\ bytes' \in Seq(Nat) /\ Len(bytes') = Len(bytes) /\ walks' = walks
      /\ \A i \in Nat : i < limit => At(bytes', i) = At(bytes, i)
  BY OverwriteIs
<1>3. /\ OnElement(Innermost.it) /\ Innermost.it.type \in Fixed /\ Innermost.it \in Iterators
      /\ Innermost.base \in Nat /\ limit \in Nat /\ limit >= Innermost.base + 2
  <2>1. OnElement(Innermost.it) /\ Innermost.it.type \in Fixed BY DEF Overwrite
  <2>2. Innermost \in Walks /\ Held(Innermost) BY <1>1 DEF WalkInv
  <2> QED BY <2>1, <2>2 DEF Walks, Iterators, Held, Sound, InElement, OnElement
<1>4. ASSUME NEW i \in DOMAIN walks, i # n
      PROVE  /\ Held(walks[i])' /\ Opens(walks[i])' /\ Anchor(walks[i])' = Anchor(walks[i])
  <2> DEFINE w == walks[i]
             b == w.base
             o == w.it.o
  <2>1. /\ w \in Walks /\ Held(w) /\ Opens(w) /\ Anchor(w) <= Innermost.base
    <3>1. i < n BY <1>1, <1>4
    <3> QED BY <1>1, <3>1 DEF WalkInv
  <2>2. /\ Anchor(w) \in Nat /\ b + o <= Anchor(w) /\ b \in Nat /\ o \in Nat
        /\ w.it \in Iterators /\ b + w.it.len <= Len(bytes) /\ w.it.live
        /\ w.it.type = CodeWScope =>
             /\ Anchor(w) = b + o + 2 + At(bytes, b + o + 1) /\ Anchor(w) > b + o
    BY <1>1, <2>1, AnchorIs DEF Walks, Held, Opens, OnElement
  <2>3. walks[i]' = w BY <1>2
  <2> DEFINE raw == Slice(bytes, b, Len(bytes))
             new == Slice(bytes', b, Len(bytes'))
  <2>4. Ahead(walks[i]) = raw /\ Ahead(walks[i])' = new BY <2>3 DEF Ahead, From
  <2>5. /\ \A k \in Nat : At(raw, k) = At(bytes, b + k)
        /\ \A k \in Nat : At(new, k) = At(bytes', b + k)
    BY <1>1, <1>2, <2>2, TailIs
  <2> HIDE DEF w, b, o, raw, new, limit
  <2>6. /\ b + o < limit /\ b + (o + 1) < limit /\ Anchor(w) < limit
    <3> DEFINE base == Innermost.base
    <3>1. base \in Nat /\ limit >= base + 2 /\ Anchor(w) <= base BY <1>3, <2>1
    <3> HIDE DEF base
    <3> QED BY <1>3, <2>2, <3>1
  <2>7. At(new, o) = At(raw, o) /\ At(new, o + 1) = At(raw, o + 1)
    <3>1. \A k \in Nat : b + k \in Nat /\ (b + k < limit => At(new, k) = At(raw, k))
      BY <1>2, <2>2, <2>5
    <3>2. o + 1 \in Nat BY <2>2
    <3> QED BY <2>2, <2>6, <3>1, <3>2
  <2> DEFINE s == ScopeStart(raw, o)
  <2>8. ScopeStart(new, o) = s BY <2>7 DEF ScopeStart
  <2>9. w.it.type = CodeWScope => Anchor(w) = b + s /\ At(new, s) = At(raw, s)
    <3> SUFFICES ASSUME w.it.type = CodeWScope
                 PROVE Anchor(w) = b + s /\ At(new, s) = At(raw, s)
      OBVIOUS
    <3>1. Anchor(w) = b + s BY <2>4, Zenon DEF Anchor, w, b, o
    <3>2. s = o + 2 + At(bytes, b + o + 1)
      <4>1. s = o + 2 + At(raw, o + 1) BY DEF ScopeStart
      <4>2. o + 1 \in Nat /\ b + (o + 1) = b + o + 1 BY <2>2
      <4> QED BY <2>5, <4>1, <4>2
    <3>3. b + o + 1 \in Nat BY <2>2
    <3>4. At(bytes, b + o + 1) \in Int /\ At(bytes, b + o + 1) >= -1 BY <1>1, <3>3, CellIs
    <3>5. s \in Nat BY <2>2, <3>2, <3>4
    <3> HIDE DEF s
    <3>6. b + s \in Nat /\ b + s < limit BY <2>6, <3>1, <2>2
    <3> QED BY <1>2, <2>5, <3>1, <3>5, <3>6
  <2>10. LastRead(new, w.it) = LastRead(raw, w.it)
    <3>1. CASE w.it.type = CodeWScope
      <4>1. LastRead(raw, w.it) = s + At(raw, s) - 1 BY <2>2, <3>1, LastReads DEF o
      <4>2. LastRead(new, w.it) = ScopeStart(new, o) + At(new, ScopeStart(new, o)) - 1
        BY <2>2, <3>1, LastReads DEF o
      <4> HIDE DEF s
      <4> QED BY <2>8, <2>9, <3>1, <4>1, <4>2
    <3>2. CASE w.it.type \in {Document, Array}
      <4>1. LastRead(raw, w.it) = o + At(raw, o) - 1 BY <2>2, <3>2, LastReads DEF o
      <4>2. LastRead(new, w.it) = o + At(new, o) - 1 BY <2>2, <3>2, LastReads DEF o
      <4> QED BY <2>7, <4>1, <4>2
    <3> QED BY <2>1, <3>1, <3>2 DEF Opens
  <2>11. Sound(new, w.it)
    <3>1. Sound(raw, w.it) BY <2>1, <2>2, <2>4 DEF Held, w
    <3> QED BY <2>10, <3>1 DEF Sound, InElement
  <2>12. Held(walks[i])' BY <1>2, <2>2, <2>3, <2>4, <2>11 DEF Held, b
  <2>13. Opens(walks[i])' BY <2>1, <2>3 DEF Opens
  <2>14. Anchor(walks[i])' = Anchor(walks[i])
    <3>1. Anchor(walks[i])' = b + (IF w.it.type = CodeWScope THEN ScopeStart(new, o) ELSE o)
      BY <2>3, <2>4 DEF Anchor, b, o
    <3>2. Anchor(walks[i]) = b + (IF w.it.type = CodeWScope THEN s ELSE o)
      BY <2>4 DEF Anchor, b, o, w
    <3> QED BY <2>8, <3>1, <3>2
  <2> QED BY <2>12, <2>13, <2>14
<1>5. Held(Innermost)'
  <2> DEFINE w == Innermost
  <2>1. w \in Walks /\ Held(w) BY <1>1 DEF WalkInv
  <2>2. Innermost' = w BY <1>2 DEF Innermost
  <2>3. LastRead(Ahead(w)', w.it) = LastRead(Ahead(w), w.it) BY <1>3, LastReads
  <2>4. Ahead(Innermost)' = Ahead(w)' OBVIOUS
  <2> QED BY <1>2, <2>1, <2>2, <2>3, <2>4 DEF Held, Sound, InElement
<1>6. \A i \in DOMAIN walks' : Held(walks[i])'
  <2> SUFFICES ASSUME NEW i \in DOMAIN walks PROVE Held(walks[i])' BY <1>2
  <2>1. CASE i = n
    <3>1. Innermost' = walks[i]' BY <1>1, <1>2, <2>1 DEF Innermost
    <3> QED BY <1>5, <3>1 DEF Held, Ahead, From
  <2> QED BY <1>4, <2>1
<1>7. \A i, j \in DOMAIN walks' : i < j => Opens(walks[i])' /\ Anchor(walks[i])' <= walks[j].base'
  <2> SUFFICES ASSUME NEW i \in DOMAIN walks, NEW j \in DOMAIN walks, i < j
               PROVE Opens(walks[i])' /\ Anchor(walks[i])' <= walks[j].base'
    BY <1>2
  <2>1. i # n BY <1>1
  <2>2. Anchor(walks[i]) <= walks[j].base BY DEF WalkInv
  <2> QED BY <1>2, <1>4, <2>1, <2>2
<1>8. \A i \in DOMAIN walks' : i > 1 => InsideOuter(walks[i], walks[i - 1])'
  BY <1>2 DEF WalkInv, InsideOuter
<1>9. walks' \in Seq(Walks) /\ walks' # <<>> BY <1>2 DEF WalkInv
<1> QED BY <1>2, <1>6, <1>7, <1>8, <1>9 DEF WalkInv

LEMMA WalkStarts == WalkInit => WalkInv
<1> SUFFICES ASSUME WalkInit PROVE WalkInv OBVIOUS
<1> DEFINE it == IterInit(bytes)
           w == Walk(0, it)
<1>1. bytes \in Seq(Nat) /\ walks = <<w>> BY WalkAssumption DEF WalkInit, WalkAssumption
<1>2. it \in Iterators /\ (it.live => it.len <= Len(bytes) /\ it.next = 1 /\ ~OnElement(it))
  <2>1. CASE Len(bytes) < Empty
    <3>1. it = NoIter BY <2>1 DEF IterInit
    <3>2. NoIter \in Iterators /\ NoIter.live = FALSE BY DEF NoIter, Iter, Iterators
    <3> QED BY <3>1, <3>2
  <2>2. CASE ~(Len(bytes) < Empty)
    <3>1. it = Iter(Len(bytes), 1, TRUE) BY <2>2 DEF IterInit
    <3> DEFINE len == Len(bytes)
    <3>2. len \in Nat BY <1>1
    <3> HIDE DEF len
    <3>3. /\ Iter(len, 1, TRUE) \in Iterators /\ Iter(len, 1, TRUE).len = len
          /\ Iter(len, 1, TRUE).next = 1 /\ ~OnElement(Iter(len, 1, TRUE))
      BY <3>2, IterIs
    <3>4. it = Iter(len, 1, TRUE) /\ len = Len(bytes) BY <3>1 DEF len
    <3> HIDE DEF it
    <3>5. it \in Iterators /\ it.len = len /\ it.next = 1 /\ ~OnElement(it)
      BY <3>3, <3>4, Zenon
    <3>6. it.len <= Len(bytes)
      <4>1. len <= len BY <3>2
      <4> QED BY <3>4, <3>5, <4>1, Zenon
    <3> QED BY <3>5, <3>6, Zenon
  <2> QED BY <2>1, <2>2
<1> HIDE DEF it
<1>3. w \in Walks /\ w.base = 0 /\ w.it = it BY <1>2 DEF Walks, Walk
<1>4. Held(w)
  <2>1. it.len \in Nat BY <1>2 DEF Iterators
  <2>2. 0 + it.len = it.len BY <2>1
  <2> QED BY <1>2, <1>3, <2>2 DEF Held, Sound
<1> HIDE DEF w
<1>5. walks \in Seq(Walks) /\ walks # <<>> /\ DOMAIN walks = {1} /\ walks[1] = w BY <1>1, <1>3
<1> QED BY <1>1, <1>4, <1>5 DEF WalkInv

LEMMA WalkStep == ASSUME WalkInv, [WalkNext]_walkVars PROVE WalkInv'
<1>1. CASE WalkOn BY <1>1, WalkOnStep
<1>2. CASE EnterDocument(Innermost) BY <1>2, EnterDocumentStep
<1>3. CASE EnterScope(Innermost) BY <1>3, EnterScopeStep
<1>4. CASE Leave BY <1>4, LeaveStep
<1>5. CASE OverwriteAny(Innermost)
  <2>1. PICK k \in 1..4, v \in Values : Overwrite(Innermost, [i \in 1..k |-> v])
    BY <1>5 DEF OverwriteAny
  <2>2. v \in Nat BY WalkAssumption DEF WalkAssumption
  <2>3. [i \in 1..k |-> v] \in Seq(Nat) BY <2>2
  <2> QED BY <2>1, <2>3, OverwriteStep
<1>6. CASE UNCHANGED walkVars
  <2>1. bytes' = bytes /\ walks' = walks BY <1>6 DEF walkVars
  <2> QED BY <2>1 DEF WalkInv, Held, Sound, Opens, Anchor, InsideOuter, Ahead, From
<1> QED BY <1>1, <1>2, <1>3, <1>4, <1>5, <1>6 DEF WalkNext
-----------------------------------------------------------------------------
(* WalkInside holds whatever bytes a server has sent, however often and in *)
(* whatever order a caller goes on, into a child, back and overwrites a    *)
(* value (bson-iter.c): no reader leaves its element, no element its       *)
(* document, and no document the buffer.                                   *)
THEOREM WalkIsInside == WalkSpec => []WalkInside
<1>1. WalkInv => WalkInside
  <2> SUFFICES ASSUME WalkInv, NEW i \in DOMAIN walks, walks[i].it.live
               PROVE  /\ walks[i].base + walks[i].it.len <= Len(bytes)
                      /\ OnElement(walks[i].it) => InElement(Ahead(walks[i]), walks[i].it)
                      /\ i > 1 => InsideOuter(walks[i], walks[i - 1])
    BY DEF WalkInside
  <2>1. Held(walks[i]) BY DEF WalkInv
  <2>2. i > 1 => InsideOuter(walks[i], walks[i - 1]) BY DEF WalkInv
  <2> QED BY <2>1, <2>2 DEF Held, Sound
<1> QED BY <1>1, WalkStarts, WalkStep, PTL DEF WalkSpec
=============================================================================
